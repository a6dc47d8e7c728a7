-------------------------- MODULE ClientSideProofs --------------------------
(***************************************************************************)
(* What the stock, the sales and the subscriptions of clients keep, for    *)
(* any number of products, rows and handlers, as long as handlers run one  *)
(* by one.  Then only one of them holds rows in memory, and they are what  *)
(* is in the tables (Current): on this rest the invariants of each part,   *)
(* some of which a handler that fails half way leaves true as well.        *)
(***************************************************************************)
EXTENDS ClientSide, Sums

(* No two handlers have overlapped; at most one is not idle. *)
OneByOne == "overlap" \notin marred

JobsShape ==
  /\ DOMAIN job = Workers
  /\ \A w \in Workers : "op" \in DOMAIN job[w]
  /\ OneByOne => \A v, w \in Workers : ~Free(v) /\ ~Free(w) => v = w

(* What every step of a worker leaves to the others, and what it is then   *)
(* about.                                                                  *)
Acts(w) ==
  /\ DOMAIN job' = Workers
  /\ \A v \in Workers \ {w} : job'[v] = job[v]
  /\ "op" \in DOMAIN job'[w]
  /\ marred \subseteq marred'
  /\ OneByOne' => \A v \in Workers \ {w} : Free(v)
  /\ OneByOne /\ Alone(w) => OneByOne'
Goes(w, ops) == Acts(w) /\ {job[w].op, job'[w].op} \subseteq ops \cup {"idle"}

StockOps == {"movement", "removal"} \cup Edits
AnswerOps == {"confirm", "refuse"}
LinkOps == {"acceptByLink", "rejectByLink"}
SalesOps == OrderOps \cup AnswerOps \cup NoteOps \cup QuoteOps \cup {"mailQuote"} \cup LinkOps
NightOps == RecurringOps \cup {"test", "validate", "night"}

LEMMA BeginActs ==
  ASSUME JobsShape, NEW w \in Workers, NEW j, "op" \in DOMAIN j, Begin(w, j)
  PROVE  Acts(w) /\ job'[w] = j /\ job[w] = Idle
BY DEF JobsShape, Acts, Begin, Overlapped, Alone, Free, OneByOne

LEMMA AtOnceActs ==
  ASSUME JobsShape, NEW w \in Workers, NEW op, AtOnce(w, op)
  PROVE  Acts(w) /\ job'[w] = Idle /\ job[w] = Idle
BY DEF JobsShape, Acts, AtOnce, Overlapped, Alone, Free, OneByOne

LEMMA ContinueActs ==
  ASSUME JobsShape, NEW w \in Workers, job[w].op # "idle", NEW j, "op" \in DOMAIN j, Continue(w, j)
  PROVE  Acts(w) /\ job'[w] = j
BY DEF JobsShape, Acts, Continue, Free, OneByOne, Idle

LEMMA FinishActs ==
  ASSUME JobsShape, NEW w \in Workers, job[w].op # "idle", Finish(w)
  PROVE  Acts(w) /\ job'[w] = Idle
BY DEF JobsShape, Acts, Finish, Free, OneByOne, Idle

LEMMA FailActs ==
  ASSUME JobsShape, NEW w \in Workers, Fail(w)
  PROVE  Acts(w) /\ job'[w] = Idle /\ "failure" \in marred'
BY DEF JobsShape, Acts, Fail, Free, OneByOne, Idle

LEMMA ActsShape ==
  ASSUME JobsShape, NEW w \in Workers, Acts(w)
  PROVE  JobsShape'
BY DEF JobsShape, Acts, OneByOne, Free

LEMMA StockGoes ==
  ASSUME JobsShape, NEW w \in Workers, StockNext(w)
  PROVE  Goes(w, StockOps)
<1> USE BeginActs, AtOnceActs, ContinueActs, FinishActs
<1> USE DEF Goes, StockOps, Doing, Idle
<1>1. CASE StartMovement(w)
  BY <1>1 DEF StartMovement
<1>2. CASE SaveMovement(w)
  <2>1. "op" \in DOMAIN [job[w] EXCEPT !.written = TRUE] /\ [job[w] EXCEPT !.written = TRUE].op = job[w].op
    BY DEF JobsShape
  <2> QED BY <1>2, <2>1 DEF SaveMovement
<1>3. CASE SaveQuantity(w)
  BY <1>3 DEF SaveQuantity
<1>4. CASE StartRemoval(w)
  BY <1>4 DEF StartRemoval
<1>5. CASE ReturnQuantity(w)
  <2>1. "op" \in DOMAIN [job[w] EXCEPT !.returned = TRUE] /\ [job[w] EXCEPT !.returned = TRUE].op = job[w].op
    BY DEF JobsShape
  <2> QED BY <1>5, <2>1 DEF ReturnQuantity
<1>6. CASE MarkRemoved(w) \/ RestoreMovement(w)
  BY <1>6 DEF MarkRemoved, RestoreMovement
<1>7. CASE StartEdit(w)
  BY <1>7 DEF StartEdit
<1>8. CASE SaveEdit(w)
  BY <1>8 DEF SaveEdit, Edits
<1> QED BY <1>1, <1>2, <1>3, <1>4, <1>5, <1>6, <1>7, <1>8 DEF StockNext

LEMMA RecurringGoes ==
  ASSUME JobsShape, NEW w \in Workers, RecurringNext(w) \/ SubscribeByLink(w)
  PROVE  Goes(w, NightOps)
<1> USE BeginActs, AtOnceActs, ContinueActs, FinishActs
<1> USE DEF Goes, NightOps, RecurringOps, Doing, Idle
<1>1. CASE Subscribe(w, "createRecurring") \/ SubscribeByLink(w)
  BY <1>1 DEF Subscribe, SubscribeByLink
<1>2. CASE FindRecurring(w)
  BY <1>2 DEF FindRecurring
<1>3. CASE HandleRecurring(w)
  BY <1>3 DEF HandleRecurring
<1>4. CASE StartTest(w)
  BY <1>4 DEF StartTest
<1>10. CASE CountTest(w)
  BY <1>10 DEF CountTest
<1>5. CASE SaveTestInvoice(w)
  <2>1. "op" \in DOMAIN [job[w] EXCEPT !.written = TRUE] /\ [job[w] EXCEPT !.written = TRUE].op = job[w].op
    BY DEF JobsShape
  <2> QED BY <1>5, <2>1 DEF SaveTestInvoice
<1>6. CASE StartValidation(w)
  BY <1>6 DEF StartValidation
<1>11. CASE ValidatePayment(w)
  BY <1>11 DEF ValidatePayment
<1>7. CASE StartNight(w) \/ EndNight(w)
  BY <1>7 DEF StartNight, EndNight
<1>8. CASE NightEntry(w)
  <2>1. /\ "op" \in DOMAIN [job[w] EXCEPT !.list = Tail(@)]
        /\ [job[w] EXCEPT !.list = Tail(@)].op = job[w].op
    BY DEF JobsShape
  <2> QED BY <1>8, <2>1 DEF NightEntry
<1>9. CASE NightFailure(w)
  <2>1. job[w].op = "night" /\ marred' = marred \cup {"failure"} /\ job' = [job EXCEPT ![w].list = Tail(@)]
    BY <1>9 DEF NightFailure
  <2>2. DOMAIN job' = Workers /\ \A v \in Workers \ {w} : job'[v] = job[v]
    BY <2>1 DEF JobsShape
  <2>3. "op" \in DOMAIN job'[w] /\ job'[w].op = "night"
    BY <2>1 DEF JobsShape
  <2>4. OneByOne' => \A v \in Workers \ {w} : Free(v)
    BY <2>1 DEF JobsShape, OneByOne, Free
  <2> QED BY <2>1, <2>2, <2>3, <2>4 DEF Acts, OneByOne
<1> QED BY <1>1, <1>2, <1>3, <1>4, <1>5, <1>6, <1>7, <1>8, <1>9, <1>10, <1>11 DEF RecurringNext

LEMMA SalesGoes ==
  ASSUME JobsShape, NEW w \in Workers, SalesNext(w)
  PROVE  Goes(w, SalesOps)
<1> USE BeginActs, AtOnceActs, ContinueActs, FinishActs
<1> USE DEF Goes, Doing, Idle
<1> DEFINE J == job[w]
<1>0. "op" \in DOMAIN J
  BY DEF JobsShape
<1>1. CASE OrderNext(w)
  <2> USE DEF SalesOps, OrderOps, AnswerOps
  <2>1. CASE CreateOrder(w) \/ SendOrderLink(w)
    BY <2>1 DEF CreateOrder, SendOrderLink
  <2>2. CASE FindOrder(w)
    BY <2>2 DEF FindOrder
  <2>3. CASE LoadProducts(w)
    <3> DEFINE K == [f \in DOMAIN J \cup {"shelf"} |-> IF f = "shelf" THEN products ELSE J[f]]
    <3>1. "op" \in DOMAIN K /\ K.op = J.op
      BY <1>0
    <3>2. J.op \in NeedsShelf /\ Continue(w, K)
      BY <2>3 DEF LoadProducts
    <3> HIDE DEF K
    <3>3. Acts(w) /\ job'[w] = K
      BY <3>1, <3>2 DEF NeedsShelf
    <3> QED BY <3>1, <3>2, <3>3 DEF NeedsShelf, NoteOps
  <2>4. CASE UpdateOrder(w)
    BY <2>4 DEF UpdateOrder
  <2>5. CASE StartProgress(w)
    BY <2>5 DEF StartProgress
  <2>6. CASE MarkDelivered(w)
    BY <2>6 DEF MarkDelivered
  <2>7. CASE TransitionOrder(w)
    BY <2>7 DEF TransitionOrder
  <2>8. CASE DeleteOrder(w)
    BY <2>8 DEF DeleteOrder
  <2>9. CASE ConvertToInvoice(w)
    BY <2>9 DEF ConvertToInvoice
  <2>10. CASE OpenOrderLink(w)
    BY <2>10 DEF OpenOrderLink
  <2>11. CASE SpendLink(w)
    <3>1. "op" \in DOMAIN [J EXCEPT !.spent = TRUE] /\ [J EXCEPT !.spent = TRUE].op = J.op
      BY <1>0
    <3> QED BY <2>11, <3>1 DEF SpendLink
  <2>12. CASE ConfirmOrder(w)
    BY <2>12 DEF ConfirmOrder
  <2>13. CASE RefuseOrder(w)
    BY <2>13 DEF RefuseOrder
  <2> QED BY <1>1, <2>1, <2>2, <2>3, <2>4, <2>5, <2>6, <2>7, <2>8, <2>9, <2>10, <2>11, <2>12, <2>13
          DEF OrderNext
<1>2. CASE NoteNext(w)
  <2> USE DEF SalesOps, NoteOps
  <2>1. CASE CreateNote(w)
    BY <2>1 DEF CreateNote
  <2>2. CASE FindNote(w)
    BY <2>2 DEF FindNote
  <2>3. CASE DeliverNote(w)
    BY <2>3 DEF DeliverNote
  <2>4. CASE CancelNote(w)
    BY <2>4 DEF CancelNote
  <2>5. CASE UpdateNote(w) \/ DeleteNote(w)
    BY <2>5 DEF UpdateNote, DeleteNote
  <2> QED BY <1>2, <2>1, <2>2, <2>3, <2>4, <2>5 DEF NoteNext
<1>3. CASE QuoteNext(w)
  <2> USE DEF SalesOps, QuoteOps, QuoteTransitions, LinkOps
  <2>1. CASE CreateQuote(w)
    BY <2>1 DEF CreateQuote
  <2>2. CASE FindQuote(w)
    BY <2>2 DEF FindQuote
  <2>3. CASE UpdateQuote(w)
    BY <2>3 DEF UpdateQuote
  <2>4. CASE TransitionQuote(w)
    BY <2>4 DEF TransitionQuote
  <2>5. CASE MakeQuoteLink(w)
    <3>1. "op" \in DOMAIN [J EXCEPT !.op = "mailQuote"] /\ [J EXCEPT !.op = "mailQuote"].op = "mailQuote"
      BY <1>0
    <3> QED BY <2>5, <3>1 DEF MakeQuoteLink
  <2>6. CASE MailQuote(w)
    BY <2>6 DEF MailQuote
  <2>7. CASE DeleteQuote(w)
    BY <2>7 DEF DeleteQuote
  <2>8. CASE QuoteToInvoice(w)
    BY <2>8 DEF QuoteToInvoice
  <2>9. CASE QuoteToOrder(w)
    BY <2>9 DEF QuoteToOrder
  <2>10. CASE OpenQuoteLink(w)
    BY <2>10 DEF OpenQuoteLink
  <2>11. CASE AnswerQuote(w)
    <3>1. "op" \in DOMAIN [J EXCEPT !.saved = TRUE] /\ [J EXCEPT !.saved = TRUE].op = J.op
      BY <1>0
    <3> QED BY <2>11, <3>1 DEF AnswerQuote
  <2>12. CASE SpendQuoteLink(w)
    <3> DEFINE K == [J EXCEPT !.op = "quoteToOrder", !.seen = quotes[J.quote]]
    <3>1. "op" \in DOMAIN K /\ K.op = "quoteToOrder"
      BY <1>0
    <3>2. J.op \in LinkOps /\ (Continue(w, K) \/ Finish(w))
      BY <2>12 DEF SpendQuoteLink
    <3> HIDE DEF K
    <3>3. CASE Continue(w, K)
      BY <3>1, <3>2, <3>3
    <3> QED BY <3>1, <3>2, <3>3
  <2> QED BY <1>3, <2>1, <2>2, <2>3, <2>4, <2>5, <2>6, <2>7, <2>8, <2>9, <2>10, <2>11, <2>12 DEF QuoteNext
<1> QED BY <1>1, <1>2, <1>3 DEF SalesNext

(* A step of the business towards its clients, and whose it is. *)
LEMMA ClientStep ==
  ASSUME JobsShape, [Next]_vars
  PROVE  \/ UNCHANGED vars
         \/ NewDay /\ UNCHANGED <<stockVars, salesVars>>
         \/ \E w \in Workers :
              \/ StockNext(w) /\ Goes(w, StockOps) /\ UNCHANGED <<salesVars, recurringVars>>
              \/ SalesNext(w) /\ Goes(w, SalesOps) /\ UNCHANGED recurringVars
              \/ /\ RecurringNext(w) \/ SubscribeByLink(w)
                 /\ Goes(w, NightOps) /\ UNCHANGED <<stockVars, salesVars>>
              \/ /\ Fail(w) /\ Acts(w) /\ job'[w] = Idle /\ "failure" \in marred'
                 /\ UNCHANGED <<stockVars, salesVars, recurringVars>>
BY StockGoes, SalesGoes, RecurringGoes, FailActs DEF Next, Abort

LEMMA ShapeStays ==
  ASSUME JobsShape, [Next]_vars
  PROVE  JobsShape'
<1>1. CASE UNCHANGED vars \/ NewDay
  BY <1>1 DEF vars, NewDay, jobVars, JobsShape, OneByOne, Free
<1>2. ASSUME NEW w \in Workers, Acts(w) PROVE JobsShape'
  BY <1>2, ActsShape
<1> QED
  BY <1>1, <1>2, ClientStep DEF Goes

LEMMA ShapeInit == ASSUME Init PROVE JobsShape
BY DEF Init, JobsInit, JobsShape, Free, Idle

LEMMA FreshRow ==
  ASSUME NEW table, CanInsert(table)
  PROVE  Fresh(table) \in DOMAIN table /\ ~Exists(table, Fresh(table))
BY DEF CanInsert, Fresh

LEMMA FreshOrder ==
  ASSUME Unnamed # {}
  PROVE  /\ NewOrder \in Orders /\ ~Exists(orders, NewOrder)
         /\ \A q \in Rows(quotes) : quotes[q].order # NewOrder
BY DEF Unnamed, NewOrder

-----------------------------------------------------------------------------
(* Subscriptions: as long as handlers neither overlap nor fail, the row a  *)
(* handler has read is the row of the table, and the rows the nightly job  *)
(* has still to work through are those that are due on its day.            *)
Unmarred == marred = {}
DueOn(row, day) == row.status = "ACTIVE" /\ row.next <= day
SubRows == \A r \in Subscriptions : Exists(recurring, r) => recurring[r] \in RecurringInvoice
Counted(r, due) ==
  /\ billed[r] \in Nat /\ tested[r] \in Nat /\ received[r] \in Nat
  /\ Exists(recurring, r) =>
       recurring[r].generated + (IF due THEN 1 ELSE 0) = billed[r] + tested[r] + received[r]
  /\ ~Exists(recurring, r) => billed[r] = 0 /\ tested[r] = 0 /\ received[r] = 0
Uncounted(w, r) == Doing(w, "test") /\ job[w].written /\ job[w].row = r
NothingDue == \A r \in Subscriptions : Exists(recurring, r) => ~DueOn(recurring[r], today)
Has(r, row) == r \in Subscriptions /\ Exists(recurring, r) /\ recurring[r] = row

(* What is left of the list of a night. *)
Nightly(list, copies, day) ==
  /\ list \in Seq(Subscriptions) /\ day \in Nat /\ day <= today
  /\ \A n \in 1 .. Len(list) : Has(list[n], copies[list[n]]) /\ DueOn(recurring[list[n]], day)
  /\ \A m, n \in 1 .. Len(list) : list[m] = list[n] => m = n
  /\ \A r \in Subscriptions : Exists(recurring, r) /\ DueOn(recurring[r], day) =>
       \E n \in 1 .. Len(list) : list[n] = r
SubJob(w) ==
  LET j == job[w] IN
  /\ j.op \in RecurringOps =>
       /\ j.row \in Subscriptions /\ Exists(recurring, j.row)
       /\ (j.image = Absent) <=> (j.op = "remove")
       /\ j.op # "remove" => j.image \in RecurringInvoice /\ j.image.generated = recurring[j.row].generated
  /\ Doing(w, "test") =>
       DOMAIN j = {"op", "row", "seen", "written"} /\ j.written \in BOOLEAN /\ Has(j.row, j.seen)
  /\ Doing(w, "validate") => Has(j.row, j.seen) /\ j.day \in Nat
  /\ Doing(w, "night") => DOMAIN j = {"op", "list", "copies", "day"} /\ Nightly(j.list, j.copies, j.day)
SubDomains ==
  /\ DOMAIN recurring = Subscriptions /\ DOMAIN billed = Subscriptions
  /\ DOMAIN tested = Subscriptions /\ DOMAIN received = Subscriptions
  /\ today \in Nat
SubInv ==
  /\ SubDomains
  /\ Unmarred =>
       /\ SubRows
       /\ \A r \in Subscriptions : Counted(r, \E w \in Workers : Uncounted(w, r))
       /\ tonight => NothingDue
       /\ \A w \in Workers : SubJob(w)

(* The same, as the one worker who is not idle sees it. *)
SubSeen(w) ==
  /\ SubRows /\ SubJob(w)
  /\ \A r \in Subscriptions : Counted(r, Uncounted(w, r))
  /\ tonight => NothingDue

LEMMA SubBy ==
  ASSUME JobsShape, SubInv, NEW w \in Workers, Acts(w), SubDomains',
         Unmarred' /\ Unmarred /\ SubSeen(w) => SubSeen(w)'
  PROVE  SubInv'
<1> SUFFICES ASSUME Unmarred'
             PROVE  (/\ SubRows
                     /\ \A r \in Subscriptions : Counted(r, \E v \in Workers : Uncounted(v, r))
                     /\ tonight => NothingDue
                     /\ \A v \in Workers : SubJob(v))'
  BY DEF SubInv
<1>1. Unmarred /\ \A v \in Workers \ {w} : job[v] = Idle /\ job'[v] = Idle
  BY DEF Unmarred, Acts, OneByOne, Free
<1>2. ASSUME NEW r PROVE (\E v \in Workers : Uncounted(v, r)) <=> Uncounted(w, r)
  BY <1>1 DEF Uncounted, Doing, Idle
<1>3. SubSeen(w)
  <2>1. ASSUME NEW r \in Subscriptions PROVE Counted(r, Uncounted(w, r))
    BY <1>1, <1>2 DEF SubInv, Counted
  <2> QED BY <1>1, <2>1 DEF SubInv, SubSeen
<1>4. SubSeen(w)'
  BY <1>1, <1>3
<1>5. ASSUME NEW r PROVE (\E v \in Workers : Uncounted(v, r))' <=> Uncounted(w, r)'
  BY <1>1 DEF Uncounted, Doing, Idle
<1>6. \A r \in Subscriptions : Counted(r, \E v \in Workers : Uncounted(v, r))'
  BY <1>4, <1>5 DEF SubSeen, Counted
<1>7. ASSUME NEW v \in Workers PROVE SubJob(v)'
  <2>1. CASE v = w
    BY <2>1, <1>4 DEF SubSeen
  <2>2. CASE v # w
    <3>1. job'[v].op = "idle"
      BY <1>1, <2>2 DEF Idle
    <3> QED BY <3>1 DEF SubJob, Doing, RecurringOps
  <2> QED BY <2>1, <2>2
<1> QED BY <1>4, <1>6, <1>7 DEF SubSeen

LEMMA SubUntouched ==
  ASSUME JobsShape, SubInv, NEW w \in Workers, Acts(w), UNCHANGED recurringVars,
         job[w].op # "test", job'[w].op \notin NightOps
  PROVE  SubInv'
<1>1. ASSUME SubSeen(w) PROVE SubSeen(w)'
  <2>1. ASSUME NEW r \in Subscriptions PROVE Counted(r, Uncounted(w, r))'
    BY <1>1 DEF SubSeen, NightOps, Counted, Uncounted, Doing, Exists, recurringVars
  <2>2. SubJob(w)'
    BY DEF SubJob, NightOps, Doing
  <2>3. SubRows' /\ (tonight => NothingDue)'
    BY <1>1 DEF SubSeen, SubRows, NothingDue, Exists, recurringVars
  <2> QED BY <2>1, <2>2, <2>3 DEF SubSeen
<1> QED BY <1>1, SubBy DEF SubInv, SubDomains, recurringVars

LEMMA ListOfAll ==
  ASSUME NEW S, IsFiniteSet(S), NEW s, s = SetToSeq(S)
  PROVE  /\ s \in Seq(S)
         /\ \A m, n \in 1 .. Len(s) : s[m] = s[n] => m = n
         /\ \A x \in S : \E n \in 1 .. Len(s) : s[n] = x
<1> DEFINE N == 1 .. Cardinality(S)
<1>1. Cardinality(S) \in Nat /\ ExistsBijection(N, S)
  BY FS_CardinalityType
<1>2. \E f \in [N -> S] : IsInjective(f)
  BY <1>1 DEF ExistsBijection, Bijection, Injection
<1>3. s \in [N -> S] /\ IsInjective(s)
  BY <1>2 DEF SetToSeq
<1>4. s \in Seq(S) /\ Len(s) = Cardinality(S)
  BY <1>1, <1>3
<1>5. Cardinality(N) = Cardinality(S)
  BY <1>1, FS_Interval
<1>6. s \in Injection(N, S)
  BY <1>3 DEF Injection
<1>7. s \in Surjection(N, S)
  BY <1>5, <1>6, FS_Injection
<1> QED BY <1>3, <1>4, <1>7 DEF IsInjective, Surjection

LEMMA AgreedWell ==
  ASSUME RecurringAssumption, NEW start \in Nat, NEW period \in Periods, NEW ends \in Ends
  PROVE  Agreed(start, period, ends) \in RecurringInvoice /\ Agreed(start, period, ends).generated = 0
BY DEF Agreed, RecurringInvoice, RecurringAssumption

LEMMA BilledWell ==
  ASSUME RecurringAssumption, NEW row \in RecurringInvoice, NEW day \in Nat
  PROVE  /\ OnceBilled(row, day) \in RecurringInvoice
         /\ OnceBilled(row, day).generated = row.generated + 1
         /\ ~DueOn(OnceBilled(row, day), day)
<1>1. row.period \in Nat \ {0} /\ row.generated \in Nat /\ row.next \in Nat
  BY DEF RecurringInvoice, RecurringAssumption
<1>2. day + row.period \in Nat /\ row.generated + 1 \in Nat /\ ~(day + row.period <= day)
  BY <1>1
<1> QED BY <1>2 DEF OnceBilled, NextDate, RecurringInvoice, DueOn

LEMMA HandledWell ==
  ASSUME NEW row \in RecurringInvoice, NEW period \in Periods, NEW ends \in Ends,
         NEW op \in RecurringOps, NEW image, image = Handled(op, row, period, ends)
  PROVE  /\ (image = Absent) <=> (op = "remove")
         /\ op # "remove" => image \in RecurringInvoice /\ image.generated = row.generated
<1>1. CASE op = "remove"
  BY <1>1 DEF Handled
<1>2. CASE op # "remove"
  <2>1. image \in RecurringInvoice /\ image.generated = row.generated
    <3>1. CASE op = "updateRecurring"
      BY <3>1 DEF Handled, RecurringInvoice
    <3>2. CASE op = "activate"
      BY <3>2 DEF Handled, RecurringInvoice
    <3>3. CASE op = "deactivate"
      BY <3>3 DEF Handled, RecurringInvoice
    <3>4. CASE op = "pause"
      BY <3>4 DEF Handled, RecurringInvoice
    <3> QED BY <1>2, <3>1, <3>2, <3>3, <3>4 DEF RecurringOps
  <2>2. image # Absent
    BY <2>1 DEF RecurringInvoice, Absent
  <2> QED BY <1>2, <2>1, <2>2
<1> QED BY <1>1, <1>2

LEMMA RowHere ==
  ASSUME NEW row \in RecurringInvoice PROVE row # Absent
BY DEF RecurringInvoice, Absent

(* A handler that ends by writing one row, and what was counted for it. *)
LEMMA SubWritten ==
  ASSUME JobsShape, SubInv, NEW w \in Workers, Acts(w), job'[w] = Idle, today' = today, tonight' = FALSE,
         NEW r \in Subscriptions, NEW row, recurring' = [recurring EXCEPT ![r] = row],
         \A x \in Subscriptions \ {r} :
           billed'[x] = billed[x] /\ tested'[x] = tested[x] /\ received'[x] = received[x],
         DOMAIN billed' = Subscriptions, DOMAIN tested' = Subscriptions, DOMAIN received' = Subscriptions,
         \A x \in Subscriptions \ {r} : ~Uncounted(w, x),
         Unmarred /\ SubSeen(w) =>
           Counted(r, FALSE)' /\ (row = Absent \/ row \in RecurringInvoice)
  PROVE  SubInv'
<1>1. SubDomains'
  BY DEF SubInv, SubDomains
<1>2. ASSUME Unmarred, SubSeen(w) PROVE SubSeen(w)'
  <2>1. ASSUME NEW x \in Subscriptions PROVE Counted(x, Uncounted(w, x))'
    <3>1. ~Uncounted(w, x)'
      BY DEF Uncounted, Doing, Idle
    <3>2. CASE x = r
      BY <1>2, <3>1, <3>2 DEF Counted
    <3>3. CASE x # r
      <4>1. recurring'[x] = recurring[x] /\ Counted(x, FALSE)
        BY <1>2, <3>3 DEF SubInv, SubDomains, SubSeen, Counted
      <4> QED BY <3>1, <3>3, <4>1 DEF Counted, Exists
    <3> QED BY <3>2, <3>3
  <2>2. SubRows'
    BY <1>2 DEF SubInv, SubDomains, SubSeen, SubRows, Exists
  <2>3. SubJob(w)'
    BY DEF SubJob, Idle, RecurringOps, Doing
  <2> QED BY <2>1, <2>2, <2>3 DEF SubSeen
<1> QED BY <1>1, <1>2, SubBy

LEMMA RecurringKeepsSubs ==
  ASSUME JobsShape, RecurringAssumption, SubInv, NEW w \in Workers,
         RecurringNext(w) \/ SubscribeByLink(w), Goes(w, NightOps)
  PROVE  SubInv'
<1> SUFFICES ASSUME SubDomains PROVE SubInv'
  BY DEF SubInv
<1>0. Acts(w)
  BY DEF Goes
<1> DEFINE J == job[w]
<1> USE BeginActs, AtOnceActs, ContinueActs, FinishActs, <1>0
<1>1. ASSUME NEW op, Subscribe(w, op) PROVE SubInv'
  <2>0. PICK r : r = Fresh(recurring)
    OBVIOUS
  <2>1. r \in Subscriptions /\ ~Exists(recurring, r)
    BY <1>1, <2>0, FreshRow DEF Subscribe, SubDomains
  <2>2. PICK start \in Days, period \in Periods, ends \in Ends :
          recurring' = [recurring EXCEPT ![r] = Agreed(start, period, ends)]
    BY <1>1, <2>0 DEF Subscribe, SaveRecurring
  <2>3. UNCHANGED <<today, billed, tested, received>> /\ tonight' = FALSE /\ job'[w] = Idle /\ J = Idle
    BY <1>1 DEF Subscribe
  <2> DEFINE row == Agreed(start, period, ends)
  <2>4. row \in RecurringInvoice /\ row.generated = 0 /\ row # Absent
    BY AgreedWell, RowHere DEF Days
  <2> HIDE DEF row
  <2>5. ASSUME SubSeen(w) PROVE Counted(r, FALSE)'
    <3>1. Counted(r, Uncounted(w, r)) /\ recurring'[r] = row
      BY <2>1, <2>2, <2>5 DEF SubSeen, SubDomains, row
    <3> QED BY <2>1, <2>3, <2>4, <3>1 DEF Counted, Exists
  <2>6. \A x : ~Uncounted(w, x)
    BY <2>3 DEF Uncounted, Doing, Idle
  <2>7. recurring' = [recurring EXCEPT ![r] = row]
    BY <2>2 DEF row
  <2> QED BY <2>1, <2>3, <2>4, <2>5, <2>6, <2>7, SubWritten DEF SubDomains
<1>2. CASE FindRecurring(w)
  <2>1. PICK r \in Rows(recurring), op \in RecurringOps, period \in Periods, ends \in Ends :
          Begin(w, [op |-> op, row |-> r, image |-> Handled(op, recurring[r], period, ends)])
    BY <1>2 DEF FindRecurring
  <2> DEFINE image == Handled(op, recurring[r], period, ends)
  <2>2. J = Idle /\ job'[w] = [op |-> op, row |-> r, image |-> image]
    BY <2>1
  <2>3. UNCHANGED recurringVars /\ r \in Subscriptions /\ Exists(recurring, r)
    BY <1>2 DEF FindRecurring, Rows, SubDomains
  <2> HIDE DEF image
  <2>4. ASSUME SubSeen(w) PROVE SubSeen(w)'
    <3>1. recurring[r] \in RecurringInvoice
      BY <2>3, <2>4 DEF SubSeen, SubRows
    <3>2. /\ (image = Absent) <=> (op = "remove")
          /\ op # "remove" => image \in RecurringInvoice /\ image.generated = recurring[r].generated
      BY <3>1, HandledWell DEF image
    <3>3. SubJob(w)'
      BY <2>2, <2>3, <3>2 DEF SubJob, RecurringOps, Doing, recurringVars, Exists
    <3>4. ASSUME NEW x \in Subscriptions PROVE Counted(x, Uncounted(w, x))'
      <4>1. ~Uncounted(w, x) /\ ~Uncounted(w, x)'
        BY <2>2 DEF Uncounted, Doing, Idle, RecurringOps
      <4> QED BY <2>3, <2>4, <4>1 DEF SubSeen, Counted, Exists, recurringVars
    <3> QED BY <2>3, <2>4, <3>3, <3>4 DEF SubSeen, SubRows, NothingDue, Exists, recurringVars
  <2> QED BY <2>3, <2>4, SubBy DEF SubDomains, recurringVars
<1>3. CASE HandleRecurring(w)
  <2>0. PICK r, image : r = J.row /\ image = J.image
    OBVIOUS
  <2> DEFINE gone(count) == IF Doing(w, "remove") THEN [count EXCEPT ![r] = 0] ELSE count
  <2>1. /\ recurring' = [recurring EXCEPT ![r] = image] /\ tonight' = FALSE /\ job'[w] = Idle
        /\ billed' = gone(billed) /\ tested' = gone(tested) /\ received' = gone(received)
        /\ J.op \in RecurringOps /\ today' = today
    BY <1>3, <2>0 DEF HandleRecurring, SaveRecurring, RecurringOps
  <2>2. SubDomains'
    BY <2>1 DEF SubDomains
  <2>3. \A x : ~Uncounted(w, x)
    BY <2>1 DEF Uncounted, Doing, RecurringOps
  <2>4. CASE r \in Subscriptions
    <3>1. ASSUME SubSeen(w)
          PROVE  Counted(r, FALSE)' /\ (image = Absent \/ image \in RecurringInvoice)
      <4>1. /\ Exists(recurring, r) /\ ((image = Absent) <=> (J.op = "remove"))
            /\ J.op # "remove" => image \in RecurringInvoice /\ image.generated = recurring[r].generated
        BY <2>0, <2>1, <3>1 DEF SubSeen, SubJob
      <4>2. Counted(r, FALSE) /\ recurring'[r] = image
        BY <2>1, <2>3, <2>4, <3>1 DEF SubSeen, SubDomains, Counted
      <4>3. CASE J.op = "remove"
        <5>1. billed'[r] = 0 /\ tested'[r] = 0 /\ received'[r] = 0
          BY <2>1, <2>4, <4>3 DEF Doing, SubDomains
        <5> QED BY <4>1, <4>2, <4>3, <5>1 DEF Counted, Exists
      <4>4. CASE J.op # "remove"
        BY <2>1, <4>1, <4>2, <4>4 DEF Counted, Exists, Doing
      <4> QED BY <4>1, <4>3, <4>4
    <3>2. \A x \in Subscriptions \ {r} :
            billed'[x] = billed[x] /\ tested'[x] = tested[x] /\ received'[x] = received[x]
      BY <2>1 DEF SubDomains
    <3> HIDE DEF gone
    <3> QED BY <2>1, <2>2, <2>3, <2>4, <3>1, <3>2, SubWritten DEF SubDomains
  <2>5. CASE r \notin Subscriptions
    <3>1. ~SubSeen(w)
      BY <2>0, <2>1, <2>5 DEF SubSeen, SubJob
    <3> QED BY <2>2, <3>1, SubBy
  <2> QED BY <2>4, <2>5
<1>4. CASE StartTest(w) \/ StartValidation(w)
  <2>1. PICK r \in Rows(recurring), day \in Days :
          \/ Begin(w, [op |-> "test", row |-> r, seen |-> recurring[r], written |-> FALSE])
          \/ Begin(w, [op |-> "validate", row |-> r, seen |-> recurring[r], day |-> day])
    <3>1. 0 \in Days
      BY DEF Days, RecurringAssumption
    <3> QED BY <1>4, <3>1 DEF StartTest, StartValidation
  <2>2. UNCHANGED recurringVars /\ Has(r, recurring[r]) /\ day \in Nat
    BY <1>4 DEF StartTest, StartValidation, Rows, SubDomains, Has, Days
  <2>3. J = Idle /\ \/ job'[w] = [op |-> "test", row |-> r, seen |-> recurring[r], written |-> FALSE]
                    \/ job'[w] = [op |-> "validate", row |-> r, seen |-> recurring[r], day |-> day]
    BY <2>1
  <2>4. ASSUME SubSeen(w) PROVE SubSeen(w)'
    <3>1. SubJob(w)'
      <4>1. job'[w].row = r /\ job'[w].seen = recurring[r] /\ recurring' = recurring
        BY <2>2, <2>3 DEF recurringVars
      <4>2. Has(job[w].row, job[w].seen)'
        BY <2>2, <4>1 DEF Has, Exists
      <4>3. CASE job'[w].op = "test"
        <5>1. job'[w] = [op |-> "test", row |-> r, seen |-> recurring[r], written |-> FALSE]
          BY <2>3, <4>3
        <5>2. DOMAIN job'[w] = {"op", "row", "seen", "written"} /\ job'[w].written = FALSE
          BY <5>1
        <5> QED BY <4>2, <4>3, <5>2 DEF SubJob, RecurringOps, Doing
      <4>4. CASE job'[w].op = "validate"
        <5>1. job'[w].day = day
          BY <2>3, <4>4
        <5> QED BY <2>2, <4>2, <4>4, <5>1 DEF SubJob, RecurringOps, Doing
      <4> QED BY <2>3, <4>3, <4>4
    <3>2. ASSUME NEW x \in Subscriptions PROVE Counted(x, Uncounted(w, x))'
      <4>1. ~Uncounted(w, x) /\ ~Uncounted(w, x)'
        BY <2>3 DEF Uncounted, Doing, Idle
      <4> QED BY <2>2, <2>4, <4>1 DEF SubSeen, Counted, Exists, recurringVars
    <3> QED BY <2>2, <2>4, <3>1, <3>2 DEF SubSeen, SubRows, NothingDue, Exists, recurringVars
  <2> QED BY <2>2, <2>4, SubBy DEF SubDomains, recurringVars
<1>5. CASE SaveTestInvoice(w)
  <2>0. PICK r : r = J.row
    OBVIOUS
  <2>1. /\ J.op = "test" /\ ~J.written /\ tested' = [tested EXCEPT ![r] = @ + 1]
        /\ UNCHANGED <<recurring, today, tonight, billed, received>>
        /\ Continue(w, [J EXCEPT !.written = TRUE])
    BY <1>5, <2>0 DEF SaveTestInvoice, Doing
  <2>2. "op" \in DOMAIN [J EXCEPT !.written = TRUE]
    BY DEF JobsShape
  <2>3. job'[w] = [J EXCEPT !.written = TRUE]
    BY <2>1, <2>2
  <2>4. SubDomains'
    BY <2>1 DEF SubDomains
  <2>5. ASSUME SubSeen(w) PROVE SubSeen(w)'
    <3>1. DOMAIN J = {"op", "row", "seen", "written"} /\ Has(r, J.seen)
      BY <2>0, <2>1, <2>5 DEF SubSeen, SubJob, Doing
    <3>2. /\ DOMAIN job'[w] = {"op", "row", "seen", "written"} /\ job'[w].op = "test" /\ job'[w].written = TRUE
          /\ job'[w].row = r /\ job'[w].seen = J.seen
      BY <2>0, <2>1, <2>3, <3>1
    <3>3. SubJob(w)'
      BY <2>1, <3>1, <3>2 DEF SubJob, Doing, RecurringOps, Has, Exists
    <3>4. ASSUME NEW x \in Subscriptions PROVE Counted(x, Uncounted(w, x))'
      <4>1. ~Uncounted(w, x) /\ (Uncounted(w, x)' <=> x = r)
        BY <2>1, <3>2 DEF Uncounted, Doing
      <4>2. Counted(x, FALSE)
        BY <2>5, <4>1 DEF SubSeen, Counted
      <4>3. CASE x = r
        <5>1. tested'[r] = tested[r] + 1 /\ Exists(recurring, r)
          BY <2>1, <3>1, <4>3 DEF SubDomains, Has
        <5> QED BY <2>1, <2>5, <4>1, <4>2, <4>3, <5>1 DEF Counted, Exists, SubSeen, SubRows, RecurringInvoice
      <4>4. CASE x # r
        <5>1. tested'[x] = tested[x]
          BY <2>1, <4>4 DEF SubDomains
        <5> QED BY <2>1, <4>1, <4>2, <4>4, <5>1 DEF Counted, Exists
      <4> QED BY <4>3, <4>4
    <3> QED BY <2>1, <2>5, <3>3, <3>4 DEF SubSeen, SubRows, NothingDue, Exists
  <2> QED BY <2>4, <2>5, SubBy
<1>6. CASE CountTest(w) \/ ValidatePayment(w)
  <2>0. PICK r, row, paid :
          /\ r = J.row /\ paid = (J.op = "validate")
          /\ row = IF paid THEN OnceBilled(J.seen, J.day) ELSE [J.seen EXCEPT !.generated = @ + 1]
    OBVIOUS
  <2>1. /\ recurring' = [recurring EXCEPT ![r] = row] /\ tonight' = FALSE /\ job'[w] = Idle
        /\ UNCHANGED <<today, billed, tested>> /\ (~paid => J.op = "test" /\ J.written)
        /\ received' = IF paid THEN [received EXCEPT ![r] = @ + 1] ELSE received
    <3>1. CASE CountTest(w)
      BY <2>0, <3>1 DEF CountTest, Doing, SaveRecurring
    <3>2. CASE ValidatePayment(w)
      BY <2>0, <3>2 DEF ValidatePayment, Doing, SaveRecurring
    <3> QED BY <1>6, <3>1, <3>2
  <2>2. SubDomains'
    BY <2>1 DEF SubDomains
  <2>3. ASSUME SubSeen(w)
        PROVE  /\ r \in Subscriptions /\ row \in RecurringInvoice /\ Counted(r, FALSE)'
    <3>1. Has(r, J.seen) /\ (paid => J.day \in Nat)
      BY <2>0, <2>1, <2>3 DEF SubSeen, SubJob, Doing
    <3>2. r \in Subscriptions /\ Exists(recurring, r) /\ J.seen \in RecurringInvoice /\ recurring[r] = J.seen
      BY <2>3, <3>1 DEF Has, SubSeen, SubRows
    <3>3. row \in RecurringInvoice /\ row.generated = recurring[r].generated + 1
      <4>1. CASE paid
        BY <2>0, <3>1, <3>2, <4>1, BilledWell
      <4>2. CASE ~paid
        BY <2>0, <3>2, <4>2 DEF RecurringInvoice
      <4> QED BY <4>1, <4>2
    <3>4. Counted(r, ~paid)
      <4>1. Uncounted(w, r) <=> ~paid
        BY <2>0, <2>1 DEF Uncounted, Doing
      <4>2. Counted(r, Uncounted(w, r))
        BY <2>3, <3>2 DEF SubSeen
      <4> QED BY <4>1, <4>2 DEF Counted
    <3>5. recurring'[r] = row /\ Exists(recurring', r)
      BY <2>1, <3>2, <3>3, RowHere DEF SubDomains, Exists
    <3>6. received'[r] = IF paid THEN received[r] + 1 ELSE received[r]
      BY <2>1, <3>2 DEF SubDomains
    <3>7. recurring[r].generated \in Nat
      BY <3>2 DEF RecurringInvoice
    <3> QED BY <2>1, <3>2, <3>3, <3>4, <3>5, <3>6, <3>7 DEF Counted
  <2>4. CASE r \in Subscriptions
    <3>1. \A x \in Subscriptions \ {r} : ~Uncounted(w, x)
      BY <2>0 DEF Uncounted
    <3>2. \A x \in Subscriptions \ {r} : received'[x] = received[x]
      BY <2>1 DEF SubDomains
    <3> QED BY <2>1, <2>2, <2>3, <2>4, <3>1, <3>2, SubWritten DEF SubDomains
  <2>5. CASE r \notin Subscriptions
    BY <2>2, <2>3, <2>5, SubBy
  <2> QED BY <2>4, <2>5
<1>7. CASE StartNight(w)
  <2>0. PICK due, list, copies, day :
          due = DueRows /\ list = SetToSeq(due) /\ copies = recurring /\ day = today
    OBVIOUS
  <2>1. J = Idle /\ job'[w] = [op |-> "night", list |-> list, copies |-> copies, day |-> day]
    BY <1>7, <2>0 DEF StartNight
  <2>2. UNCHANGED recurringVars
    BY <1>7 DEF StartNight
  <2>3. due = {r \in Subscriptions : Exists(recurring, r) /\ DueOn(recurring[r], day)}
    BY <2>0 DEF DueRows, Due, DueOn, Rows, SubDomains
  <2>4. IsFiniteSet(due)
    BY <2>3, FS_Subset DEF RecurringAssumption
  <2>5. Nightly(list, copies, day)
    <3>1. /\ list \in Seq(due)
          /\ \A m, n \in 1 .. Len(list) : list[m] = list[n] => m = n
          /\ \A x \in due : \E n \in 1 .. Len(list) : list[n] = x
      BY <2>0, <2>4, ListOfAll
    <3>2. list \in Seq(Subscriptions) /\ \A n \in 1 .. Len(list) : list[n] \in due
      BY <2>3, <3>1
    <3>3. \A x \in due : Has(x, copies[x]) /\ DueOn(recurring[x], day)
      BY <2>0, <2>3 DEF Has
    <3>4. day \in Nat /\ day <= today
      BY <2>0 DEF SubDomains
    <3>5. \A r \in Subscriptions : Exists(recurring, r) /\ DueOn(recurring[r], day) => r \in due
      BY <2>3
    <3> QED BY <3>1, <3>2, <3>3, <3>4, <3>5 DEF Nightly
  <2>6. ASSUME SubSeen(w) PROVE SubSeen(w)'
    <3>1. Nightly(list, copies, day)'
      BY <2>2, <2>5 DEF Nightly, Has, Exists, recurringVars
    <3>2. /\ DOMAIN job'[w] = {"op", "list", "copies", "day"} /\ job'[w].op = "night"
          /\ job'[w].list = list /\ job'[w].copies = copies /\ job'[w].day = day
      BY <2>1
    <3>3. SubJob(w)'
      BY <3>1, <3>2 DEF SubJob, RecurringOps, Doing
    <3>4. ASSUME NEW x \in Subscriptions PROVE Counted(x, Uncounted(w, x))'
      <4>1. ~Uncounted(w, x) /\ ~Uncounted(w, x)'
        BY <2>1, <3>2 DEF Uncounted, Doing, Idle
      <4> QED BY <2>2, <2>6, <4>1 DEF SubSeen, Counted, Exists, recurringVars
    <3> QED BY <2>2, <2>6, <3>3, <3>4 DEF SubSeen, SubRows, NothingDue, Exists, recurringVars
  <2> QED BY <2>2, <2>6, SubBy DEF SubDomains, recurringVars
<1>8. CASE NightEntry(w)
  <2>0. PICK list, copies, day, r, old, ended :
          /\ list = J.list /\ copies = J.copies /\ day = J.day /\ r = Head(list)
          /\ old = copies[r] /\ ended = Over(old, day)
    OBVIOUS
  <2>1. PICK new : new = IF ended THEN [old EXCEPT !.status = "INACTIVE"] ELSE OnceBilled(old, day)
    OBVIOUS
  <2>2. /\ J.op = "night" /\ list # << >> /\ recurring' = [recurring EXCEPT ![r] = new]
        /\ billed' = IF ended THEN billed ELSE [billed EXCEPT ![r] = @ + 1]
        /\ UNCHANGED <<today, tonight, tested, received>>
        /\ Continue(w, [J EXCEPT !.list = Tail(@)])
    BY <1>8, <2>0, <2>1 DEF NightEntry, Doing, SaveRecurring
  <2>3. "op" \in DOMAIN [J EXCEPT !.list = Tail(@)]
    BY DEF JobsShape
  <2>4. job'[w] = [J EXCEPT !.list = Tail(@)]
    BY <2>2, <2>3
  <2>5. SubDomains'
    BY <2>2 DEF SubDomains
  <2>6. ASSUME SubSeen(w) PROVE SubSeen(w)'
    <3>1. DOMAIN J = {"op", "list", "copies", "day"} /\ Nightly(list, copies, day)
      BY <2>0, <2>2, <2>6 DEF SubSeen, SubJob, Doing
    <3>2. /\ DOMAIN job'[w] = {"op", "list", "copies", "day"} /\ job'[w].op = "night"
          /\ job'[w].list = Tail(list) /\ job'[w].copies = copies /\ job'[w].day = day
      BY <2>0, <2>2, <2>4, <3>1
    <3>3. /\ Len(list) \in Nat \ {0} /\ r = list[1] /\ 1 \in 1 .. Len(list)
          /\ Tail(list) \in Seq(Subscriptions) /\ Len(Tail(list)) = Len(list) - 1
          /\ \A n \in 1 .. Len(list) - 1 : Tail(list)[n] = list[n + 1]
      BY <2>0, <2>2, <3>1 DEF Nightly
    <3>4. Has(r, old) /\ DueOn(recurring[r], day) /\ day \in Nat /\ day <= today
      BY <2>0, <3>1, <3>3 DEF Nightly
    <3>5. r \in Subscriptions /\ Exists(recurring, r) /\ recurring[r] = old /\ old \in RecurringInvoice
      BY <2>6, <3>4 DEF Has, SubSeen, SubRows
    <3>6. /\ new \in RecurringInvoice /\ ~DueOn(new, day) /\ new # Absent
          /\ new.generated = IF ended THEN old.generated ELSE old.generated + 1
      <4>1. CASE ended
        BY <2>1, <3>5, <4>1, RowHere DEF RecurringInvoice, DueOn
      <4>2. CASE ~ended
        BY <2>1, <3>4, <3>5, <4>2, BilledWell, RowHere
      <4> QED BY <4>1, <4>2
    <3>7. recurring'[r] = new /\ \A x \in Subscriptions \ {r} : recurring'[x] = recurring[x]
      BY <2>2, <3>5 DEF SubDomains
    <3>8. ~tonight
      BY <2>6, <3>4, <3>5 DEF SubSeen, NothingDue, DueOn, RecurringInvoice, SubDomains
    <3>9. Nightly(Tail(list), copies, day)'
      <4>1. ASSUME NEW n \in 1 .. Len(list) - 1
            PROVE  Has(list[n + 1], copies[list[n + 1]])' /\ DueOn(recurring'[list[n + 1]], day)
        <5>1. n + 1 \in 1 .. Len(list) /\ n + 1 # 1
          BY <3>3
        <5>2. list[n + 1] # r
          BY <3>1, <3>3, <5>1 DEF Nightly
        <5>3. Has(list[n + 1], copies[list[n + 1]]) /\ DueOn(recurring[list[n + 1]], day)
          BY <3>1, <5>1 DEF Nightly
        <5> QED BY <3>7, <5>2, <5>3 DEF Has, Exists
      <4>2. ASSUME NEW x \in Subscriptions, Exists(recurring', x), DueOn(recurring'[x], day)
            PROVE  \E n \in 1 .. Len(list) - 1 : list[n + 1] = x
        <5>1. x # r /\ Exists(recurring, x) /\ DueOn(recurring[x], day)
          BY <3>6, <3>7, <4>2 DEF Exists
        <5>2. PICK n \in 1 .. Len(list) : list[n] = x
          BY <3>1, <5>1 DEF Nightly
        <5>3. n - 1 \in 1 .. Len(list) - 1 /\ (n - 1) + 1 = n
          BY <3>3, <5>1, <5>2
        <5> QED BY <5>2, <5>3
      <4>3. ASSUME NEW m \in 1 .. Len(list) - 1, NEW n \in 1 .. Len(list) - 1, list[m + 1] = list[n + 1]
            PROVE  m = n
        <5>1. m + 1 \in 1 .. Len(list) /\ n + 1 \in 1 .. Len(list)
          BY <3>3
        <5>2. m + 1 = n + 1
          BY <3>1, <4>3, <5>1 DEF Nightly
        <5> QED BY <3>3, <5>2
      <4>4. today' = today
        BY <2>2
      <4> HIDE DEF J
      <4>5. PICK rest : rest = Tail(list)
        OBVIOUS
      <4>6. Nightly(rest, copies, day)'
        BY <3>3, <3>4, <4>1, <4>2, <4>3, <4>4, <4>5 DEF Nightly
      <4> QED BY <4>5, <4>6
    <3>10. SubJob(w)'
      BY <3>2, <3>9 DEF SubJob, RecurringOps, Doing
    <3>11. ASSUME NEW x \in Subscriptions PROVE Counted(x, Uncounted(w, x))'
      <4>1. ~Uncounted(w, x) /\ ~Uncounted(w, x)'
        BY <2>2, <3>2 DEF Uncounted, Doing
      <4>2. Counted(x, FALSE)
        BY <2>6, <4>1 DEF SubSeen, Counted
      <4>3. CASE x # r
        <5>1. recurring'[x] = recurring[x] /\ billed'[x] = billed[x]
          BY <2>2, <3>7, <4>3 DEF SubDomains
        <5> QED BY <2>2, <4>1, <4>2, <5>1 DEF Counted, Exists
      <4>4. CASE x = r
        <5>1. billed'[r] = IF ended THEN billed[r] ELSE billed[r] + 1
          BY <2>2, <3>5 DEF SubDomains
        <5>2. old.generated \in Nat
          BY <3>5 DEF RecurringInvoice
        <5>3. /\ Exists(recurring, r) /\ Exists(recurring', r) /\ tested'[r] = tested[r] /\ received'[r] = received[r]
              /\ recurring'[r].generated = IF ended THEN recurring[r].generated ELSE recurring[r].generated + 1
          BY <2>2, <3>5, <3>6, <3>7 DEF Exists
        <5>4. Counted(r, FALSE)'
          BY <3>5, <4>2, <4>4, <5>1, <5>2, <5>3 DEF Counted
        <5> QED BY <4>1, <4>4, <5>4 DEF Counted
      <4> QED BY <4>3, <4>4
    <3>12. SubRows'
      BY <2>6, <3>6, <3>7 DEF SubSeen, SubRows, Exists
    <3>13. ~tonight'
      BY <2>2, <3>8
    <3> QED BY <3>10, <3>11, <3>12, <3>13 DEF SubSeen
  <2> QED BY <2>5, <2>6, SubBy
<1>9. CASE NightFailure(w)
  <2>1. "failure" \in marred' /\ UNCHANGED recurringVars
    BY <1>9 DEF NightFailure
  <2> QED BY <2>1, SubBy DEF SubDomains, recurringVars, Unmarred
<1>10. CASE EndNight(w)
  <2>1. /\ J.op = "night" /\ J.list = << >> /\ tonight' = (J.day = today) /\ job'[w] = Idle
        /\ UNCHANGED <<recurring, today, billed, tested, received>>
    BY <1>10 DEF EndNight, Doing
  <2>2. ASSUME SubSeen(w) PROVE SubSeen(w)'
    <3>1. ASSUME NEW x \in Subscriptions PROVE Counted(x, Uncounted(w, x))'
      <4>1. ~Uncounted(w, x) /\ ~Uncounted(w, x)'
        BY <2>1 DEF Uncounted, Doing, Idle
      <4> QED BY <2>1, <2>2, <4>1 DEF SubSeen, Counted, Exists
    <3>2. Nightly(J.list, J.copies, J.day)
      BY <2>1, <2>2 DEF SubSeen, SubJob, Doing
    <3>3. tonight' => NothingDue
      <4>1. 1 .. Len(J.list) = {}
        BY <2>1
      <4> QED BY <2>1, <3>2, <4>1 DEF Nightly, NothingDue
    <3>4. SubJob(w)'
      BY <2>1 DEF SubJob, RecurringOps, Doing, Idle
    <3> QED BY <2>1, <2>2, <3>1, <3>3, <3>4 DEF SubSeen, SubRows, NothingDue, Exists
  <2> QED BY <2>1, <2>2, SubBy DEF SubDomains
<1> QED
  BY <1>1, <1>2, <1>3, <1>4, <1>5, <1>6, <1>7, <1>8, <1>9, <1>10 DEF RecurringNext, SubscribeByLink

LEMMA SubStep ==
  ASSUME JobsShape, RecurringAssumption, SubInv, [Next]_vars
  PROVE  SubInv'
<1>1. CASE UNCHANGED vars
  BY <1>1 DEF vars, jobVars, recurringVars, SubInv, SubDomains, Unmarred, SubRows, Counted, Uncounted, Doing,
              NothingDue, SubJob, Nightly, Has, Exists
<1>2. CASE NewDay
  <2>1. UNCHANGED <<job, marred, recurring, billed, tested, received>> /\ today' = today + 1 /\ tonight' = FALSE
    BY <1>2 DEF NewDay, jobVars
  <2>2. SubDomains'
    BY <2>1 DEF SubInv, SubDomains
  <2>3. ASSUME Unmarred' PROVE SubRows' /\ \A r \in Subscriptions : Counted(r, \E w \in Workers : Uncounted(w, r))'
    BY <2>1, <2>3 DEF SubInv, Unmarred, SubRows, Exists, Counted, Uncounted, Doing
  <2>4. ASSUME Unmarred', NEW w \in Workers PROVE SubJob(w)'
    <3>1. SubJob(w)
      BY <2>1, <2>4 DEF SubInv, Unmarred
    <3>2. ASSUME NEW list, NEW copies, NEW day, Nightly(list, copies, day) PROVE Nightly(list, copies, day)'
      <4>1. day <= today'
        BY <2>1, <3>2 DEF Nightly, SubInv, SubDomains
      <4> QED BY <2>1, <3>2, <4>1 DEF Nightly, Has, Exists
    <3>3. job'[w] = job[w]
      BY <2>1
    <3>4. PICK j : j = job[w]
      OBVIOUS
    <3>5. Nightly(j.list, j.copies, j.day) => Nightly(j.list, j.copies, j.day)'
      BY <3>2
    <3> QED BY <2>1, <3>1, <3>3, <3>4, <3>5 DEF SubJob, Doing, Has, Exists
  <2> QED BY <2>1, <2>2, <2>3, <2>4 DEF SubInv
<1>3. ASSUME NEW w \in Workers, Acts(w), UNCHANGED recurringVars,
             Goes(w, StockOps) \/ Goes(w, SalesOps) \/ "failure" \in marred'
      PROVE  SubInv'
  <2>1. CASE "failure" \in marred'
    BY <1>3, <2>1, SubBy DEF SubInv, SubDomains, recurringVars, Unmarred
  <2>2. CASE Goes(w, StockOps) \/ Goes(w, SalesOps)
    <3>1. job[w].op # "test" /\ job'[w].op \notin NightOps
      BY <2>2 DEF Goes, StockOps, SalesOps, NightOps, RecurringOps, Edits, OrderOps, AnswerOps, NoteOps, QuoteOps,
                  QuoteTransitions, LinkOps
    <3> QED BY <1>3, <3>1, SubUntouched
  <2> QED BY <1>3, <2>1, <2>2
<1> QED BY <1>1, <1>2, <1>3, ClientStep, RecurringKeepsSubs DEF Goes

LEMMA SubInit == ASSUME RecurringAssumption, Init PROVE SubInv
BY DEF Init, JobsInit, RecurringInit, SubInv, SubDomains, SubRows, Counted, Uncounted, Doing, Idle, NothingDue,
       SubJob, RecurringOps, Exists

LEMMA SubAlways == ASSUME RecurringAssumption PROVE Spec => []SubInv
<1>1. Init => JobsShape /\ SubInv
  BY ShapeInit, SubInit
<1>2. JobsShape /\ SubInv /\ [Next]_vars => (JobsShape /\ SubInv)'
  BY ShapeStays, SubStep
<1> QED
  BY <1>1, <1>2, PTL DEF Spec

(* What a subscription has generated is counted in its row, for any number *)
(* of subscriptions and of handlers, as long as these neither overlap nor  *)
(* fail: a night, a test and a payment each count once.                    *)
THEOREM CounterAlwaysExplained ==
  ASSUME RecurringAssumption PROVE Spec => []CounterExplained
<1>1. SubInv => CounterExplained
  <2> SUFFICES ASSUME SubInv, Settled, NEW r \in Rows(recurring)
               PROVE  recurring[r].generated = billed[r] + tested[r] + received[r]
    BY DEF CounterExplained
  <2>1. ~\E w \in Workers : Uncounted(w, r)
    BY DEF Settled, AllFree, Free, Uncounted, Doing, Idle
  <2>2. r \in Subscriptions /\ Exists(recurring, r) /\ recurring[r] \in RecurringInvoice
    BY DEF SubInv, SubDomains, SubRows, Rows, Unmarred, Settled
  <2>3. Counted(r, FALSE)
    BY <2>1, <2>2 DEF SubInv, Unmarred, Settled, Counted
  <2>4. recurring[r].generated \in Nat
    BY <2>2 DEF RecurringInvoice
  <2> QED BY <2>2, <2>3, <2>4 DEF Counted
<1> QED
  BY <1>1, SubAlways, PTL

(* A night that has worked through its list leaves nothing due, whatever   *)
(* was paused, edited or removed by day and however late a row was.        *)
THEOREM NightLeavesNothing ==
  ASSUME RecurringAssumption PROVE Spec => []NothingLeftDue
<1>1. SubInv => NothingLeftDue
  BY DEF NothingLeftDue, SubInv, SubDomains, Unmarred, Settled, NothingDue, DueRows, Due, DueOn, Rows
<1> QED
  BY <1>1, SubAlways, PTL

-----------------------------------------------------------------------------
(* Sales: as long as handlers run one by one, what a handler has read of   *)
(* an order, a quote, a note, a link or the shelf is still what is there,  *)
(* and a link leads to a row that exists.                                  *)
Here(table, x, row) == x \in DOMAIN table /\ Exists(table, x) /\ table[x] = row

OrderRows == \A o \in Orders : Exists(orders, o) => orders[o] \in SalesOrder
QuoteRows == \A q \in Quotes : Exists(quotes, q) => quotes[q] \in Quote
NoteRows == \A n \in Notes : Exists(notes, n) => notes[n] \in DeliveryNote
LinkRows ==
  \A l \in Links : Exists(links, l) =>
    \/ links[l] \in PortalToken /\ Exists(orders, links[l].subject)
    \/ links[l] \in QuotePortalToken /\ Exists(quotes, links[l].subject)
InvoiceRows == \A i \in Invoices : Exists(invoices, i) => invoices[i] \in Invoice
SaleRows == OrderRows /\ QuoteRows /\ NoteRows /\ LinkRows /\ InvoiceRows

SaleJob(w) ==
  LET j == job[w] IN
  /\ j.op \in OrderOps =>
       /\ {"order", "seen", "lines"} \subseteq DOMAIN j
       /\ Here(orders, j.order, j.seen) /\ j.lines \in [Products -> Nat]
       /\ j.op = "update" => j.seen.status = "CONFIRMED"
       /\ j.op \in {"markInvoiced", "convertToInvoice"} => j.seen.status = "DELIVERED"
       /\ j.op = "convertToInvoice" => j.seen.invoice = None
  /\ j.op \in AnswerOps =>
       /\ Here(orders, j.order, j.seen) /\ j.seen.status = "CONFIRMED"
       /\ j.link \in Links /\ Exists(links, j.link) /\ links[j.link].subject = j.order
  /\ j.op \in NoteOps => {"note", "seen"} \subseteq DOMAIN j /\ Here(notes, j.note, j.seen)
  /\ j.op \in QuoteOps \cup {"mailQuote"} =>
       Here(quotes, j.quote, j.seen) /\ (j.op = "updateQuote" => j.lines \in [Products -> Nat])
  /\ j.op \in LinkOps =>
       /\ DOMAIN j = {"op", "link", "quote", "seen", "saved", "lines"} /\ j.saved \in BOOLEAN
       /\ j.quote \in Quotes /\ Exists(quotes, j.quote) /\ j.link \in Links /\ Exists(links, j.link)
       /\ ~j.saved => j.seen = quotes[j.quote]
       /\ j.saved /\ j.op = "acceptByLink" => quotes[j.quote].status = "ACCEPTED"
  /\ j.op \in NeedsShelf /\ "shelf" \in DOMAIN j => j.shelf = products

SaleDomains ==
  /\ DOMAIN orders = Orders /\ DOMAIN quotes = Quotes /\ DOMAIN notes = Notes
  /\ DOMAIN links = Links /\ DOMAIN invoices = Invoices /\ DOMAIN answers = Links
SalesInv == SaleDomains /\ (OneByOne => SaleRows /\ \A w \in Workers : SaleJob(w))

LEMMA OpsApart ==
  ASSUME NEW op
  PROVE  /\ op \in StockOps \cup NightOps \cup {"idle"} => op \notin SalesOps \cup NeedsShelf
         /\ op \in StockOps \cup SalesOps \cup {"idle"} => op \notin NightOps
         /\ op \in SalesOps \cup NightOps \cup {"idle"} => op \notin StockOps
         /\ op \notin SalesOps => op \notin NeedsShelf
BY DEF StockOps, SalesOps, NightOps, RecurringOps, Edits, OrderOps, AnswerOps, NoteOps, QuoteOps,
       QuoteTransitions, LinkOps, NeedsShelf

LEMMA SaleBy ==
  ASSUME JobsShape, SalesInv, NEW w \in Workers, Acts(w), SaleDomains',
         OneByOne' /\ OneByOne /\ SaleRows /\ SaleJob(w) => SaleRows' /\ SaleJob(w)'
  PROVE  SalesInv'
<1> SUFFICES ASSUME OneByOne'
             PROVE  SaleRows' /\ \A v \in Workers : SaleJob(v)'
  BY DEF SalesInv
<1>1. OneByOne /\ \A v \in Workers \ {w} : job'[v] = Idle
  BY DEF Acts, OneByOne, Free
<1>2. SaleRows' /\ SaleJob(w)'
  BY <1>1 DEF SalesInv
<1>3. ASSUME NEW v \in Workers, v # w PROVE SaleJob(v)'
  <2>1. job'[v].op \notin SalesOps
    BY <1>1, <1>3, OpsApart DEF Idle
  <2> QED BY <2>1, OpsApart DEF SaleJob, SalesOps
<1> QED BY <1>2, <1>3

LEMMA SaleUntouched ==
  ASSUME JobsShape, SalesInv, NEW w \in Workers, Acts(w), UNCHANGED salesVars, job'[w].op \notin SalesOps
  PROVE  SalesInv'
<1>1. SaleJob(w)'
  BY OpsApart DEF SaleJob, SalesOps
<1>2. SaleRows => SaleRows'
  BY DEF SaleRows, OrderRows, QuoteRows, NoteRows, LinkRows, InvoiceRows, Exists, salesVars
<1>3. SaleDomains'
  BY DEF SalesInv, SaleDomains, salesVars
<1> QED BY <1>1, <1>2, <1>3, SaleBy

(* The last statement of a handler. *)
LEMMA SaleFinished ==
  ASSUME JobsShape, SalesInv, NEW w \in Workers, Acts(w), job'[w] = Idle, SaleDomains',
         OneByOne /\ SaleRows /\ SaleJob(w) => SaleRows'
  PROVE  SalesInv'
<1>1. SaleJob(w)'
  <2>1. job'[w].op \notin SalesOps
    BY OpsApart DEF Idle
  <2> QED BY <2>1, OpsApart DEF SaleJob, SalesOps
<1> QED BY <1>1, SaleBy

LEMMA OrderSaved ==
  ASSUME SaleDomains, OrderRows, LinkRows, NEW o, NEW row, row \in SalesOrder,
         orders' = [orders EXCEPT ![o] = row], UNCHANGED <<quotes, links>>
  PROVE  OrderRows' /\ LinkRows'
<1>1. row # Absent
  BY DEF SalesOrder, Absent
<1>2. \A x \in Orders : orders'[x] = IF x = o THEN row ELSE orders[x]
  BY DEF SaleDomains
<1>3. OrderRows'
  BY <1>2 DEF OrderRows, Exists
<1>4. \A x \in Orders : Exists(orders, x) => Exists(orders', x)
  BY <1>1, <1>2 DEF Exists
<1>5. \A l \in Links : links[l] \in PortalToken => links[l].subject \in Orders
  BY DEF PortalToken
<1> QED BY <1>3, <1>4, <1>5 DEF LinkRows, Exists

LEMMA QuoteSaved ==
  ASSUME SaleDomains, QuoteRows, LinkRows, NEW q, NEW row, row \in Quote,
         quotes' = [quotes EXCEPT ![q] = row], UNCHANGED <<orders, links>>
  PROVE  QuoteRows' /\ LinkRows'
<1>1. row # Absent
  BY DEF Quote, Absent
<1>2. \A x \in Quotes : quotes'[x] = IF x = q THEN row ELSE quotes[x]
  BY DEF SaleDomains
<1>3. QuoteRows'
  BY <1>2 DEF QuoteRows, Exists
<1>4. \A x \in Quotes : Exists(quotes, x) => Exists(quotes', x)
  BY <1>1, <1>2 DEF Exists
<1>5. \A l \in Links : links[l] \in QuotePortalToken => links[l].subject \in Quotes
  BY DEF QuotePortalToken
<1> QED BY <1>3, <1>4, <1>5 DEF LinkRows, Exists

LEMMA PlusWell ==
  ASSUME NEW f \in [Products -> Nat], NEW g \in [Products -> Nat]
  PROVE  Plus(f, g) \in [Products -> Nat]
BY DEF Plus

(* An order that is being saved is the one that was read. *)
LEMMA OrderRead ==
  ASSUME SaleRows, NEW w, SaleJob(w), job[w].op \in OrderOps \cup AnswerOps,
         NEW o, NEW row, o = job[w].order, row = job[w].seen
  PROVE  /\ o \in Orders \/ DOMAIN orders # Orders
         /\ Exists(orders, o) /\ orders[o] = row /\ (DOMAIN orders = Orders => row \in SalesOrder)
BY DEF SaleJob, Here, SaleRows, OrderRows

LEMMA OrdersKeepSales ==
  ASSUME JobsShape, SalesAssumption, SalesInv, NEW w \in Workers, OrderNext(w), Goes(w, SalesOps)
  PROVE  SalesInv'
<1> SUFFICES ASSUME SaleDomains PROVE SalesInv'
  BY DEF SalesInv
<1> DEFINE J == job[w]
<1>0. Acts(w) /\ "op" \in DOMAIN J
  BY DEF Goes, JobsShape
<1>1. CASE CreateOrder(w)
  <2>0. PICK o : o = NewOrder
    OBVIOUS
  <2>1. PICK lines \in Baskets : orders' = [orders EXCEPT ![o] =
                    [status |-> "CONFIRMED", lines |-> lines, invoice |-> None, quote |-> None]]
    BY <1>1, <2>0 DEF CreateOrder
  <2>2. J = Idle /\ job'[w] = Idle /\ UNCHANGED <<quotes, notes, links, invoices, answers>>
    BY <1>1, AtOnceActs DEF CreateOrder
  <2>3. [status |-> "CONFIRMED", lines |-> lines, invoice |-> None, quote |-> None] \in SalesOrder
    BY DEF SalesAssumption, SalesOrder
  <2>4. SaleRows => SaleRows'
    BY <2>1, <2>2, <2>3, OrderSaved DEF SaleRows, QuoteRows, NoteRows, InvoiceRows, Exists
  <2>5. SaleDomains'
    BY <2>1, <2>2 DEF SaleDomains
  <2> QED BY <1>0, <2>2, <2>4, <2>5, SaleFinished
<1>2. CASE FindOrder(w)
  <2>1. PICK o \in Rows(orders), op \in OrderOps, lines \in Baskets :
          /\ MayStart(op, orders[o])
          /\ Begin(w, [op |-> op, order |-> o, seen |-> orders[o], lines |-> lines])
    BY <1>2 DEF FindOrder
  <2>2. PICK row : row = orders[o]
    OBVIOUS
  <2>3. J = Idle /\ job'[w] = [op |-> op, order |-> o, seen |-> row, lines |-> lines]
    BY <2>1, <2>2, BeginActs
  <2>4. UNCHANGED <<stockVars, salesVars>> /\ Here(orders, o, row)
    BY <1>2, <2>2 DEF FindOrder, Rows, Here
  <2>5. UNCHANGED salesVars /\ SaleDomains'
    BY <2>4 DEF salesVars, SaleDomains
  <2>6. ASSUME SaleRows PROVE SaleRows' /\ SaleJob(w)'
    <3>1. SaleRows'
      BY <2>5, <2>6 DEF SaleRows, OrderRows, QuoteRows, NoteRows, LinkRows, InvoiceRows, Exists, salesVars
    <3>2. row \in SalesOrder /\ lines \in [Products -> Nat]
      BY <2>4, <2>6 DEF Here, SaleRows, OrderRows, SaleDomains, SalesAssumption
    <3>3. row.status \in {"CONFIRMED", "IN_PROGRESS", "DELIVERED", "INVOICED", "CANCELLED"}
      BY <3>2 DEF SalesOrder
    <3>4. op = "update" => row.status = "CONFIRMED"
      BY <2>1, <2>2 DEF MayStart
    <3>5. op = "markInvoiced" => row.status = "DELIVERED"
      BY <2>1, <2>2, <3>3 DEF MayStart, OrderTRANSITIONS
    <3>6. op = "convertToInvoice" => row.status = "DELIVERED" /\ row.invoice = None
      BY <2>1, <2>2 DEF MayStart, Convertible
    <3>7. Here(orders', o, row)
      BY <2>4, <2>5 DEF Here, Exists, salesVars
    <3>8. /\ op \notin AnswerOps /\ op \notin NoteOps /\ op \notin LinkOps /\ op \notin QuoteOps \cup {"mailQuote"}
          /\ DOMAIN job'[w] = {"op", "order", "seen", "lines"}
      BY <2>3 DEF OrderOps, AnswerOps, NoteOps, LinkOps, QuoteOps, QuoteTransitions
    <3> QED BY <2>3, <3>1, <3>2, <3>4, <3>5, <3>6, <3>7, <3>8 DEF SaleJob
  <2> QED BY <1>0, <2>5, <2>6, SaleBy
<1>3. CASE LoadProducts(w)
  <2> DEFINE K == [f \in DOMAIN J \cup {"shelf"} |-> IF f = "shelf" THEN products ELSE J[f]]
  <2>1. J.op \in NeedsShelf /\ Continue(w, K) /\ UNCHANGED <<stockVars, salesVars>> /\ "shelf" \notin DOMAIN J
    BY <1>3 DEF LoadProducts
  <2>2. "op" \in DOMAIN K /\ K.op = J.op
    BY <1>0
  <2>3. job'[w] = K
    BY <2>1, <2>2, ContinueActs DEF NeedsShelf
  <2>4. UNCHANGED salesVars /\ SaleDomains'
    BY <2>1 DEF salesVars, SaleDomains
  <2>5. ASSUME SaleRows, SaleJob(w) PROVE SaleRows' /\ SaleJob(w)'
    <3>1. SaleRows'
      BY <2>4, <2>5 DEF SaleRows, OrderRows, QuoteRows, NoteRows, LinkRows, InvoiceRows, Exists, salesVars
    <3>2. \A f \in DOMAIN J \ {"shelf"} : job'[w][f] = J[f]
      BY <2>3
    <3>3. job'[w].op = J.op /\ job'[w].shelf = products /\ products' = products
      BY <2>1, <2>2, <2>3 DEF stockVars
    <3>4. CASE J.op \in NoteOps
      <4>1. PICK n, row : n = J.note /\ row = J.seen
        OBVIOUS
      <4>2. job'[w].note = n /\ job'[w].seen = row /\ {"note", "seen"} \subseteq DOMAIN job'[w] /\ Here(notes', n, row)
        BY <2>3, <2>4, <2>5, <3>2, <3>4, <4>1 DEF SaleJob, Here, Exists, salesVars
      <4>3. /\ J.op \notin OrderOps /\ J.op \notin AnswerOps /\ J.op \notin LinkOps
            /\ J.op \notin QuoteOps \cup {"mailQuote"}
        BY <3>4 DEF OrderOps, AnswerOps, NoteOps, LinkOps, QuoteOps, QuoteTransitions
      <4> QED BY <3>1, <3>3, <4>2, <4>3 DEF SaleJob
    <3>5. CASE J.op \in OrderOps
      <4>1. PICK o, row, lines : o = J.order /\ row = J.seen /\ lines = J.lines
        OBVIOUS
      <4>2. {"order", "seen", "lines"} \subseteq DOMAIN J
        BY <2>5, <3>5 DEF SaleJob
      <4>3. /\ job'[w].order = o /\ job'[w].seen = row /\ job'[w].lines = lines
            /\ {"order", "seen", "lines"} \subseteq DOMAIN job'[w]
        BY <2>3, <3>2, <4>1, <4>2
      <4>4. Here(orders', o, row)
        BY <2>4, <2>5, <3>5, <4>1 DEF SaleJob, Here, Exists, salesVars
      <4>5. /\ J.op \notin NoteOps /\ J.op \notin AnswerOps /\ J.op \notin LinkOps
            /\ J.op \notin QuoteOps \cup {"mailQuote"}
        BY <3>5 DEF OrderOps, AnswerOps, NoteOps, LinkOps, QuoteOps, QuoteTransitions
      <4> QED BY <2>5, <3>1, <3>3, <3>5, <4>1, <4>3, <4>4, <4>5 DEF SaleJob
    <3> QED BY <2>1, <3>4, <3>5 DEF NeedsShelf, NoteOps, OrderOps
  <2> QED BY <1>0, <2>4, <2>5, SaleBy
<1>4. CASE UpdateOrder(w) \/ MarkDelivered(w) \/ TransitionOrder(w) \/ RefuseOrder(w)
  <2>0. PICK o, row, status, lines :
          /\ o = J.order /\ row = J.seen
          /\ status = CASE J.op = "update" -> row.status [] J.op = "markDelivered" -> "DELIVERED"
                        [] J.op = "markInvoiced" -> "INVOICED" [] OTHER -> "CANCELLED"
          /\ lines = CASE J.op = "update" -> Plus(row.lines, J.lines) [] J.op = "refuse" -> orders[o].lines
                       [] OTHER -> row.lines
    OBVIOUS
  <2>1. /\ J.op \in {"update", "markDelivered", "markInvoiced", "cancel", "refuse"}
        /\ Finish(w) /\ UNCHANGED <<quotes, notes, links, invoices>> /\ DOMAIN answers' = DOMAIN answers
    BY <1>4 DEF UpdateOrder, MarkDelivered, TransitionOrder, RefuseOrder, AnswerOrder, Doing
  <2>2. PICK new : orders' = [orders EXCEPT ![o] = new] /\
          (J.op \in OrderOps \cup AnswerOps /\ row \in SalesOrder /\ orders[o] = row => new = [row EXCEPT !.status = status, !.lines = lines])
    <3>1. CASE UpdateOrder(w)
      BY <2>0, <3>1 DEF UpdateOrder, Doing, SalesOrder
    <3>2. CASE MarkDelivered(w)
      BY <2>0, <3>2 DEF MarkDelivered, Doing, SalesOrder
    <3>3. CASE TransitionOrder(w)
      BY <2>0, <3>3 DEF TransitionOrder, Doing, SalesOrder
    <3>4. CASE RefuseOrder(w)
      BY <2>0, <3>4 DEF RefuseOrder, AnswerOrder, Doing, SalesOrder
    <3> QED BY <1>4, <3>1, <3>2, <3>3, <3>4
  <2>3. job'[w] = Idle /\ SaleDomains'
    BY <2>1, <2>2, FinishActs DEF SaleDomains
  <2>4. ASSUME SaleRows, SaleJob(w) PROVE SaleRows'
    <3>1. J.op \in OrderOps \cup AnswerOps
      BY <2>1 DEF OrderOps, AnswerOps
    <3>2. o \in Orders /\ orders[o] = row /\ row \in SalesOrder
      BY <2>0, <2>4, <3>1, OrderRead DEF SaleDomains
    <3>3. new = [row EXCEPT !.status = status, !.lines = lines]
      BY <2>2, <3>1, <3>2
    <3>4. lines \in [Products -> Nat]
      <4>1. row.lines \in [Products -> Nat]
        BY <3>2 DEF SalesOrder
      <4>2. J.op = "update" => J.lines \in [Products -> Nat]
        BY <2>4 DEF SaleJob, OrderOps
      <4>3. CASE J.op = "update"
        BY <2>0, <4>1, <4>2, <4>3, PlusWell
      <4>4. CASE J.op # "update"
        BY <2>0, <3>2, <4>1, <4>4
      <4> QED BY <4>3, <4>4
    <3>5. status \in {"CONFIRMED", "IN_PROGRESS", "DELIVERED", "INVOICED", "CANCELLED"}
      BY <2>0, <2>1, <3>2 DEF SalesOrder
    <3>6. new \in SalesOrder
      BY <3>2, <3>3, <3>4, <3>5 DEF SalesOrder
    <3> QED BY <2>1, <2>2, <2>4, <3>6, OrderSaved DEF SaleRows, QuoteRows, NoteRows, InvoiceRows, Exists
  <2> QED BY <1>0, <2>3, <2>4, SaleFinished
<1>5. CASE StartProgress(w) \/ ConfirmOrder(w)
  <2>0. PICK o, row, n : o = J.order /\ row = J.seen /\ n = Fresh(notes)
    OBVIOUS
  <2>1. /\ J.op \in {"startProgress", "confirm"} /\ CanInsert(notes) /\ notes' = [notes EXCEPT ![n] = Pending(o)]
        /\ Finish(w) /\ UNCHANGED <<quotes, links, invoices>> /\ DOMAIN answers' = DOMAIN answers
    BY <1>5, <2>0 DEF StartProgress, ConfirmOrder, AnswerOrder, Doing
  <2>2. PICK new : orders' = [orders EXCEPT ![o] = new] /\
          (row \in SalesOrder /\ orders[o] = row => new = [row EXCEPT !.status = "IN_PROGRESS"])
    <3>1. CASE StartProgress(w)
      BY <2>0, <3>1 DEF StartProgress
    <3>2. CASE ConfirmOrder(w)
      BY <2>0, <3>2 DEF ConfirmOrder, AnswerOrder, SalesOrder
    <3> QED BY <1>5, <3>1, <3>2
  <2>3. job'[w] = Idle /\ SaleDomains' /\ n \in Notes
    BY <2>0, <2>1, <2>2, FinishActs, FreshRow DEF SaleDomains
  <2>4. ASSUME SaleRows, SaleJob(w) PROVE SaleRows'
    <3>1. J.op \in OrderOps \cup AnswerOps
      BY <2>1 DEF OrderOps, AnswerOps
    <3>2. o \in Orders /\ orders[o] = row /\ row \in SalesOrder
      BY <2>0, <2>4, <3>1, OrderRead DEF SaleDomains
    <3>3. new \in SalesOrder
      BY <2>2, <3>2 DEF SalesOrder
    <3>4. OrderRows' /\ LinkRows'
      BY <2>1, <2>2, <2>4, <3>3, OrderSaved DEF SaleRows
    <3>5. Pending(o) \in DeliveryNote
      BY <3>2 DEF Pending, DeliveryNote
    <3>6. NoteRows'
      BY <2>1, <2>3, <2>4, <3>5 DEF SaleRows, NoteRows, Exists, SaleDomains
    <3> QED BY <2>1, <2>4, <3>4, <3>6 DEF SaleRows, QuoteRows, InvoiceRows, Exists
  <2> QED BY <1>0, <2>3, <2>4, SaleFinished
<1>6. CASE DeleteOrder(w)
  <2>0. PICK o : o = J.order
    OBVIOUS
  <2>1. /\ J.op = "delete" /\ Unreferenced(o) /\ orders' = [orders EXCEPT ![o] = Absent]
        /\ invoices' = [i \in Invoices |->
                          IF Exists(invoices, i) /\ invoices[i].order = o /\ J.seen.status = "INVOICED"
                          THEN [invoices[i] EXCEPT !.order = None] ELSE invoices[i]]
        /\ Finish(w) /\ UNCHANGED <<quotes, notes, links, answers>>
    BY <1>6, <2>0 DEF DeleteOrder, Doing
  <2>2. job'[w] = Idle /\ SaleDomains'
    BY <2>1, FinishActs DEF SaleDomains
  <2>3. ASSUME SaleRows PROVE SaleRows'
    <3>1. OrderRows'
      BY <2>1, <2>3 DEF SaleRows, OrderRows, Exists, SaleDomains
    <3>2. LinkRows'
      <4>1. ASSUME NEW l \in Links, Exists(links, l) PROVE links[l].subject # o
        BY <2>1, <4>1 DEF Unreferenced, Rows, SaleDomains
      <4>2. \A x \in Orders \ {o} : orders'[x] = orders[x]
        BY <2>1 DEF SaleDomains
      <4> QED BY <2>1, <2>3, <4>1, <4>2 DEF SaleRows, LinkRows, Exists, PortalToken
    <3>3. InvoiceRows'
      BY <2>1, <2>3 DEF SaleRows, InvoiceRows, Exists, Invoice
    <3> QED BY <2>1, <2>3, <3>1, <3>2, <3>3 DEF SaleRows, QuoteRows, NoteRows, Exists
  <2> QED BY <1>0, <2>2, <2>3, SaleFinished
<1>7. CASE ConvertToInvoice(w)
  <2>0. PICK o, row, i : o = J.order /\ row = J.seen /\ i = Fresh(invoices)
    OBVIOUS
  <2>1. /\ J.op = "convertToInvoice" /\ CanInsert(invoices) /\ invoices' = [invoices EXCEPT ![i] = Draft(o, None)]
        /\ orders' = [orders EXCEPT ![o] = [row EXCEPT !.status = "INVOICED", !.invoice = i]]
        /\ Finish(w) /\ UNCHANGED <<quotes, notes, links, answers>>
    BY <1>7, <2>0 DEF ConvertToInvoice, Doing
  <2>2. job'[w] = Idle /\ SaleDomains' /\ i \in Invoices
    BY <2>0, <2>1, FinishActs, FreshRow DEF SaleDomains
  <2>3. ASSUME SaleRows, SaleJob(w) PROVE SaleRows'
    <3>1. o \in Orders /\ orders[o] = row /\ row \in SalesOrder
      BY <2>0, <2>1, <2>3, OrderRead DEF SaleDomains, OrderOps
    <3>2. [row EXCEPT !.status = "INVOICED", !.invoice = i] \in SalesOrder
      BY <2>2, <3>1 DEF SalesOrder
    <3>3. OrderRows' /\ LinkRows'
      BY <2>1, <2>3, <3>2, OrderSaved DEF SaleRows
    <3>4. Draft(o, None) \in Invoice
      BY <3>1 DEF Draft, Invoice
    <3>5. InvoiceRows'
      BY <2>1, <2>2, <2>3, <3>4 DEF SaleRows, InvoiceRows, Exists, SaleDomains
    <3> QED BY <2>1, <2>3, <3>3, <3>5 DEF SaleRows, QuoteRows, NoteRows, Exists
  <2> QED BY <1>0, <2>2, <2>3, SaleFinished
<1>8. CASE SendOrderLink(w)
  <2>0. PICK l : l = Fresh(links)
    OBVIOUS
  <2>1. CanInsert(links) /\ J = Idle /\ job'[w] = Idle /\ UNCHANGED <<orders, quotes, notes, invoices, answers>>
    BY <1>8, AtOnceActs DEF SendOrderLink
  <2>2. PICK o \in Rows(orders) :
          links' = [links EXCEPT ![l] = [status |-> "OPEN", kind |-> "order", subject |-> o]]
    BY <1>8, <2>0 DEF SendOrderLink
  <2>3. l \in Links /\ SaleDomains'
    BY <2>0, <2>1, <2>2, FreshRow DEF SaleDomains
  <2>4. o \in Orders /\ Exists(orders, o)
    BY DEF Rows, SaleDomains
  <2>5. ASSUME SaleRows PROVE SaleRows'
    <3>1. LinkRows'
      BY <2>1, <2>2, <2>3, <2>4, <2>5 DEF SaleRows, LinkRows, Exists, SaleDomains, PortalToken
    <3> QED BY <2>1, <2>5, <3>1 DEF SaleRows, OrderRows, QuoteRows, NoteRows, InvoiceRows, Exists
  <2> QED BY <1>0, <2>1, <2>3, <2>5, SaleFinished
<1>9. CASE OpenOrderLink(w)
  <2>1. PICK l \in Rows(links), op \in AnswerOps :
          /\ links[l].kind = "order" /\ Unspent(links[l], orders[links[l].subject])
          /\ Begin(w, [op |-> op, link |-> l, order |-> links[l].subject,
                       seen |-> orders[links[l].subject], spent |-> FALSE])
    BY <1>9 DEF OpenOrderLink, AnswerOps
  <2>2. PICK o, row : o = links[l].subject /\ row = orders[o]
    OBVIOUS
  <2>3. J = Idle /\ job'[w] = [op |-> op, link |-> l, order |-> o, seen |-> row, spent |-> FALSE]
    BY <2>1, <2>2, BeginActs
  <2>4. UNCHANGED salesVars /\ SaleDomains' /\ l \in Links /\ Exists(links, l)
    BY <1>9 DEF OpenOrderLink, Rows, salesVars, SaleDomains
  <2>5. ASSUME SaleRows PROVE SaleRows' /\ SaleJob(w)'
    <3>1. SaleRows'
      BY <2>4, <2>5 DEF SaleRows, OrderRows, QuoteRows, NoteRows, LinkRows, InvoiceRows, Exists, salesVars
    <3>2. o \in Orders /\ Exists(orders, o) /\ row.status = "CONFIRMED"
      BY <2>1, <2>2, <2>4, <2>5 DEF SaleRows, LinkRows, PortalToken, QuotePortalToken, Unspent
    <3>3. Here(orders', o, row) /\ Exists(links', l) /\ links'[l].subject = o
      BY <2>2, <2>4, <3>2 DEF Here, Exists, salesVars, SaleDomains
    <3>4. /\ op \notin OrderOps /\ op \notin NoteOps /\ op \notin LinkOps /\ op \notin NeedsShelf
          /\ op \notin QuoteOps \cup {"mailQuote"}
      BY DEF OrderOps, AnswerOps, NoteOps, LinkOps, QuoteOps, QuoteTransitions, NeedsShelf
    <3> QED BY <2>3, <2>4, <3>1, <3>2, <3>3, <3>4 DEF SaleJob
  <2> QED BY <1>0, <2>4, <2>5, SaleBy
<1>10. CASE SpendLink(w)
  <2>0. PICK l, o, row : l = J.link /\ o = J.order /\ row = J.seen
    OBVIOUS
  <2>1. /\ J.op \in AnswerOps /\ links' = [links EXCEPT ![l].status = "USED"]
        /\ Continue(w, [J EXCEPT !.spent = TRUE])
        /\ UNCHANGED <<orders, quotes, notes, invoices, answers>>
    BY <1>10, <2>0 DEF SpendLink, AnswerOps
  <2>2. "op" \in DOMAIN [J EXCEPT !.spent = TRUE]
    BY <1>0
  <2>3. job'[w] = [J EXCEPT !.spent = TRUE]
    BY <2>1, <2>2, ContinueActs DEF AnswerOps
  <2>4. /\ job'[w].op = J.op /\ job'[w].link = l /\ job'[w].order = o /\ job'[w].seen = row
        /\ DOMAIN job'[w] = DOMAIN J
    BY <2>0, <2>3
  <2>5. SaleDomains'
    BY <2>1 DEF SaleDomains
  <2>6. ASSUME SaleRows, SaleJob(w) PROVE SaleRows' /\ SaleJob(w)'
    <3>1. /\ Here(orders, o, row) /\ row.status = "CONFIRMED" /\ l \in Links /\ Exists(links, l)
          /\ links[l].subject = o
      BY <2>0, <2>1, <2>6 DEF SaleJob
    <3>2. links[l] \in PortalToken \cup QuotePortalToken
      BY <2>6, <3>1 DEF SaleRows, LinkRows
    <3>3. /\ links'[l] \in (IF links[l] \in PortalToken THEN PortalToken ELSE QuotePortalToken)
          /\ links'[l].subject = o
      BY <2>1, <3>1, <3>2 DEF PortalToken, QuotePortalToken, SaleDomains
    <3>4. links'[l] # Absent
      BY <3>2, <3>3 DEF PortalToken, QuotePortalToken, Absent
    <3>5. \A x \in Links \ {l} : links'[x] = links[x]
      BY <2>1 DEF SaleDomains
    <3>6. LinkRows'
      <4>1. \/ links[l] \in PortalToken /\ Exists(orders, o)
            \/ links[l] \in QuotePortalToken /\ links[l] \notin PortalToken /\ Exists(quotes, o)
        BY <2>6, <3>1 DEF SaleRows, LinkRows, PortalToken, QuotePortalToken
      <4>2. \/ links'[l] \in PortalToken /\ Exists(orders', links'[l].subject)
            \/ links'[l] \in QuotePortalToken /\ Exists(quotes', links'[l].subject)
        BY <2>1, <3>3, <4>1 DEF Exists
      <4>3. ASSUME NEW x \in Links \ {l}, Exists(links', x)
            PROVE  \/ links'[x] \in PortalToken /\ Exists(orders', links'[x].subject)
                   \/ links'[x] \in QuotePortalToken /\ Exists(quotes', links'[x].subject)
        BY <2>1, <2>6, <3>5, <4>3 DEF SaleRows, LinkRows, Exists
      <4> QED BY <4>2, <4>3 DEF LinkRows
    <3>7. SaleRows'
      BY <2>1, <2>6, <3>6 DEF SaleRows, OrderRows, QuoteRows, NoteRows, InvoiceRows, Exists
    <3>8. Here(orders', o, row) /\ Exists(links', l)
      BY <2>1, <3>1, <3>4 DEF Here, Exists
    <3>9. /\ J.op \notin OrderOps /\ J.op \notin NoteOps /\ J.op \notin LinkOps /\ J.op \notin NeedsShelf
          /\ J.op \notin QuoteOps \cup {"mailQuote"}
      BY <2>1 DEF OrderOps, AnswerOps, NoteOps, LinkOps, QuoteOps, QuoteTransitions, NeedsShelf
    <3> QED BY <2>4, <3>1, <3>3, <3>7, <3>8, <3>9 DEF SaleJob
  <2> QED BY <1>0, <2>5, <2>6, SaleBy
<1> QED BY <1>1, <1>2, <1>3, <1>4, <1>5, <1>6, <1>7, <1>8, <1>9, <1>10 DEF OrderNext

LEMMA NotesKeepSales ==
  ASSUME JobsShape, SalesAssumption, SalesInv, NEW w \in Workers, NoteNext(w), Goes(w, SalesOps)
  PROVE  SalesInv'
<1> SUFFICES ASSUME SaleDomains PROVE SalesInv'
  BY DEF SalesInv
<1> DEFINE J == job[w]
<1>0. Acts(w)
  BY DEF Goes
<1>1. CASE CreateNote(w)
  <2>0. PICK n : n = Fresh(notes)
    OBVIOUS
  <2>1. PICK o \in Rows(orders) \cup {None} : notes' = [notes EXCEPT ![n] = Pending(o)]
    BY <1>1, <2>0 DEF CreateNote
  <2>2. job'[w] = Idle /\ UNCHANGED <<orders, quotes, links, invoices, answers>>
    BY <1>1, AtOnceActs DEF CreateNote
  <2>3. Pending(o) \in DeliveryNote
    BY DEF Rows, SaleDomains, Pending, DeliveryNote
  <2>4. SaleDomains'
    BY <2>1, <2>2 DEF SaleDomains
  <2>5. SaleRows => SaleRows'
    BY <2>1, <2>2, <2>3 DEF SaleRows, OrderRows, QuoteRows, NoteRows, LinkRows, InvoiceRows, Exists, SaleDomains
  <2> QED BY <1>0, <2>2, <2>4, <2>5, SaleFinished
<1>2. CASE FindNote(w)
  <2>1. PICK n \in Rows(notes), op \in NoteOps : Begin(w, [op |-> op, note |-> n, seen |-> notes[n]])
    BY <1>2 DEF FindNote
  <2>2. PICK row : row = notes[n]
    OBVIOUS
  <2>3. job'[w] = [op |-> op, note |-> n, seen |-> row]
    BY <2>1, <2>2, BeginActs
  <2>4. UNCHANGED salesVars /\ Here(notes, n, row)
    BY <1>2, <2>2 DEF FindNote, Rows, Here
  <2>5. SaleDomains' /\ Here(notes', n, row)
    BY <2>4 DEF salesVars, SaleDomains, Here, Exists
  <2>6. SaleRows => SaleRows'
    BY <2>4 DEF SaleRows, OrderRows, QuoteRows, NoteRows, LinkRows, InvoiceRows, Exists, salesVars
  <2>7. /\ op \notin OrderOps /\ op \notin AnswerOps /\ op \notin LinkOps /\ op \notin QuoteOps \cup {"mailQuote"}
        /\ DOMAIN job'[w] = {"op", "note", "seen"}
    BY <2>3 DEF OrderOps, AnswerOps, NoteOps, LinkOps, QuoteOps, QuoteTransitions
  <2>8. SaleJob(w)'
    BY <2>3, <2>5, <2>7 DEF SaleJob
  <2> QED BY <1>0, <2>5, <2>6, <2>8, SaleBy
<1>3. CASE DeliverNote(w) \/ CancelNote(w) \/ UpdateNote(w) \/ DeleteNote(w)
  <2>0. PICK n, row : n = J.note /\ row = J.seen
    OBVIOUS
  <2>1. J.op \in NoteOps /\ Finish(w) /\ UNCHANGED <<quotes, links, invoices, answers>>
    BY <1>3 DEF DeliverNote, CancelNote, UpdateNote, DeleteNote, Doing, NoteOps
  <2>2. PICK new : notes' = [notes EXCEPT ![n] = new] /\ (row \in DeliveryNote => new = Absent \/ new \in DeliveryNote)
    <3>1. ASSUME NEW status \in {"pending", "delivered", "cancelled"},
                 notes' = [notes EXCEPT ![n] = [row EXCEPT !.status = status]]
          PROVE  \E new : notes' = [notes EXCEPT ![n] = new] /\ (row \in DeliveryNote => new = Absent \/ new \in DeliveryNote)
      <4>1. PICK new : new = [row EXCEPT !.status = status]
        OBVIOUS
      <4>2. row \in DeliveryNote => new \in DeliveryNote
        BY <4>1 DEF DeliveryNote
      <4>3. notes' = [notes EXCEPT ![n] = new]
        BY <3>1, <4>1
      <4> QED BY <4>2, <4>3
    <3>2. CASE DeliverNote(w)
      <4>1. notes' = [notes EXCEPT ![n] = [row EXCEPT !.status = "delivered"]]
        BY <2>0, <3>2 DEF DeliverNote
      <4> QED BY <3>1, <4>1
    <3>3. CASE CancelNote(w) \/ UpdateNote(w)
      <4>1. PICK status \in {"pending", "delivered", "cancelled"} :
              notes' = [notes EXCEPT ![n] = [row EXCEPT !.status = status]]
        BY <2>0, <3>3 DEF CancelNote, UpdateNote
      <4> QED BY <3>1, <4>1
    <3>4. CASE DeleteNote(w)
      BY <2>0, <3>4 DEF DeleteNote
    <3> QED BY <1>3, <3>1, <3>2, <3>3, <3>4
  <2>3. \/ orders' = orders
        \/ \E o : Exists(orders, o) /\ orders' = [orders EXCEPT ![o] = [orders[o] EXCEPT !.status = "DELIVERED"]]
    <3>1. CASE DeliverNote(w)
      <4>1. PICK o : o = J.seen.order
        OBVIOUS
      <4> QED BY <3>1, <4>1 DEF DeliverNote
    <3>2. CASE CancelNote(w) \/ UpdateNote(w) \/ DeleteNote(w)
      BY <3>2 DEF CancelNote, UpdateNote, DeleteNote
    <3> QED BY <1>3, <3>1, <3>2
  <2>4. job'[w] = Idle /\ SaleDomains'
    <3>1. DOMAIN orders' = Orders
      BY <2>3 DEF SaleDomains
    <3>2. J.op # "idle"
      BY <2>1 DEF NoteOps
    <3> QED BY <2>1, <2>2, <3>1, <3>2, FinishActs DEF SaleDomains
  <2>5. ASSUME SaleRows, SaleJob(w) PROVE SaleRows'
    <3>1. row \in DeliveryNote
      BY <2>0, <2>1, <2>5 DEF SaleJob, Here, SaleRows, NoteRows, SaleDomains
    <3>2. NoteRows'
      BY <2>2, <2>5, <3>1 DEF SaleRows, NoteRows, Exists, SaleDomains
    <3>3. OrderRows' /\ LinkRows'
      <4>1. CASE orders' = orders
        BY <2>1, <2>5, <4>1 DEF SaleRows, OrderRows, LinkRows, Exists
      <4>2. ASSUME NEW o, Exists(orders, o), orders' = [orders EXCEPT ![o] = [orders[o] EXCEPT !.status = "DELIVERED"]]
            PROVE  OrderRows' /\ LinkRows'
        <5>1. CASE o \in Orders
          <6>1. PICK new2 : new2 = [orders[o] EXCEPT !.status = "DELIVERED"]
            OBVIOUS
          <6>2. orders[o] \in SalesOrder
            BY <2>5, <4>2, <5>1 DEF SaleRows, OrderRows
          <6>3. new2 \in SalesOrder
            BY <6>1, <6>2 DEF SalesOrder
          <6> QED BY <2>1, <2>5, <4>2, <6>1, <6>3, OrderSaved DEF SaleRows
        <5>2. CASE o \notin Orders
          <6>1. \A x \in Orders : orders'[x] = orders[x]
            BY <4>2, <5>2 DEF SaleDomains
          <6> QED BY <2>1, <2>5, <6>1 DEF SaleRows, OrderRows, LinkRows, Exists, PortalToken
        <5> QED BY <5>1, <5>2
      <4> QED BY <2>3, <4>1, <4>2
    <3> QED BY <2>1, <2>5, <3>2, <3>3 DEF SaleRows, QuoteRows, InvoiceRows, Exists
  <2> QED BY <1>0, <2>4, <2>5, SaleFinished
<1> QED BY <1>1, <1>2, <1>3 DEF NoteNext

LEMMA QuoteRead ==
  ASSUME SaleDomains, SaleRows, NEW w, SaleJob(w), job[w].op \in QuoteOps \cup {"mailQuote"},
         NEW q, NEW row, q = job[w].quote, row = job[w].seen
  PROVE  q \in Quotes /\ Exists(quotes, q) /\ quotes[q] = row /\ row \in Quote
BY DEF SaleJob, Here, SaleRows, QuoteRows, SaleDomains

LEMMA QuotesKeepSales ==
  ASSUME JobsShape, SalesAssumption, SalesInv, NEW w \in Workers, QuoteNext(w), Goes(w, SalesOps)
  PROVE  SalesInv'
<1> SUFFICES ASSUME SaleDomains PROVE SalesInv'
  BY DEF SalesInv
<1> DEFINE J == job[w]
<1>0. Acts(w) /\ "op" \in DOMAIN J
  BY DEF Goes, JobsShape
<1>1. CASE CreateQuote(w)
  <2>0. PICK q : q = Fresh(quotes)
    OBVIOUS
  <2>1. PICK lines \in Baskets : quotes' = [quotes EXCEPT ![q] =
                    [status |-> "DRAFT", lines |-> lines, order |-> None, invoice |-> None, byLink |-> FALSE]]
    BY <1>1, <2>0 DEF CreateQuote
  <2>2. job'[w] = Idle /\ UNCHANGED <<orders, notes, links, invoices, answers>>
    BY <1>1, AtOnceActs DEF CreateQuote
  <2>3. [status |-> "DRAFT", lines |-> lines, order |-> None, invoice |-> None, byLink |-> FALSE] \in Quote
    BY DEF SalesAssumption, Quote
  <2>4. SaleRows => SaleRows'
    BY <2>1, <2>2, <2>3, QuoteSaved DEF SaleRows, OrderRows, NoteRows, InvoiceRows, Exists
  <2>5. SaleDomains'
    BY <2>1, <2>2 DEF SaleDomains
  <2> QED BY <1>0, <2>2, <2>4, <2>5, SaleFinished
<1>2. CASE FindQuote(w)
  <2>1. PICK q \in Rows(quotes), op \in QuoteOps, lines \in Baskets :
          Begin(w, [op |-> op, quote |-> q, seen |-> quotes[q], lines |-> lines])
    BY <1>2 DEF FindQuote
  <2>2. PICK row : row = quotes[q]
    OBVIOUS
  <2>3. job'[w] = [op |-> op, quote |-> q, seen |-> row, lines |-> lines]
    BY <2>1, <2>2, BeginActs
  <2>4. UNCHANGED salesVars /\ Here(quotes, q, row)
    BY <1>2, <2>2 DEF FindQuote, Rows, Here
  <2>5. SaleDomains' /\ Here(quotes', q, row) /\ lines \in [Products -> Nat]
    BY <2>4 DEF salesVars, SaleDomains, Here, Exists, SalesAssumption
  <2>6. SaleRows => SaleRows'
    BY <2>4 DEF SaleRows, OrderRows, QuoteRows, NoteRows, LinkRows, InvoiceRows, Exists, salesVars
  <2>7. op \notin OrderOps /\ op \notin AnswerOps /\ op \notin LinkOps /\ op \notin NoteOps /\ op \notin NeedsShelf
    BY DEF OrderOps, AnswerOps, NoteOps, LinkOps, QuoteOps, QuoteTransitions, NeedsShelf
  <2>8. SaleJob(w)'
    BY <2>3, <2>5, <2>7 DEF SaleJob
  <2> QED BY <1>0, <2>5, <2>6, <2>8, SaleBy
<1>3. CASE UpdateQuote(w) \/ TransitionQuote(w) \/ MailQuote(w)
  <2>0. PICK q, row : q = J.quote /\ row = J.seen
    OBVIOUS
  <2>1. /\ J.op \in QuoteOps \cup {"mailQuote"} /\ Finish(w)
        /\ UNCHANGED <<orders, notes, links, invoices, answers>>
    BY <1>3 DEF UpdateQuote, TransitionQuote, MailQuote, Doing, QuoteOps
  <2>2. PICK new : quotes' = [quotes EXCEPT ![q] = new] /\ (SaleJob(w) /\ row \in Quote => new \in Quote)
    <3>1. CASE UpdateQuote(w)
      <4>1. PICK lines : lines = J.lines
        OBVIOUS
      <4>2. /\ J.op = "updateQuote" /\ quotes' = [quotes EXCEPT ![q] = [row EXCEPT !.lines = Plus(@, lines)]]
        BY <2>0, <3>1, <4>1 DEF UpdateQuote, SaveQuote, Doing
      <4>3. SaleJob(w) => lines \in [Products -> Nat]
        BY <4>1, <4>2 DEF SaleJob, QuoteOps
      <4>4. SaleJob(w) /\ row \in Quote => Plus(row.lines, lines) \in [Products -> Nat]
        BY <4>3, PlusWell DEF Quote
      <4>5. PICK new : new = [row EXCEPT !.lines = Plus(@, lines)]
        OBVIOUS
      <4>6. SaleJob(w) /\ row \in Quote => new \in Quote
        BY <4>4, <4>5 DEF Quote
      <4> QED BY <4>2, <4>5, <4>6
    <3>2. CASE TransitionQuote(w) \/ MailQuote(w)
      <4>1. PICK status \in {"ACCEPTED", "REJECTED", "EXPIRED", "CONVERTED", "SENT"} :
              quotes' = [quotes EXCEPT ![q] = [row EXCEPT !.status = status]]
        BY <2>0, <3>2 DEF TransitionQuote, MailQuote, SaveQuote, QuoteTransitions, QuoteTarget
      <4>2. PICK new : new = [row EXCEPT !.status = status]
        OBVIOUS
      <4>3. row \in Quote => new \in Quote
        BY <4>2 DEF Quote
      <4>4. quotes' = [quotes EXCEPT ![q] = new]
        BY <4>1, <4>2
      <4> QED BY <4>3, <4>4
    <3> QED BY <1>3, <3>1, <3>2
  <2>3. job'[w] = Idle /\ SaleDomains'
    <3>1. J.op # "idle"
      BY <2>1 DEF QuoteOps, QuoteTransitions
    <3> QED BY <2>1, <2>2, <3>1, FinishActs DEF SaleDomains
  <2>4. ASSUME SaleRows, SaleJob(w) PROVE SaleRows'
    <3>1. new \in Quote
      BY <2>0, <2>1, <2>2, <2>4, QuoteRead
    <3> QED BY <2>1, <2>2, <2>4, <3>1, QuoteSaved DEF SaleRows, OrderRows, NoteRows, InvoiceRows, Exists
  <2> QED BY <1>0, <2>3, <2>4, SaleFinished
<1>4. CASE MakeQuoteLink(w)
  <2>0. PICK l, q, row : l = Fresh(links) /\ q = J.quote /\ row = J.seen
    OBVIOUS
  <2>1. /\ J.op = "sendQuote" /\ CanInsert(links) /\ Exists(quotes, q)
        /\ links' = [links EXCEPT ![l] = [status |-> "OPEN", kind |-> "quote", subject |-> q]]
        /\ Continue(w, [J EXCEPT !.op = "mailQuote"])
        /\ UNCHANGED <<orders, quotes, notes, invoices, answers>>
    BY <1>4, <2>0 DEF MakeQuoteLink, Doing
  <2>2. job'[w] = [J EXCEPT !.op = "mailQuote"]
    <3>1. "op" \in DOMAIN [J EXCEPT !.op = "mailQuote"]
      BY <1>0
    <3> QED BY <2>1, <3>1, ContinueActs
  <2>3. job'[w].op = "mailQuote" /\ job'[w].quote = q /\ job'[w].seen = row
    BY <1>0, <2>0, <2>2
  <2>4. SaleDomains' /\ l \in Links
    BY <2>0, <2>1, FreshRow DEF SaleDomains
  <2>5. ASSUME SaleRows, SaleJob(w) PROVE SaleRows' /\ SaleJob(w)'
    <3>1. q \in Quotes /\ Here(quotes', q, row)
      BY <2>0, <2>1, <2>5, QuoteRead DEF SaleJob, Here, QuoteOps, Exists, SaleDomains
    <3>2. LinkRows'
      <4>1. links'[l] \in QuotePortalToken /\ links'[l].subject = q
        BY <2>1, <2>4, <3>1 DEF QuotePortalToken, SaleDomains
      <4>2. \A x \in Links \ {l} : links'[x] = links[x]
        BY <2>1 DEF SaleDomains
      <4> QED BY <2>1, <2>5, <4>1, <4>2 DEF SaleRows, LinkRows, Exists
    <3>3. SaleRows'
      BY <2>1, <2>5, <3>2 DEF SaleRows, OrderRows, QuoteRows, NoteRows, InvoiceRows, Exists
    <3> QED BY <2>3, <3>1, <3>3 DEF SaleJob, OrderOps, AnswerOps, NoteOps, LinkOps, NeedsShelf
  <2> QED BY <1>0, <2>4, <2>5, SaleBy
<1>5. CASE DeleteQuote(w)
  <2>0. PICK q, forget : q = J.quote /\ forget = (J.seen.status = "CONVERTED")
    OBVIOUS
  <2>1. /\ J.op = "deleteQuote" /\ quotes' = [quotes EXCEPT ![q] = Absent]
        /\ orders' = [o \in Orders |-> IF forget /\ Exists(orders, o) /\ orders[o].quote = q
                                       THEN [orders[o] EXCEPT !.quote = None] ELSE orders[o]]
        /\ invoices' = [i \in Invoices |-> IF forget /\ Exists(invoices, i) /\ invoices[i].quote = q
                                           THEN [invoices[i] EXCEPT !.quote = None] ELSE invoices[i]]
        /\ links' = [l \in Links |-> IF Exists(links, l) /\ links[l].subject = q THEN Absent ELSE links[l]]
        /\ DOMAIN answers' = Links
        /\ Finish(w) /\ UNCHANGED notes
    BY <1>5, <2>0 DEF DeleteQuote, Doing
  <2>2. job'[w] = Idle /\ SaleDomains'
    BY <2>1, FinishActs DEF SaleDomains
  <2>3. ASSUME SaleRows PROVE SaleRows'
    <3>1. ASSUME NEW o \in Orders, Exists(orders, o)
          PROVE  orders'[o] \in SalesOrder
      BY <2>1, <2>3, <3>1 DEF SaleRows, OrderRows, SalesOrder
    <3>2. \A o \in Orders : ~Exists(orders, o) => ~Exists(orders', o)
      BY <2>1 DEF Exists
    <3>3. \A o \in Orders : Exists(orders, o) => Exists(orders', o)
      BY <3>1 DEF Exists, SalesOrder, Absent
    <3>4. OrderRows'
      BY <3>1, <3>2 DEF OrderRows
    <3>5. \A x \in Quotes \ {q} : quotes'[x] = quotes[x]
      BY <2>1 DEF SaleDomains
    <3>6. QuoteRows'
      BY <2>1, <2>3, <3>5 DEF SaleRows, QuoteRows, Exists, SaleDomains
    <3>7. InvoiceRows'
      BY <2>1, <2>3 DEF SaleRows, InvoiceRows, Exists, Invoice
    <3>8. LinkRows'
      <4> SUFFICES ASSUME NEW l \in Links, Exists(links', l)
                   PROVE  \/ links'[l] \in PortalToken /\ Exists(orders', links'[l].subject)
                          \/ links'[l] \in QuotePortalToken /\ Exists(quotes', links'[l].subject)
        BY DEF LinkRows
      <4>1. links'[l] = links[l] /\ links[l].subject # q /\ Exists(links, l)
        BY <2>1 DEF Exists
      <4>2. CASE links[l] \in PortalToken /\ Exists(orders, links[l].subject)
        BY <3>3, <4>1, <4>2 DEF PortalToken
      <4>3. CASE links[l] \in QuotePortalToken /\ Exists(quotes, links[l].subject)
        <5>1. links[l].subject \in Quotes \ {q}
          BY <4>1, <4>3 DEF QuotePortalToken
        <5> QED BY <3>5, <4>1, <4>3, <5>1 DEF Exists
      <4> QED BY <2>3, <4>1, <4>2, <4>3 DEF SaleRows, LinkRows
    <3> QED BY <2>1, <2>3, <3>4, <3>6, <3>7, <3>8 DEF SaleRows, NoteRows, Exists
  <2> QED BY <1>0, <2>2, <2>3, SaleFinished
<1>6. CASE QuoteToInvoice(w)
  <2>0. PICK q, row, i : q = J.quote /\ row = J.seen /\ i = Fresh(invoices)
    OBVIOUS
  <2>1. /\ J.op = "quoteToInvoice" /\ CanInsert(invoices) /\ invoices' = [invoices EXCEPT ![i] = Draft(None, q)]
        /\ quotes' = [quotes EXCEPT ![q] = [row EXCEPT !.status = "CONVERTED", !.invoice = i]]
        /\ Finish(w) /\ UNCHANGED <<orders, notes, links, answers>>
    BY <1>6, <2>0 DEF QuoteToInvoice, SaveQuote, Doing
  <2>2. job'[w] = Idle /\ SaleDomains' /\ i \in Invoices
    BY <2>0, <2>1, FinishActs, FreshRow DEF SaleDomains
  <2>3. ASSUME SaleRows, SaleJob(w) PROVE SaleRows'
    <3>1. q \in Quotes /\ row \in Quote
      BY <2>0, <2>1, <2>3, QuoteRead DEF QuoteOps
    <3>2. [row EXCEPT !.status = "CONVERTED", !.invoice = i] \in Quote
      BY <2>2, <3>1 DEF Quote
    <3>3. QuoteRows' /\ LinkRows'
      BY <2>1, <2>3, <3>2, QuoteSaved DEF SaleRows
    <3>4. Draft(None, q) \in Invoice
      BY <3>1 DEF Draft, Invoice
    <3>5. InvoiceRows'
      BY <2>1, <2>2, <2>3, <3>4 DEF SaleRows, InvoiceRows, Exists, SaleDomains
    <3> QED BY <2>1, <2>3, <3>3, <3>5 DEF SaleRows, OrderRows, NoteRows, Exists
  <2> QED BY <1>0, <2>2, <2>3, SaleFinished
<1>7. CASE QuoteToOrder(w)
  <2>0. PICK q, row, o : q = J.quote /\ row = J.seen /\ o = NewOrder
    OBVIOUS
  <2>1. PICK order : order = [status |-> "CONFIRMED", lines |-> row.lines, invoice |-> None, quote |-> q]
    OBVIOUS
  <2>2. PICK quote : quote = [row EXCEPT !.order = o]
    OBVIOUS
  <2>3. /\ J.op = "quoteToOrder" /\ Unnamed # {} /\ orders' = [orders EXCEPT ![o] = order]
        /\ quotes' = [quotes EXCEPT ![q] = quote]
        /\ Finish(w) /\ UNCHANGED <<notes, links, invoices, answers>>
    BY <1>7, <2>0, <2>1, <2>2 DEF QuoteToOrder, SaveQuote, Doing
  <2>4. job'[w] = Idle /\ SaleDomains' /\ o \in Orders
    BY <2>0, <2>3, FinishActs, FreshOrder DEF SaleDomains
  <2>5. ASSUME SaleRows, SaleJob(w) PROVE SaleRows'
    <3>1. q \in Quotes /\ row \in Quote
      BY <2>0, <2>3, <2>5, QuoteRead DEF QuoteOps
    <3>2. order \in SalesOrder /\ quote \in Quote /\ order # Absent /\ quote # Absent
      <4>1. order \in SalesOrder /\ quote \in Quote
        BY <2>1, <2>2, <2>4, <3>1 DEF SalesOrder, Quote
      <4> QED BY <4>1 DEF SalesOrder, Quote, Absent
    <3>3. \A x \in Orders : orders'[x] = IF x = o THEN order ELSE orders[x]
      BY <2>3 DEF SaleDomains
    <3>4. \A x \in Quotes : quotes'[x] = IF x = q THEN quote ELSE quotes[x]
      BY <2>3 DEF SaleDomains
    <3>5. OrderRows' /\ QuoteRows'
      BY <2>5, <3>2, <3>3, <3>4 DEF SaleRows, OrderRows, QuoteRows, Exists
    <3>6. /\ \A x \in Orders : Exists(orders, x) => Exists(orders', x)
          /\ \A x \in Quotes : Exists(quotes, x) => Exists(quotes', x)
      BY <3>2, <3>3, <3>4 DEF Exists
    <3>7. LinkRows'
      BY <2>3, <2>5, <3>6 DEF SaleRows, LinkRows, Exists, PortalToken, QuotePortalToken
    <3> QED BY <2>3, <2>5, <3>5, <3>7 DEF SaleRows, NoteRows, InvoiceRows, Exists
  <2> QED BY <1>0, <2>4, <2>5, SaleFinished
<1>8. CASE OpenQuoteLink(w)
  <2>1. PICK l \in Rows(links), op \in LinkOps :
          /\ links[l].kind = "quote"
          /\ Begin(w, [op |-> op, link |-> l, quote |-> links[l].subject,
                       seen |-> quotes[links[l].subject], saved |-> FALSE, lines |-> {}])
    BY <1>8 DEF OpenQuoteLink, LinkOps
  <2>2. PICK q, row : q = links[l].subject /\ row = quotes[q]
    OBVIOUS
  <2>3. job'[w] = [op |-> op, link |-> l, quote |-> q, seen |-> row, saved |-> FALSE, lines |-> {}]
    BY <2>1, <2>2, BeginActs
  <2>4. UNCHANGED salesVars /\ SaleDomains' /\ l \in Links /\ Exists(links, l)
    BY <1>8 DEF OpenQuoteLink, Rows, salesVars, SaleDomains
  <2>5. ASSUME SaleRows PROVE SaleRows' /\ SaleJob(w)'
    <3>1. SaleRows'
      BY <2>4, <2>5 DEF SaleRows, OrderRows, QuoteRows, NoteRows, LinkRows, InvoiceRows, Exists, salesVars
    <3>2. q \in Quotes /\ Exists(quotes, q)
      BY <2>1, <2>2, <2>4, <2>5 DEF SaleRows, LinkRows, PortalToken, QuotePortalToken
    <3>3. Exists(quotes', q) /\ Exists(links', l) /\ quotes'[q] = row
      BY <2>2, <2>4, <3>2 DEF Exists, salesVars
    <3>4. /\ op \notin OrderOps /\ op \notin NoteOps /\ op \notin AnswerOps /\ op \notin NeedsShelf
          /\ op \notin QuoteOps \cup {"mailQuote"}
      BY DEF OrderOps, AnswerOps, NoteOps, LinkOps, QuoteOps, QuoteTransitions, NeedsShelf
    <3> QED BY <2>3, <2>4, <3>1, <3>2, <3>3, <3>4 DEF SaleJob
  <2> QED BY <1>0, <2>4, <2>5, SaleBy
<1>9. CASE AnswerQuote(w)
  <2>0. PICK l, q, row, status : /\ l = J.link /\ q = J.quote /\ row = J.seen
                                 /\ status = IF J.op = "acceptByLink" THEN "ACCEPTED" ELSE "REJECTED"
    OBVIOUS
  <2>1. PICK lines : lines = IF Exists(quotes, q) THEN quotes[q].lines ELSE row.lines
    OBVIOUS
  <2>2. PICK new : new = [row EXCEPT !.status = status, !.byLink = (J.op = "acceptByLink"), !.lines = lines]
    OBVIOUS
  <2>3. /\ J.op \in LinkOps /\ ~J.saved /\ quotes' = [quotes EXCEPT ![q] = new]
        /\ Continue(w, [J EXCEPT !.saved = TRUE]) /\ UNCHANGED <<orders, notes, links, invoices, answers>>
    BY <1>9, <2>0, <2>1, <2>2 DEF AnswerQuote, SaveQuote, Doing, LinkOps
  <2>4. job'[w] = [J EXCEPT !.saved = TRUE]
    <3>1. "op" \in DOMAIN [J EXCEPT !.saved = TRUE]
      BY <1>0
    <3> QED BY <2>3, <3>1, ContinueActs DEF LinkOps
  <2>5. SaleDomains'
    BY <2>3 DEF SaleDomains
  <2>6. ASSUME SaleRows, SaleJob(w) PROVE SaleRows' /\ SaleJob(w)'
    <3>1. /\ DOMAIN J = {"op", "link", "quote", "seen", "saved", "lines"}
          /\ q \in Quotes /\ Exists(quotes, q) /\ l \in Links /\ Exists(links, l) /\ row = quotes[q]
      BY <2>0, <2>3, <2>6 DEF SaleJob
    <3>2. row \in Quote
      BY <2>6, <3>1 DEF SaleRows, QuoteRows
    <3>3. new \in Quote /\ new.status = status
      BY <2>0, <2>1, <2>2, <3>1, <3>2 DEF Quote
    <3>4. SaleRows'
      BY <2>3, <2>6, <3>3, QuoteSaved DEF SaleRows, OrderRows, NoteRows, InvoiceRows, Exists
    <3>5. quotes'[q] = new /\ new # Absent
      BY <2>3, <3>1, <3>3 DEF SaleDomains, Quote, Absent
    <3>6. /\ DOMAIN job'[w] = DOMAIN J /\ job'[w].op = J.op /\ job'[w].link = l /\ job'[w].quote = q
          /\ job'[w].saved = TRUE
      BY <2>0, <2>4, <3>1
    <3>7. Exists(quotes', q) /\ Exists(links', l) /\ (J.op = "acceptByLink" => quotes'[q].status = "ACCEPTED")
      BY <2>0, <2>3, <3>1, <3>3, <3>5 DEF Exists
    <3>8. /\ J.op \notin OrderOps /\ J.op \notin NoteOps /\ J.op \notin AnswerOps /\ J.op \notin NeedsShelf
          /\ J.op \notin QuoteOps \cup {"mailQuote"}
      BY <2>3 DEF OrderOps, AnswerOps, NoteOps, LinkOps, QuoteOps, QuoteTransitions, NeedsShelf
    <3> QED BY <3>1, <3>4, <3>6, <3>7, <3>8 DEF SaleJob
  <2> QED BY <1>0, <2>5, <2>6, SaleBy
<1>10. CASE SpendQuoteLink(w)
  <2>0. PICK l, q, row : l = J.link /\ q = J.quote /\ row = quotes[q]
    OBVIOUS
  <2>1. PICK K : K = [J EXCEPT !.op = "quoteToOrder", !.seen = row]
    OBVIOUS
  <2>2. /\ J.op \in LinkOps /\ J.saved /\ Exists(links, l) /\ links' = [links EXCEPT ![l].status = "USED"]
        /\ \/ J.op = "acceptByLink" /\ Continue(w, K)
           \/ Finish(w)
        /\ UNCHANGED <<orders, quotes, notes, invoices, answers>>
    <3>1. CASE MakesOrder(J.op, row)
      BY <1>10, <2>0, <2>1, <3>1 DEF SpendQuoteLink, LinkOps, MakesOrder
    <3>2. CASE ~MakesOrder(J.op, row)
      BY <1>10, <2>0, <2>1, <3>2 DEF SpendQuoteLink, LinkOps
    <3> QED BY <3>1, <3>2
  <2>3. SaleDomains'
    BY <2>2 DEF SaleDomains
  <2>4. ASSUME SaleRows, SaleJob(w) PROVE SaleRows'
    <3>1. l \in Links /\ (\/ links[l] \in PortalToken /\ Exists(orders, links[l].subject)
                          \/ links[l] \in QuotePortalToken /\ Exists(quotes, links[l].subject))
      BY <2>0, <2>2, <2>4 DEF SaleRows, LinkRows, SaleJob
    <3>2. links'[l] = [links[l] EXCEPT !.status = "USED"] /\ \A x \in Links \ {l} : links'[x] = links[x]
      BY <2>2, <3>1 DEF SaleDomains
    <3>3. \/ links'[l] \in PortalToken /\ Exists(orders', links'[l].subject)
          \/ links'[l] \in QuotePortalToken /\ Exists(quotes', links'[l].subject)
      BY <2>2, <3>1, <3>2 DEF PortalToken, QuotePortalToken, Exists
    <3>4. LinkRows'
      BY <2>2, <2>4, <3>2, <3>3 DEF SaleRows, LinkRows, Exists
    <3> QED BY <2>2, <2>4, <3>4 DEF SaleRows, OrderRows, QuoteRows, NoteRows, InvoiceRows, Exists
  <2>5. CASE Finish(w)
    BY <1>0, <2>2, <2>3, <2>4, <2>5, FinishActs, SaleFinished DEF LinkOps
  <2>6. CASE J.op = "acceptByLink" /\ Continue(w, K)
    <3>1. job'[w] = K
      BY <1>0, <2>1, <2>6, ContinueActs
    <3>2. job'[w].op = "quoteToOrder" /\ DOMAIN job'[w] = DOMAIN J
      BY <1>0, <2>1, <3>1
    <3>3. ASSUME SaleRows, SaleJob(w) PROVE SaleJob(w)'
      <4>1. DOMAIN J = {"op", "link", "quote", "seen", "saved", "lines"} /\ q \in Quotes /\ Exists(quotes, q)
        BY <2>0, <2>2, <3>3 DEF SaleJob
      <4>2. job'[w].quote = q /\ job'[w].seen = row
        BY <2>0, <2>1, <3>1, <4>1
      <4>3. Here(quotes', q, row)
        BY <2>0, <2>2, <4>1 DEF Here, Exists, SaleDomains
      <4> QED BY <3>2, <4>2, <4>3 DEF SaleJob, OrderOps, AnswerOps, NoteOps, LinkOps, NeedsShelf
    <3> QED BY <1>0, <2>3, <2>4, <3>3, SaleBy
  <2> QED BY <2>2, <2>5, <2>6
<1> QED BY <1>1, <1>2, <1>3, <1>4, <1>5, <1>6, <1>7, <1>8, <1>9, <1>10 DEF QuoteNext

LEMMA SalesStep ==
  ASSUME JobsShape, SalesAssumption, SalesInv, [Next]_vars
  PROVE  SalesInv'
<1>1. CASE UNCHANGED vars \/ (NewDay /\ UNCHANGED <<stockVars, salesVars>>)
  <2>1. UNCHANGED <<jobVars, stockVars, salesVars>>
    BY <1>1 DEF vars, NewDay
  <2>2. \A w \in Workers : SaleJob(w)' <=> SaleJob(w)
    BY <2>1 DEF SaleJob, Here, Exists, jobVars, stockVars, salesVars
  <2>3. SaleRows' <=> SaleRows
    BY <2>1 DEF SaleRows, OrderRows, QuoteRows, NoteRows, LinkRows, InvoiceRows, Exists, salesVars
  <2> QED BY <2>1, <2>2, <2>3 DEF SalesInv, SaleDomains, OneByOne, jobVars, salesVars
<1>2. ASSUME NEW w \in Workers, Goes(w, StockOps) \/ Goes(w, NightOps) \/ (Acts(w) /\ job'[w] = Idle),
             UNCHANGED salesVars
      PROVE  SalesInv'
  <2>1. job'[w].op \notin SalesOps
    BY <1>2, OpsApart DEF Goes, Idle
  <2> QED BY <1>2, <2>1, SaleUntouched DEF Goes
<1>3. ASSUME NEW w \in Workers, SalesNext(w), Goes(w, SalesOps) PROVE SalesInv'
  BY <1>3, OrdersKeepSales, NotesKeepSales, QuotesKeepSales DEF SalesNext
<1> QED BY <1>1, <1>2, <1>3, ClientStep

LEMMA SalesStart == ASSUME Init PROVE SalesInv
BY OpsApart DEF Init, JobsInit, SalesInit, SalesInv, SaleDomains, SaleRows, OrderRows, QuoteRows, NoteRows, LinkRows, InvoiceRows,
       Exists, SaleJob, Idle, SalesOps

LEMMA SalesAlways == ASSUME SalesAssumption PROVE Spec => [](JobsShape /\ SalesInv)
<1>1. Init => JobsShape /\ SalesInv
  BY ShapeInit, SalesStart
<1>2. JobsShape /\ SalesInv /\ [Next]_vars => (JobsShape /\ SalesInv)'
  BY ShapeStays, SalesStep
<1> QED
  BY <1>1, <1>2, PTL DEF Spec

-----------------------------------------------------------------------------
(* What a step of the sales does to the orders: one is made, one is saved  *)
(* without its invoice being touched, one is invoiced, one is deleted, or  *)
(* they forget a quote.                                                    *)
Made(o, row) ==
  /\ o \in Orders /\ ~Exists(orders, o) /\ row \in SalesOrder
  /\ row.status = "CONFIRMED" /\ row.invoice = None
  /\ orders' = [orders EXCEPT ![o] = row]

Saved(w, o, row) ==
  /\ o \in Orders /\ Exists(orders, o) /\ orders[o] \in SalesOrder /\ row \in SalesOrder
  /\ row.invoice = orders[o].invoice /\ row.quote = orders[o].quote
  /\ row.status = "CONFIRMED" => orders[o].status = "CONFIRMED"
  /\ row.status \in {"DELIVERED", "INVOICED"} =>
       \/ orders[o].status \in {"DELIVERED", "INVOICED"} /\ row.lines = orders[o].lines /\ UNCHANGED stockVars
       \/ MarkDelivered(w) \/ DeliverNote(w)
  /\ orders' = [orders EXCEPT ![o] = row]

MakesOne(w) == (CreateOrder(w) \/ QuoteToOrder(w)) /\ \E o, row : Made(o, row)
SavingSteps(w) ==
  UpdateOrder(w) \/ StartProgress(w) \/ MarkDelivered(w) \/ TransitionOrder(w) \/ ConfirmOrder(w)
  \/ RefuseOrder(w) \/ DeliverNote(w)
SavesOne(w) == SavingSteps(w) /\ \E o, row : Saved(w, o, row)

LEMMA SavesWell ==
  ASSUME SaleDomains, SaleRows, NEW w \in Workers, SaleJob(w), SavingSteps(w)
  PROVE  SavesOne(w) \/ UNCHANGED <<orders, stockVars>>
<1> DEFINE J == job[w]
<1>1. CASE DeliverNote(w)
  <2>1. PICK o : o = J.seen.order
    OBVIOUS
  <2>2. CASE Exists(orders, o) /\ orders[o].status = "IN_PROGRESS" /\ orders' = [orders EXCEPT ![o].status = "DELIVERED"]
    <3>1. CASE o \in Orders
      <4>1. PICK row : row = [orders[o] EXCEPT !.status = "DELIVERED"]
        OBVIOUS
      <4>2. orders[o] \in SalesOrder
        BY <2>2, <3>1 DEF SaleRows, OrderRows
      <4>3. Saved(w, o, row)
        BY <1>1, <2>2, <3>1, <4>1, <4>2 DEF Saved, SalesOrder
      <4> QED BY <1>1, <4>3 DEF SavesOne, SavingSteps
    <3>2. CASE o \notin Orders
      <4>1. J.seen \in DeliveryNote
        BY <1>1 DEF DeliverNote, Doing, NoteOps, SaleJob, Here, SaleRows, NoteRows, SaleDomains
      <4>2. o = None
        BY <2>1, <3>2, <4>1 DEF DeliveryNote
      <4> QED BY <1>1, <2>1, <4>2 DEF DeliverNote
    <3> QED BY <3>1, <3>2
  <2> QED BY <1>1, <2>1, <2>2 DEF DeliverNote
<1>2. CASE UpdateOrder(w) \/ StartProgress(w) \/ MarkDelivered(w) \/ TransitionOrder(w) \/ ConfirmOrder(w) \/ RefuseOrder(w)
  <2>0. PICK o, seen : o = J.order /\ seen = J.seen
    OBVIOUS
  <2>1. J.op \in {"update", "startProgress", "markDelivered", "markInvoiced", "cancel", "confirm", "refuse"}
    BY <1>2 DEF UpdateOrder, StartProgress, MarkDelivered, TransitionOrder, ConfirmOrder, RefuseOrder, Doing
  <2>2. o \in Orders /\ Exists(orders, o) /\ orders[o] = seen /\ seen \in SalesOrder
    <3>1. J.op \in OrderOps \cup AnswerOps
      BY <2>1 DEF OrderOps, AnswerOps
    <3> QED BY <2>0, <3>1, OrderRead DEF SaleDomains
  <2>3. /\ J.op = "update" => seen.status = "CONFIRMED" /\ J.lines \in [Products -> Nat]
        /\ J.op = "markInvoiced" => seen.status = "DELIVERED"
    BY <2>0, <2>1 DEF SaleJob, OrderOps
  <2>4. CASE UpdateOrder(w)
    <3>1. PICK lines : lines = Plus(seen.lines, J.lines)
      OBVIOUS
    <3>2. PICK row : row = [seen EXCEPT !.lines = lines]
      OBVIOUS
    <3>3. orders' = [orders EXCEPT ![o] = row] /\ J.op = "update"
      BY <2>0, <2>4, <3>1, <3>2 DEF UpdateOrder, Doing
    <3>4. lines \in [Products -> Nat]
      BY <2>2, <2>3, <3>1, <3>3, PlusWell DEF SalesOrder
    <3>5. Saved(w, o, row)
      BY <2>2, <2>3, <3>2, <3>3, <3>4 DEF Saved, SalesOrder
    <3> QED BY <2>4, <3>5 DEF SavesOne, SavingSteps
  <2>5. CASE StartProgress(w)
    <3>1. PICK row : row = [seen EXCEPT !.status = "IN_PROGRESS"]
      OBVIOUS
    <3>2. orders' = [orders EXCEPT ![o] = row]
      BY <2>0, <2>5, <3>1 DEF StartProgress
    <3>3. Saved(w, o, row)
      BY <2>2, <3>1, <3>2 DEF Saved, SalesOrder
    <3> QED BY <2>5, <3>3 DEF SavesOne, SavingSteps
  <2>6. CASE MarkDelivered(w)
    <3>1. PICK row : row = [seen EXCEPT !.status = "DELIVERED"]
      OBVIOUS
    <3>2. orders' = [orders EXCEPT ![o] = row]
      BY <2>0, <2>6, <3>1 DEF MarkDelivered
    <3>3. Saved(w, o, row)
      BY <2>2, <2>6, <3>1, <3>2 DEF Saved, SalesOrder
    <3> QED BY <2>6, <3>3 DEF SavesOne, SavingSteps
  <2>7. CASE TransitionOrder(w)
    <3>1. PICK status : status = IF Doing(w, "cancel") THEN "CANCELLED" ELSE "INVOICED"
      OBVIOUS
    <3>2. PICK row : row = [seen EXCEPT !.status = status]
      OBVIOUS
    <3>3. orders' = [orders EXCEPT ![o] = row] /\ UNCHANGED stockVars /\ J.op \in {"markInvoiced", "cancel"}
      BY <2>0, <2>7, <3>1, <3>2 DEF TransitionOrder
    <3>4. status = "CANCELLED" \/ (status = "INVOICED" /\ seen.status = "DELIVERED")
      BY <2>3, <3>1, <3>3 DEF Doing
    <3>5. Saved(w, o, row)
      BY <2>2, <3>2, <3>3, <3>4 DEF Saved, SalesOrder
    <3> QED BY <2>7, <3>5 DEF SavesOne, SavingSteps
  <2>8. CASE ConfirmOrder(w) \/ RefuseOrder(w)
    <3>1. PICK status \in {"IN_PROGRESS", "CANCELLED"} :
            orders' = [orders EXCEPT ![o] = [seen EXCEPT !.status = status, !.lines = orders[o].lines]]
      BY <2>0, <2>8 DEF ConfirmOrder, RefuseOrder, AnswerOrder
    <3>2. PICK row : row = [seen EXCEPT !.status = status, !.lines = orders[o].lines]
      OBVIOUS
    <3>3. orders' = [orders EXCEPT ![o] = row]
      BY <3>1, <3>2
    <3>4. Saved(w, o, row)
      BY <2>2, <3>2, <3>3 DEF Saved, SalesOrder
    <3> QED BY <2>8, <3>4 DEF SavesOne, SavingSteps
  <2> QED BY <1>2, <2>4, <2>5, <2>6, <2>7, <2>8
<1> QED BY <1>1, <1>2 DEF SavingSteps

LEMMA MakesWell ==
  ASSUME SalesAssumption, SaleDomains, SaleRows, NEW w \in Workers, SaleJob(w), CreateOrder(w) \/ QuoteToOrder(w)
  PROVE  MakesOne(w)
<1>0. PICK o : o = NewOrder
  OBVIOUS
<1>1. o \in Orders /\ ~Exists(orders, o)
  BY <1>0, FreshOrder DEF CreateOrder, QuoteToOrder
<1>2. CASE CreateOrder(w)
  <2>1. PICK lines \in Baskets : orders' = [orders EXCEPT ![o] =
          [status |-> "CONFIRMED", lines |-> lines, invoice |-> None, quote |-> None]]
    BY <1>0, <1>2 DEF CreateOrder
  <2>2. PICK row : row = [status |-> "CONFIRMED", lines |-> lines, invoice |-> None, quote |-> None]
    OBVIOUS
  <2>3. Made(o, row)
    BY <1>1, <2>1, <2>2 DEF Made, SalesOrder, SalesAssumption
  <2> QED BY <1>2, <2>3 DEF MakesOne
<1>3. CASE QuoteToOrder(w)
  <2>1. PICK q, seen : q = job[w].quote /\ seen = job[w].seen
    OBVIOUS
  <2>2. PICK row : row = [status |-> "CONFIRMED", lines |-> seen.lines, invoice |-> None, quote |-> q]
    OBVIOUS
  <2>3. orders' = [orders EXCEPT ![o] = row] /\ job[w].op = "quoteToOrder"
    BY <1>0, <1>3, <2>1, <2>2 DEF QuoteToOrder, Doing
  <2>4. q \in Quotes /\ seen \in Quote
    BY <2>1, <2>3, QuoteRead DEF QuoteOps
  <2>5. Made(o, row)
    BY <1>1, <2>2, <2>3, <2>4 DEF Made, SalesOrder, Quote
  <2> QED BY <1>3, <2>5 DEF MakesOne
<1> QED BY <1>2, <1>3

LEMMA OrderChanges ==
  ASSUME SalesAssumption, SaleDomains, SaleRows, NEW w \in Workers, SaleJob(w), SalesNext(w)
  PROVE  UNCHANGED orders \/ MakesOne(w) \/ SavesOne(w) \/ ConvertToInvoice(w) \/ DeleteOrder(w) \/ DeleteQuote(w)
<1>1. CASE OrderNext(w)
  BY <1>1, SavesWell, MakesWell DEF OrderNext, SavingSteps, FindOrder, LoadProducts, SendOrderLink, OpenOrderLink,
     SpendLink, salesVars
<1>2. CASE NoteNext(w)
  BY <1>2, SavesWell DEF NoteNext, SavingSteps, CreateNote, FindNote, CancelNote, UpdateNote, DeleteNote, salesVars
<1>3. CASE QuoteNext(w)
  BY <1>3, MakesWell DEF QuoteNext, CreateQuote, FindQuote, UpdateQuote, TransitionQuote, MakeQuoteLink, MailQuote,
     QuoteToInvoice, OpenQuoteLink, AnswerQuote, SpendQuoteLink, salesVars
<1> QED BY <1>1, <1>2, <1>3 DEF SalesNext

-----------------------------------------------------------------------------
(* An order knows its invoice: any invoice made from an order that is      *)
(* still there is the one the order names, so there is one at most.        *)
InvoiceOfOrder(i) ==
  Exists(invoices, i) /\ invoices[i].order \in Orders =>
    Exists(orders, invoices[i].order) /\ orders[invoices[i].order].invoice = i
InvoicesNamed == OneByOne => \A i \in Invoices : InvoiceOfOrder(i)

LEMMA InvoiceChanges ==
  ASSUME NEW w, SalesNext(w)
  PROVE  \/ UNCHANGED invoices
         \/ QuoteToInvoice(w) /\ UNCHANGED orders
         \/ ConvertToInvoice(w) \/ DeleteOrder(w) \/ DeleteQuote(w)
BY DEF SalesNext, OrderNext, CreateOrder, FindOrder, LoadProducts, UpdateOrder, StartProgress, MarkDelivered,
       TransitionOrder, SendOrderLink, OpenOrderLink, SpendLink, ConfirmOrder, RefuseOrder, NoteNext, CreateNote, FindNote,
       DeliverNote, CancelNote, UpdateNote, DeleteNote, QuoteNext, CreateQuote, FindQuote, UpdateQuote, TransitionQuote,
       MakeQuoteLink, MailQuote, QuoteToInvoice, QuoteToOrder, OpenQuoteLink, AnswerQuote, SpendQuoteLink, salesVars

LEMMA InvoicesStayNamed ==
  ASSUME SalesAssumption, SaleDomains, SaleRows, SaleRows', NEW w \in Workers, SaleJob(w), SalesNext(w),
         \A i \in Invoices : InvoiceOfOrder(i)
  PROVE  \A i \in Invoices : InvoiceOfOrder(i)'
<1> DEFINE J == job[w]
<1>1. ASSUME \A o \in Orders : Exists(orders, o) => Exists(orders', o) /\ orders'[o].invoice = orders[o].invoice,
             \A i \in Invoices : Exists(invoices', i) /\ invoices'[i].order \in Orders =>
               Exists(invoices, i) /\ invoices'[i].order = invoices[i].order
      PROVE  \A i \in Invoices : InvoiceOfOrder(i)'
  BY <1>1 DEF InvoiceOfOrder, Exists
<1>2. CASE UNCHANGED invoices /\ (UNCHANGED orders \/ MakesOne(w) \/ SavesOne(w))
  <2>1. \A o \in Orders : Exists(orders, o) => Exists(orders', o) /\ orders'[o].invoice = orders[o].invoice
    <3>1. CASE MakesOne(w)
      <4>1. PICK o, row : Made(o, row)
        BY <3>1 DEF MakesOne
      <4>2. \A x \in Orders \ {o} : orders'[x] = orders[x]
        BY <4>1 DEF Made, SaleDomains
      <4> QED BY <4>1, <4>2 DEF Made, Exists
    <3>2. CASE SavesOne(w)
      <4>1. PICK o, row : Saved(w, o, row)
        BY <3>2 DEF SavesOne
      <4>2. /\ \A x \in Orders \ {o} : orders'[x] = orders[x]
            /\ orders'[o] = row /\ row.invoice = orders[o].invoice /\ row \in SalesOrder
        BY <4>1 DEF Saved, SaleDomains
      <4>3. row # Absent
        BY <4>2 DEF SalesOrder, Absent
      <4> QED BY <4>1, <4>2, <4>3 DEF Exists
    <3>3. CASE UNCHANGED orders
      BY <3>3 DEF Exists
    <3> QED BY <1>2, <3>1, <3>2, <3>3
  <2>2. \A i \in Invoices : Exists(invoices', i) /\ invoices'[i].order \in Orders =>
               Exists(invoices, i) /\ invoices'[i].order = invoices[i].order
    BY <1>2 DEF Exists
  <2> QED BY <1>1, <2>1, <2>2
<1>3. CASE QuoteToInvoice(w)
  <2>1. PICK i, q : i = Fresh(invoices) /\ q = J.quote
    OBVIOUS
  <2>2. invoices' = [invoices EXCEPT ![i] = Draft(None, q)] /\ UNCHANGED orders
    BY <1>3, <2>1 DEF QuoteToInvoice
  <2>3. \A x \in Invoices : Exists(invoices', x) /\ invoices'[x].order \in Orders =>
               Exists(invoices, x) /\ invoices'[x].order = invoices[x].order
    BY <2>2 DEF SaleDomains, Draft, SalesAssumption, Exists
  <2> QED BY <1>1, <2>2, <2>3 DEF Exists
<1>4. CASE ConvertToInvoice(w)
  <2>0. PICK o, seen, i : o = J.order /\ seen = J.seen /\ i = Fresh(invoices)
    OBVIOUS
  <2>1. PICK row : row = [seen EXCEPT !.status = "INVOICED", !.invoice = i]
    OBVIOUS
  <2>2. /\ J.op = "convertToInvoice" /\ invoices' = [invoices EXCEPT ![i] = Draft(o, None)]
        /\ orders' = [orders EXCEPT ![o] = row] /\ i \in Invoices /\ ~Exists(invoices, i)
    BY <1>4, <2>0, <2>1, FreshRow DEF ConvertToInvoice, Doing, SaleDomains
  <2>3. o \in Orders /\ Exists(orders, o) /\ orders[o] = seen /\ seen \in SalesOrder /\ seen.invoice = None
    BY <2>0, <2>2, OrderRead DEF SaleDomains, OrderOps, SaleJob
  <2>4. row.invoice = i /\ row # Absent
    <3>1. row \in SalesOrder /\ row.invoice = i
      BY <2>1, <2>2, <2>3 DEF SalesOrder
    <3> QED BY <3>1 DEF SalesOrder, Absent
  <2>5. /\ orders'[o] = row /\ \A x \in Orders \ {o} : orders'[x] = orders[x]
        /\ invoices'[i] = Draft(o, None) /\ \A x \in Invoices \ {i} : invoices'[x] = invoices[x]
    BY <2>2, <2>3 DEF SaleDomains
  <2>6. ASSUME NEW x \in Invoices, Exists(invoices', x), invoices'[x].order \in Orders
        PROVE  Exists(orders', invoices'[x].order) /\ orders'[invoices'[x].order].invoice = x
    <3>1. CASE x = i
      BY <2>4, <2>5, <3>1 DEF Draft, Exists
    <3>2. CASE x # i
      <4>1. Exists(invoices, x) /\ invoices'[x] = invoices[x]
        BY <2>5, <2>6, <3>2 DEF Exists
      <4>2. Exists(orders, invoices[x].order) /\ orders[invoices[x].order].invoice = x
        BY <2>6, <4>1 DEF InvoiceOfOrder
      <4>3. invoices[x].order # o
        BY <2>3, <4>2 DEF SalesAssumption
      <4> QED BY <2>5, <2>6, <4>1, <4>2, <4>3 DEF Exists
    <3> QED BY <3>1, <3>2
  <2> QED BY <2>6 DEF InvoiceOfOrder
<1>5. CASE DeleteOrder(w)
  <2>0. PICK o : o = J.order
    OBVIOUS
  <2>1. /\ orders' = [orders EXCEPT ![o] = Absent]
        /\ \A i \in Rows(invoices') : invoices'[i].order # o
        /\ invoices' = [i \in Invoices |->
                          IF Exists(invoices, i) /\ invoices[i].order = o /\ J.seen.status = "INVOICED"
                          THEN [invoices[i] EXCEPT !.order = None] ELSE invoices[i]]
    BY <1>5, <2>0 DEF DeleteOrder
  <2>2. \A x \in Orders \ {o} : orders'[x] = orders[x]
    BY <2>1 DEF SaleDomains
  <2>3. ASSUME NEW x \in Invoices, Exists(invoices', x), invoices'[x].order \in Orders
        PROVE  Exists(orders', invoices'[x].order) /\ orders'[invoices'[x].order].invoice = x
    <3>1. invoices'[x].order # o
      BY <2>1, <2>3 DEF Rows
    <3>2. invoices'[x] = invoices[x]
      <4>1. CASE invoices'[x] = [invoices[x] EXCEPT !.order = None] /\ Exists(invoices, x)
        <5>1. invoices[x] \in Invoice
          BY <4>1 DEF SaleRows, InvoiceRows
        <5>2. invoices'[x].order = None
          BY <4>1, <5>1 DEF Invoice
        <5> QED BY <2>3, <5>2 DEF SalesAssumption
      <4> QED BY <2>1, <4>1
    <3>3. Exists(orders, invoices[x].order) /\ orders[invoices[x].order].invoice = x
      BY <2>3, <3>2 DEF InvoiceOfOrder, Exists
    <3> QED BY <2>2, <2>3, <3>1, <3>2, <3>3 DEF Exists
  <2> QED BY <2>3 DEF InvoiceOfOrder
<1>6. CASE DeleteQuote(w)
  <2>0. PICK q, forget : q = J.quote /\ forget = (J.seen.status = "CONVERTED")
    OBVIOUS
  <2>1. /\ orders' = [o \in Orders |-> IF forget /\ Exists(orders, o) /\ orders[o].quote = q
                                       THEN [orders[o] EXCEPT !.quote = None] ELSE orders[o]]
        /\ invoices' = [i \in Invoices |-> IF forget /\ Exists(invoices, i) /\ invoices[i].quote = q
                                           THEN [invoices[i] EXCEPT !.quote = None] ELSE invoices[i]]
    BY <1>6, <2>0 DEF DeleteQuote
  <2>2. \A o \in Orders : Exists(orders, o) => Exists(orders', o) /\ orders'[o].invoice = orders[o].invoice
    BY <2>1 DEF SaleRows, OrderRows, SalesOrder, Exists, Absent
  <2>3. ASSUME NEW x \in Invoices, Exists(invoices', x)
        PROVE  Exists(invoices, x) /\ invoices'[x].order = invoices[x].order
    BY <2>1, <2>3 DEF SaleRows, InvoiceRows, Invoice, Exists
  <2> QED BY <1>1, <2>2, <2>3
<1>7. UNCHANGED invoices \/ (QuoteToInvoice(w) /\ UNCHANGED orders) \/ ConvertToInvoice(w) \/ DeleteOrder(w) \/ DeleteQuote(w)
  BY InvoiceChanges
<1> QED BY <1>2, <1>3, <1>4, <1>5, <1>6, <1>7, OrderChanges

LEMMA InvoicesStep ==
  ASSUME JobsShape, SalesAssumption, SalesInv, InvoicesNamed, [Next]_vars
  PROVE  InvoicesNamed'
<1> SUFFICES ASSUME OneByOne' PROVE \A i \in Invoices : InvoiceOfOrder(i)'
  BY DEF InvoicesNamed
<1>1. CASE UNCHANGED <<salesVars, marred>>
  BY <1>1 DEF InvoicesNamed, InvoiceOfOrder, Exists, salesVars, OneByOne
<1>2. ASSUME NEW w \in Workers, Acts(w), UNCHANGED salesVars \/ SalesNext(w)
      PROVE  \A i \in Invoices : InvoiceOfOrder(i)'
  <2>1. OneByOne
    BY <1>2 DEF Acts, OneByOne
  <2>2. SaleDomains /\ SaleRows /\ SaleJob(w) /\ \A i \in Invoices : InvoiceOfOrder(i)
    BY <2>1 DEF SalesInv, InvoicesNamed
  <2>3. SaleRows'
    BY SalesStep DEF SalesInv
  <2>4. CASE UNCHANGED salesVars
    BY <2>2, <2>4 DEF InvoiceOfOrder, Exists, salesVars
  <2> QED BY <1>2, <2>2, <2>3, <2>4, InvoicesStayNamed
<1> QED BY <1>1, <1>2, ClientStep DEF Goes, vars, jobVars, NewDay

(* An order becomes one invoice, for any number of orders and of handlers  *)
(* that do not overlap, whatever status an invoiced order is taken back to *)
(* and wherever a handler fails.                                           *)
THEOREM InvoicedOnceAlways ==
  ASSUME SalesAssumption PROVE Spec => [](OneByOne => InvoicedOnce)
<1>1. Init => InvoicesNamed
  BY DEF Init, SalesInit, InvoicesNamed, InvoiceOfOrder, Exists
<1>2. JobsShape /\ SalesInv /\ InvoicesNamed /\ [Next]_vars => InvoicesNamed'
  BY InvoicesStep
<1>3. SalesInv /\ InvoicesNamed => (OneByOne => InvoicedOnce)
  <2> SUFFICES ASSUME SalesInv, InvoicesNamed, OneByOne, NEW o \in Orders
               PROVE  Cardinality(InvoicesOf(o)) <= 1
    BY DEF InvoicedOnce
  <2>1. \A i, k \in InvoicesOf(o) : i = k
    BY DEF InvoicesOf, Rows, SalesInv, SaleDomains, InvoicesNamed, InvoiceOfOrder
  <2>2. CASE InvoicesOf(o) = {}
    BY <2>2, FS_EmptySet
  <2>3. CASE InvoicesOf(o) # {}
    <3>1. PICK i : InvoicesOf(o) = {i}
      BY <2>1, <2>3
    <3>2. Cardinality({i}) = 1
      BY FS_Singleton
    <3> QED BY <3>1, <3>2
  <2> QED BY <2>2, <2>3
<1> QED
  BY <1>1, <1>2, <1>3, SalesAlways, PTL DEF Spec

-----------------------------------------------------------------------------
(* A link that has changed its order leads to an order past CONFIRMED, and *)
(* no other link of that order has changed it.                             *)
AnswerFits(l) ==
  /\ answers[l] \in {0, 1}
  /\ answers[l] = 1 =>
       /\ Exists(links, l) /\ links[l].subject \in Orders
       /\ Exists(orders, links[l].subject) /\ orders[links[l].subject].status # "CONFIRMED"
AnswersFit ==
  /\ \A l \in Links : AnswerFits(l)
  /\ \A k, l \in Links : answers[k] = 1 /\ answers[l] = 1 /\ links[k].subject = links[l].subject => k = l
AnswersCounted == OneByOne => AnswersFit

LEMMA LinkChanges ==
  ASSUME SaleDomains, SaleRows, NEW w, SaleJob(w), SalesNext(w), NEW l \in Links, Exists(links, l)
  PROVE  DeleteQuote(w) \/ (Exists(links', l) /\ links'[l].subject = links[l].subject)
<1>1. CASE UNCHANGED links
  BY <1>1 DEF Exists
<1>2. CASE SendOrderLink(w) \/ MakeQuoteLink(w)
  <2>1. PICK k : k = Fresh(links)
    OBVIOUS
  <2>2. ~Exists(links, k)
    BY <1>2, <2>1, FreshRow DEF SendOrderLink, MakeQuoteLink
  <2>3. links'[l] = links[l]
    BY <1>2, <2>1, <2>2 DEF SendOrderLink, MakeQuoteLink, SaleDomains
  <2> QED BY <2>3 DEF Exists
<1>3. CASE SpendLink(w) \/ SpendQuoteLink(w)
  <2>1. PICK k : k = job[w].link
    OBVIOUS
  <2>2. links' = [links EXCEPT ![k].status = "USED"]
    BY <1>3, <2>1 DEF SpendLink, SpendQuoteLink
  <2>3. links[l] \in PortalToken \cup QuotePortalToken
    BY DEF SaleRows, LinkRows
  <2>4. links'[l] = links[l] \/ links'[l] = [links[l] EXCEPT !.status = "USED"]
    BY <2>2 DEF SaleDomains
  <2>5. links'[l].subject = links[l].subject /\ links'[l].status # "ABSENT"
    BY <2>3, <2>4 DEF PortalToken, QuotePortalToken
  <2> QED BY <2>5 DEF Exists, Absent
<1> QED
  BY <1>1, <1>2, <1>3 DEF SalesNext, OrderNext, CreateOrder, FindOrder, LoadProducts, UpdateOrder, StartProgress,
     MarkDelivered, TransitionOrder, DeleteOrder, ConvertToInvoice, OpenOrderLink, ConfirmOrder, RefuseOrder, NoteNext,
     CreateNote, FindNote, DeliverNote, CancelNote, UpdateNote, DeleteNote, QuoteNext, CreateQuote, FindQuote, UpdateQuote,
     TransitionQuote, MailQuote, QuoteToInvoice, QuoteToOrder, OpenQuoteLink, AnswerQuote, salesVars

LEMMA AnswerChanges ==
  ASSUME NEW w, SalesNext(w)
  PROVE  UNCHANGED answers \/ ConfirmOrder(w) \/ RefuseOrder(w) \/ DeleteQuote(w)
BY DEF SalesNext, OrderNext, CreateOrder, FindOrder, LoadProducts, UpdateOrder, StartProgress, MarkDelivered,
       TransitionOrder, DeleteOrder, ConvertToInvoice, SendOrderLink, OpenOrderLink, SpendLink, NoteNext, CreateNote, FindNote,
       DeliverNote, CancelNote, UpdateNote, DeleteNote, QuoteNext, CreateQuote, FindQuote, UpdateQuote, TransitionQuote,
       MakeQuoteLink, MailQuote, QuoteToInvoice, QuoteToOrder, OpenQuoteLink, AnswerQuote, SpendQuoteLink, salesVars

(* An order past CONFIRMED to which a link leads never is CONFIRMED again. *)
LEMMA PastConfirmed ==
  ASSUME SalesAssumption, SaleDomains, SaleRows, NEW w \in Workers, SaleJob(w), SalesNext(w),
         NEW o \in Orders, Exists(orders, o), orders[o].status # "CONFIRMED",
         NEW l \in Links, Exists(links, l), links[l].subject = o
  PROVE  Exists(orders', o) /\ orders'[o].status # "CONFIRMED"
<1>0. orders[o] \in SalesOrder
  BY DEF SaleRows, OrderRows
<1>1. CASE UNCHANGED orders
  BY <1>1 DEF Exists
<1>2. CASE MakesOne(w)
  <2>1. PICK x, row : Made(x, row)
    BY <1>2 DEF MakesOne
  <2>2. orders'[o] = orders[o]
    BY <2>1 DEF Made, SaleDomains
  <2> QED BY <2>2 DEF Exists
<1>3. CASE SavesOne(w)
  <2>1. PICK x, row : Saved(w, x, row)
    BY <1>3 DEF SavesOne
  <2>2. orders'[o] = IF o = x THEN row ELSE orders[o]
    BY <2>1 DEF Saved, SaleDomains
  <2>3. row \in SalesOrder /\ (row.status = "CONFIRMED" => orders[x].status = "CONFIRMED")
    BY <2>1 DEF Saved
  <2> QED BY <2>2, <2>3 DEF Exists, SalesOrder, Absent
<1>4. CASE ConvertToInvoice(w)
  <2>1. PICK x, seen, i : x = job[w].order /\ seen = job[w].seen /\ i = Fresh(invoices)
    OBVIOUS
  <2>2. orders' = [orders EXCEPT ![x] = [seen EXCEPT !.status = "INVOICED", !.invoice = i]] /\ job[w].op = "convertToInvoice"
    BY <1>4, <2>1 DEF ConvertToInvoice, Doing
  <2>3. x \in Orders /\ seen \in SalesOrder
    BY <2>1, <2>2, OrderRead DEF SaleDomains, OrderOps
  <2>4. orders'[o] = IF o = x THEN [seen EXCEPT !.status = "INVOICED", !.invoice = i] ELSE orders[o]
    BY <2>2 DEF SaleDomains
  <2>5. orders'[o].status # "CONFIRMED" /\ orders'[o].status # "ABSENT"
    BY <1>0, <2>3, <2>4 DEF SalesOrder
  <2> QED BY <2>5 DEF Exists, Absent
<1>5. CASE DeleteOrder(w)
  <2>1. PICK x : x = job[w].order
    OBVIOUS
  <2>2. orders' = [orders EXCEPT ![x] = Absent] /\ Unreferenced(x)
    BY <1>5, <2>1 DEF DeleteOrder
  <2>3. x # o
    BY <2>2 DEF Unreferenced, Rows, SaleDomains
  <2> QED BY <2>2, <2>3 DEF Exists, SaleDomains
<1>6. CASE DeleteQuote(w)
  <2>0. PICK q, forget : q = job[w].quote /\ forget = (job[w].seen.status = "CONVERTED")
    OBVIOUS
  <2>1. orders' = [x \in Orders |-> IF forget /\ Exists(orders, x) /\ orders[x].quote = q
                                    THEN [orders[x] EXCEPT !.quote = None] ELSE orders[x]]
    BY <1>6, <2>0 DEF DeleteQuote
  <2>2. orders'[o].status = orders[o].status
    BY <1>0, <2>1 DEF SalesOrder
  <2> QED BY <1>0, <2>2 DEF Exists, Absent, SalesOrder
<1> QED BY <1>1, <1>2, <1>3, <1>4, <1>5, <1>6, OrderChanges

LEMMA AnswersStayFit ==
  ASSUME SalesAssumption, SaleDomains, SaleDomains', SaleRows, NEW w \in Workers, SaleJob(w), SalesNext(w), AnswersFit
  PROVE  AnswersFit'
<1> DEFINE J == job[w]
<1>1. ASSUME \A l \in Links : answers'[l] = answers[l],
             \A l \in Links : answers[l] = 1 => Exists(links', l) /\ links'[l].subject = links[l].subject
      PROVE  AnswersFit'
  <2>1. ASSUME NEW l \in Links PROVE AnswerFits(l)'
    <3>1. answers'[l] \in {0, 1}
      BY <1>1 DEF AnswersFit, AnswerFits
    <3>2. ASSUME answers'[l] = 1
          PROVE  /\ Exists(links', l) /\ links'[l].subject \in Orders
                 /\ Exists(orders', links'[l].subject) /\ orders'[links'[l].subject].status # "CONFIRMED"
      <4>1. PICK o : o = links[l].subject
        OBVIOUS
      <4>2. /\ answers[l] = 1 /\ Exists(links, l) /\ o \in Orders /\ Exists(orders, o) /\ orders[o].status # "CONFIRMED"
            /\ Exists(links', l) /\ links'[l].subject = o
        BY <1>1, <3>2, <4>1 DEF AnswersFit, AnswerFits
      <4> QED BY <4>1, <4>2, PastConfirmed
    <3> QED BY <3>1, <3>2 DEF AnswerFits
  <2>2. \A k, l \in Links : answers'[k] = 1 /\ answers'[l] = 1 /\ links'[k].subject = links'[l].subject => k = l
    BY <1>1 DEF AnswersFit
  <2> QED BY <2>1, <2>2 DEF AnswersFit
<1>2. CASE UNCHANGED answers /\ ~DeleteQuote(w)
  BY <1>1, <1>2, LinkChanges DEF AnswersFit, AnswerFits
<1>3. CASE DeleteQuote(w)
  <2>1. PICK q, seen : q = J.quote /\ seen = J.seen
    OBVIOUS
  <2>2. /\ links' = [l \in Links |-> IF Exists(links, l) /\ links[l].subject = q THEN Absent ELSE links[l]]
        /\ answers' = [l \in Links |-> IF Exists(links', l) THEN answers[l] ELSE 0]
        /\ J.op = "deleteQuote"
    BY <1>3, <2>1 DEF DeleteQuote, Doing
  <2>3. q \in Quotes
    BY <2>1, <2>2, QuoteRead DEF QuoteOps
  <2>4. \A l \in Links : answers[l] = 1 => links'[l] = links[l] /\ Exists(links', l)
    BY <2>2, <2>3 DEF AnswersFit, AnswerFits, SalesAssumption, Exists
  <2>5. \A l \in Links : answers'[l] = answers[l]
    <3> SUFFICES ASSUME NEW l \in Links PROVE answers'[l] = answers[l]
      OBVIOUS
    <3>1. answers[l] = 0 \/ answers[l] = 1
      BY DEF AnswersFit, AnswerFits
    <3> QED BY <2>2, <2>4, <3>1
  <2> QED BY <1>1, <2>4, <2>5
<1>4. CASE ConfirmOrder(w) \/ RefuseOrder(w)
  <2>1. PICK k, o, seen : k = J.link /\ o = J.order /\ seen = J.seen
    OBVIOUS
  <2>2. PICK status \in {"IN_PROGRESS", "CANCELLED"} :
          /\ orders' = [orders EXCEPT ![o] = [seen EXCEPT !.status = status, !.lines = orders[o].lines]]
          /\ answers' = [answers EXCEPT ![k] = @ + 1] /\ UNCHANGED links /\ J.op \in AnswerOps
    BY <1>4, <2>1 DEF ConfirmOrder, RefuseOrder, AnswerOrder, Doing, AnswerOps
  <2>3. /\ o \in Orders /\ Exists(orders, o) /\ orders[o] = seen /\ seen \in SalesOrder /\ seen.status = "CONFIRMED"
        /\ k \in Links /\ Exists(links, k) /\ links[k].subject = o
    BY <2>1, <2>2, OrderRead DEF SaleDomains, SaleJob
  <2>4. \A l \in Links : answers[l] = 1 => links[l].subject # o
    BY <2>3 DEF AnswersFit, AnswerFits
  <2>5. answers[k] = 0
    BY <2>3, <2>4 DEF AnswersFit, AnswerFits
  <2>6. answers'[k] = 1 /\ \A l \in Links \ {k} : answers'[l] = answers[l]
    BY <2>2, <2>3, <2>5 DEF SaleDomains
  <2>7. /\ orders'[o] = [seen EXCEPT !.status = status, !.lines = orders[o].lines]
        /\ \A x \in Orders \ {o} : orders'[x] = orders[x]
    BY <2>2, <2>3 DEF SaleDomains
  <2>8. orders'[o].status = status /\ Exists(orders', o)
    BY <2>3, <2>7 DEF SalesOrder, Exists, Absent
  <2>9. ASSUME NEW l \in Links PROVE AnswerFits(l)'
    <3>1. CASE l = k
      BY <2>2, <2>3, <2>6, <2>8, <3>1 DEF AnswerFits, Exists
    <3>2. CASE l # k
      BY <2>2, <2>4, <2>6, <2>7, <3>2 DEF AnswersFit, AnswerFits, Exists
    <3> QED BY <3>1, <3>2
  <2>10. \A m, l \in Links : answers'[m] = 1 /\ answers'[l] = 1 /\ links'[m].subject = links'[l].subject => m = l
    BY <2>2, <2>3, <2>4, <2>6 DEF AnswersFit
  <2> QED BY <2>9, <2>10 DEF AnswersFit
<1> QED BY <1>2, <1>3, <1>4, AnswerChanges

LEMMA AnswersStep ==
  ASSUME JobsShape, SalesAssumption, SalesInv, AnswersCounted, [Next]_vars
  PROVE  AnswersCounted'
<1> SUFFICES ASSUME OneByOne' PROVE AnswersFit'
  BY DEF AnswersCounted
<1>0. UNCHANGED salesVars /\ AnswersFit => AnswersFit'
  BY DEF AnswersFit, AnswerFits, Exists, salesVars
<1>1. CASE UNCHANGED <<salesVars, marred>>
  BY <1>0, <1>1 DEF AnswersCounted, OneByOne
<1>2. ASSUME NEW w \in Workers, Acts(w), UNCHANGED salesVars \/ SalesNext(w)
      PROVE  AnswersFit'
  <2>1. OneByOne
    BY <1>2 DEF Acts, OneByOne
  <2>2. SaleDomains /\ SaleRows /\ SaleJob(w) /\ AnswersFit
    BY <2>1 DEF SalesInv, AnswersCounted
  <2>3. SaleDomains'
    BY SalesStep DEF SalesInv
  <2> QED BY <1>0, <1>2, <2>2, <2>3, AnswersStayFit
<1> QED BY <1>1, <1>2, ClientStep DEF Goes, vars, jobVars, NewDay

(* However many links were mailed for an order, one answer at most changes *)
(* it, for any number of orders, links and handlers that do not overlap.   *)
THEOREM AnsweredOnceAlways ==
  ASSUME SalesAssumption PROVE Spec => [](OneByOne => AnsweredOnce)
<1>1. Init => AnswersCounted
  BY DEF Init, SalesInit, AnswersCounted, AnswersFit, AnswerFits
<1>2. JobsShape /\ SalesInv /\ AnswersCounted /\ [Next]_vars => AnswersCounted'
  BY AnswersStep
<1>3. SalesInv /\ AnswersCounted => (OneByOne => AnsweredOnce)
  <2> SUFFICES ASSUME SalesInv, AnswersCounted, OneByOne, NEW o \in Orders
               PROVE  SumFunctionOnSet(answers, {l \in Rows(links) : links[l].subject = o}) <= 1
    BY DEF AnsweredOnce
  <2> DEFINE S == {l \in Rows(links) : links[l].subject = o}
  <2>1. S \subseteq Links
    BY DEF Rows, SalesInv, SaleDomains
  <2>2. IsFiniteSet(S) /\ AnswersFit
    BY <2>1, FS_Subset DEF SalesAssumption, AnswersCounted
  <2>3. \A l \in S : answers[l] = 0 \/ answers[l] = 1
    BY <2>1, <2>2 DEF AnswersFit, AnswerFits
  <2>4. \A k, l \in S : answers[k] = 1 /\ answers[l] = 1 => k = l
    BY <2>1, <2>2 DEF AnswersFit
  <2> HIDE DEF S
  <2>5. CASE \A l \in S : answers[l] = 0
    <3>1. SumFunctionOnSet(answers, S) = 0
      BY <2>2, <2>5, SumOfZeros
    <3> QED BY <3>1 DEF S
  <2>6. CASE \E l \in S : answers[l] = 1
    <3>1. PICK e \in S : answers[e] = 1
      BY <2>6
    <3>2. SumFunctionOnSet(answers, S) = answers[e]
      BY <2>2, <2>3, <2>4, <3>1, SumOfOne
    <3> QED BY <3>1, <3>2 DEF S
  <2> QED BY <2>3, <2>5, <2>6
<1> QED
  BY <1>1, <1>2, <1>3, SalesAlways, PTL DEF Spec

-----------------------------------------------------------------------------
(* A quote accepted by its link has its order, or a handler that has not   *)
(* failed still owes it: between the commit of the answer and that of the  *)
(* order, this handler holds the quote.                                    *)
OwingOps == {"acceptByLink", "quoteToOrder"}
Owed(w, q) == job[w].op \in OwingOps /\ job[w].quote = q /\ (job[w].op = "acceptByLink" => job[w].saved)
Unordered(q) == Exists(quotes, q) /\ quotes[q].byLink /\ quotes[q].order = None
QuotesOrdered == Unmarred => \A q \in Quotes : Unordered(q) => \E w \in Workers : Owed(w, q)

LEMMA OwingSteps ==
  ASSUME NEW w, SalesNext(w), job[w].op \in OwingOps
  PROVE  AnswerQuote(w) \/ SpendQuoteLink(w) \/ QuoteToOrder(w)
<1>0. ~Free(w) /\ (\A j : ~Begin(w, j)) /\ (\A op : ~AtOnce(w, op))
  BY DEF OwingOps, Begin, AtOnce, Free, Idle
<1> USE <1>0 DEF OwingOps, Doing
<1>1. ~OrderNext(w)
  BY DEF OrderNext, CreateOrder, FindOrder, LoadProducts, NeedsShelf, UpdateOrder, StartProgress, MarkDelivered,
     TransitionOrder, DeleteOrder, ConvertToInvoice, SendOrderLink, OpenOrderLink, SpendLink, ConfirmOrder, RefuseOrder
<1>2. ~NoteNext(w)
  BY DEF NoteNext, CreateNote, FindNote, DeliverNote, CancelNote, UpdateNote, DeleteNote
<1>3. QuoteNext(w)
  BY <1>1, <1>2 DEF SalesNext
<1> QED
  BY <1>3 DEF QuoteNext, CreateQuote, FindQuote, UpdateQuote, TransitionQuote, QuoteTransitions, MakeQuoteLink, MailQuote,
     DeleteQuote, QuoteToInvoice, OpenQuoteLink

LEMMA QuoteChanges ==
  ASSUME NEW w, SalesNext(w)
  PROVE  \/ UNCHANGED quotes
         \/ CreateQuote(w) \/ UpdateQuote(w) \/ TransitionQuote(w) \/ MailQuote(w) \/ DeleteQuote(w)
         \/ QuoteToInvoice(w) \/ QuoteToOrder(w) \/ AnswerQuote(w)
BY DEF SalesNext, OrderNext, CreateOrder, FindOrder, LoadProducts, UpdateOrder, StartProgress, MarkDelivered,
       TransitionOrder, DeleteOrder, ConvertToInvoice, SendOrderLink, OpenOrderLink, SpendLink, ConfirmOrder, RefuseOrder,
       NoteNext, CreateNote, FindNote, DeliverNote, CancelNote, UpdateNote, DeleteNote, QuoteNext, FindQuote, MakeQuoteLink,
       OpenQuoteLink, SpendQuoteLink, salesVars

(* Only the answer by a link leaves a quote without the order it asks for. *)
LEMMA NewlyUnordered ==
  ASSUME SalesAssumption, SaleDomains, SaleRows, NEW w \in Workers, SaleJob(w), SalesNext(w), ~AnswerQuote(w),
         NEW q \in Quotes, Unordered(q)'
  PROVE  Unordered(q) /\ ~(QuoteToOrder(w) /\ job[w].quote = q)
<1> DEFINE J == job[w]
<1>1. CASE UNCHANGED quotes /\ ~QuoteToOrder(w)
  BY <1>1 DEF Unordered, Exists
<1>2. CASE CreateQuote(w)
  <2>1. PICK x : x = Fresh(quotes)
    OBVIOUS
  <2>2. PICK lines : quotes' = [quotes EXCEPT ![x] =
          [status |-> "DRAFT", lines |-> lines, order |-> None, invoice |-> None, byLink |-> FALSE]]
    BY <1>2, <2>1 DEF CreateQuote
  <2>3. x # q /\ quotes'[q] = quotes[q]
    BY <2>2 DEF SaleDomains, Unordered
  <2>4. ~QuoteToOrder(w)
    BY <1>2 DEF CreateQuote, QuoteToOrder, AtOnce, Free, Idle, Doing
  <2> QED BY <2>3, <2>4 DEF Unordered, Exists
<1>3. CASE UpdateQuote(w) \/ TransitionQuote(w) \/ MailQuote(w) \/ QuoteToInvoice(w)
  <2>1. PICK x, seen : x = J.quote /\ seen = J.seen
    OBVIOUS
  <2>2. J.op \in QuoteOps \cup {"mailQuote"} /\ J.op # "quoteToOrder"
    BY <1>3 DEF UpdateQuote, TransitionQuote, MailQuote, QuoteToInvoice, Doing, QuoteOps, QuoteTransitions
  <2>3. x \in Quotes /\ Exists(quotes, x) /\ quotes[x] = seen /\ seen \in Quote
    BY <2>1, <2>2, QuoteRead
  <2>4. PICK row : /\ quotes' = [quotes EXCEPT ![x] = row]
                   /\ row.byLink = seen.byLink /\ row.order = seen.order
    <3>1. CASE UpdateQuote(w)
      <4>1. PICK lines : lines = Plus(seen.lines, J.lines)
        OBVIOUS
      <4>2. PICK row : row = [seen EXCEPT !.lines = lines]
        OBVIOUS
      <4>3. quotes' = [quotes EXCEPT ![x] = row]
        BY <2>1, <3>1, <4>1, <4>2 DEF UpdateQuote, SaveQuote
      <4>4. row.byLink = seen.byLink /\ row.order = seen.order
        BY <2>3, <4>2 DEF Quote
      <4> QED BY <4>3, <4>4
    <3>2. CASE TransitionQuote(w) \/ MailQuote(w)
      <4>1. PICK status : quotes' = [quotes EXCEPT ![x] = [seen EXCEPT !.status = status]]
        BY <2>1, <3>2 DEF TransitionQuote, MailQuote, SaveQuote
      <4>2. PICK row : row = [seen EXCEPT !.status = status]
        OBVIOUS
      <4>3. quotes' = [quotes EXCEPT ![x] = row]
        BY <4>1, <4>2
      <4>4. row.byLink = seen.byLink /\ row.order = seen.order
        BY <2>3, <4>2 DEF Quote
      <4> QED BY <4>3, <4>4
    <3>3. CASE QuoteToInvoice(w)
      <4>1. PICK i : i = Fresh(invoices)
        OBVIOUS
      <4>2. PICK row : row = [seen EXCEPT !.status = "CONVERTED", !.invoice = i]
        OBVIOUS
      <4>3. quotes' = [quotes EXCEPT ![x] = row]
        BY <2>1, <3>3, <4>1, <4>2 DEF QuoteToInvoice, SaveQuote
      <4>4. row.byLink = seen.byLink /\ row.order = seen.order
        BY <2>3, <4>2 DEF Quote
      <4> QED BY <4>3, <4>4
    <3> QED BY <1>3, <3>1, <3>2, <3>3
  <2>5. quotes'[q] = IF q = x THEN row ELSE quotes[q]
    BY <2>4 DEF SaleDomains
  <2>6. ~QuoteToOrder(w)
    BY <2>2 DEF QuoteToOrder, Doing
  <2> QED BY <2>3, <2>4, <2>5, <2>6 DEF Unordered, Exists
<1>4. CASE DeleteQuote(w)
  <2>1. PICK x : x = J.quote
    OBVIOUS
  <2>2. quotes' = [quotes EXCEPT ![x] = Absent] /\ J.op = "deleteQuote"
    BY <1>4, <2>1 DEF DeleteQuote, Doing
  <2>3. quotes'[q] = quotes[q]
    BY <2>2 DEF SaleDomains, Unordered, Exists
  <2> QED BY <2>2, <2>3 DEF Unordered, Exists, QuoteToOrder, Doing
<1>5. CASE QuoteToOrder(w)
  <2>1. PICK x, seen, o : x = J.quote /\ seen = J.seen /\ o = NewOrder
    OBVIOUS
  <2>2. PICK row : row = [seen EXCEPT !.order = o]
    OBVIOUS
  <2>3. quotes' = [quotes EXCEPT ![x] = row] /\ o \in Orders /\ J.op = "quoteToOrder"
    BY <1>5, <2>1, <2>2, FreshOrder DEF QuoteToOrder, SaveQuote, Doing
  <2>4. x \in Quotes /\ seen \in Quote
    BY <2>1, <2>3, QuoteRead DEF QuoteOps
  <2>5. row.order = o /\ quotes'[x] = row
    BY <2>2, <2>3, <2>4 DEF Quote, SaleDomains
  <2>6. q # x /\ quotes'[q] = quotes[q]
    BY <2>3, <2>4, <2>5 DEF SaleDomains, Unordered, SalesAssumption
  <2> QED BY <2>1, <2>6 DEF Unordered, Exists
<1> QED BY <1>1, <1>2, <1>3, <1>4, <1>5, QuoteChanges

LEMMA QuotesStayOrdered ==
  ASSUME SalesAssumption, SaleDomains, SaleRows, NEW w \in Workers, SaleJob(w), SalesNext(w), Goes(w, SalesOps),
         JobsShape, \A q \in Quotes : Unordered(q) => \E v \in Workers : Owed(v, q),
         NEW q \in Quotes, Unordered(q)'
  PROVE  \E v \in Workers : Owed(v, q)'
<1> DEFINE J == job[w]
<1>0. \A v \in Workers \ {w} : job'[v] = job[v]
  BY DEF Goes, Acts
<1>1. CASE AnswerQuote(w)
  <2>0. PICK x, row : x = J.quote /\ row = quotes'[x]
    OBVIOUS
  <2>1. J.op \in LinkOps /\ ~J.saved /\ Continue(w, [J EXCEPT !.saved = TRUE])
    BY <1>1 DEF AnswerQuote, LinkOps
  <2>2. x \in Quotes /\ DOMAIN J = {"op", "link", "quote", "seen", "saved", "lines"} /\ J.seen = quotes[x] /\ Exists(quotes, x)
    BY <2>0, <2>1 DEF SaleJob
  <2>3. quotes[x] \in Quote
    BY <2>2 DEF SaleRows, QuoteRows
  <2>4. PICK lines, status : quotes' = [quotes EXCEPT ![x] = [J.seen EXCEPT !.status = status, !.byLink = (J.op = "acceptByLink"), !.lines = lines]]
    <3>1. PICK lines : lines = IF Exists(quotes, x) THEN quotes[x].lines ELSE J.seen.lines
      OBVIOUS
    <3>2. PICK status : status = IF Doing(w, "acceptByLink") THEN "ACCEPTED" ELSE "REJECTED"
      OBVIOUS
    <3> QED BY <1>1, <2>0, <3>1, <3>2 DEF AnswerQuote, SaveQuote, Doing
  <2>5. job'[w] = [J EXCEPT !.saved = TRUE]
    <3>1. "op" \in DOMAIN [J EXCEPT !.saved = TRUE]
      BY <2>2
    <3> QED BY <2>1, <3>1, ContinueActs DEF LinkOps
  <2>6. CASE q = x
    <3>1. quotes'[q].byLink = (J.op = "acceptByLink")
      BY <2>2, <2>3, <2>4, <2>6 DEF SaleDomains, Quote
    <3>2. J.op = "acceptByLink"
      BY <3>1 DEF Unordered
    <3>3. job'[w].op = J.op /\ job'[w].quote = x /\ job'[w].saved
      BY <2>0, <2>2, <2>5
    <3> QED BY <2>6, <3>2, <3>3 DEF Owed, OwingOps
  <2>7. CASE q # x
    <3>1. Unordered(q)
      BY <2>4, <2>7 DEF SaleDomains, Unordered, Exists
    <3>2. PICK v \in Workers : Owed(v, q)
      BY <3>1
    <3>3. v # w
      BY <2>0, <2>7, <3>2 DEF Owed
    <3> QED BY <1>0, <3>2, <3>3 DEF Owed
  <2> QED BY <2>6, <2>7
<1>2. CASE ~AnswerQuote(w)
  <2>1. Unordered(q) /\ ~(QuoteToOrder(w) /\ job[w].quote = q)
    BY <1>2, NewlyUnordered
  <2>2. PICK v \in Workers : Owed(v, q)
    BY <2>1
  <2>3. CASE v # w
    BY <1>0, <2>2, <2>3 DEF Owed
  <2>4. CASE v = w
    <3>1. SpendQuoteLink(w) /\ J.op = "acceptByLink" /\ J.saved /\ J.quote = q
      BY <1>2, <2>1, <2>2, <2>4, OwingSteps DEF Owed, SpendQuoteLink, OwingOps
    <3>2. PICK row : row = quotes[q]
      OBVIOUS
    <3>3. quotes[q].status = "ACCEPTED" /\ DOMAIN J = {"op", "link", "quote", "seen", "saved", "lines"}
      BY <3>1 DEF SaleJob, LinkOps
    <3>4. Continue(w, [J EXCEPT !.op = "quoteToOrder", !.seen = row])
      BY <3>1, <3>2, <3>3 DEF SpendQuoteLink, MakesOrder
    <3>5. job'[w] = [J EXCEPT !.op = "quoteToOrder", !.seen = row]
      <4>1. "op" \in DOMAIN [J EXCEPT !.op = "quoteToOrder", !.seen = row]
        BY <3>3
      <4> QED BY <3>1, <3>4, <4>1, ContinueActs
    <3>6. job'[w].op = "quoteToOrder" /\ job'[w].quote = q
      BY <3>1, <3>3, <3>5
    <3> QED BY <3>6 DEF Owed, OwingOps
  <2> QED BY <2>3, <2>4
<1> QED BY <1>1, <1>2

LEMMA QuotesStep ==
  ASSUME JobsShape, SalesAssumption, SalesInv, QuotesOrdered, [Next]_vars
  PROVE  QuotesOrdered'
<1> SUFFICES ASSUME Unmarred', NEW q \in Quotes, Unordered(q)' PROVE \E v \in Workers : Owed(v, q)'
  BY DEF QuotesOrdered
<1>1. CASE UNCHANGED <<salesVars, jobVars>>
  <2>1. Unordered(q) /\ Unmarred
    BY <1>1 DEF Unordered, Exists, salesVars, jobVars, Unmarred
  <2>2. PICK v \in Workers : Owed(v, q)
    BY <2>1 DEF QuotesOrdered
  <2>3. Owed(v, q)'
    BY <1>1, <2>2 DEF Owed, jobVars
  <2> QED BY <2>3
<1>2. ASSUME NEW w \in Workers, Goes(w, StockOps) \/ Goes(w, NightOps), UNCHANGED salesVars
      PROVE  \E v \in Workers : Owed(v, q)'
  <2>1. Unordered(q) /\ Unmarred
    BY <1>2 DEF Unordered, Exists, salesVars, Goes, Acts, Unmarred
  <2>2. PICK v \in Workers : Owed(v, q)
    BY <2>1 DEF QuotesOrdered
  <2>3. v # w
    <3>1. job[w].op \notin SalesOps
      BY <1>2, OpsApart DEF Goes
    <3> QED BY <2>2, <3>1 DEF Owed, OwingOps, SalesOps, LinkOps, QuoteOps
  <2>4. Owed(v, q)'
    BY <1>2, <2>2, <2>3 DEF Owed, Goes, Acts
  <2> QED BY <2>4
<1>3. ASSUME NEW w \in Workers, SalesNext(w), Goes(w, SalesOps)
      PROVE  \E v \in Workers : Owed(v, q)'
  <2>1. Unmarred /\ OneByOne
    BY <1>3 DEF Goes, Acts, Unmarred, OneByOne
  <2>2. SaleDomains /\ SaleRows /\ SaleJob(w)
    BY <2>1 DEF SalesInv
  <2> QED BY <1>3, <2>1, <2>2, QuotesStayOrdered DEF QuotesOrdered
<1> QED BY <1>1, <1>2, <1>3, ClientStep DEF vars, jobVars, NewDay, Unmarred

(* Only convertToOrder gives a quote an order. *)
LEMMA QuoteKeepsOrder ==
  ASSUME SalesAssumption, SaleDomains, SaleRows, NEW w \in Workers, SaleJob(w), SalesNext(w), ~QuoteToOrder(w)
  PROVE  \A q \in Quotes : Exists(quotes', q) /\ quotes'[q].order # None =>
           Exists(quotes, q) /\ quotes'[q].order = quotes[q].order
<1> DEFINE J == job[w]
<1>1. ASSUME NEW x \in Quotes, NEW row, quotes' = [quotes EXCEPT ![x] = row],
             (Exists(quotes, x) /\ row.order = quotes[x].order) \/ row.order = None
      PROVE  \A q \in Quotes : Exists(quotes', q) /\ quotes'[q].order # None =>
               Exists(quotes, q) /\ quotes'[q].order = quotes[q].order
  <2>1. \A q \in Quotes : quotes'[q] = IF q = x THEN row ELSE quotes[q]
    BY <1>1 DEF SaleDomains
  <2> QED BY <1>1, <2>1 DEF Exists
<1>2. CASE UNCHANGED quotes
  BY <1>2 DEF Exists
<1>3. CASE CreateQuote(w)
  <2>1. PICK x : x = Fresh(quotes)
    OBVIOUS
  <2>2. PICK row : quotes' = [quotes EXCEPT ![x] = row] /\ row.order = None
    <3>1. PICK lines : quotes' = [quotes EXCEPT ![x] =
            [status |-> "DRAFT", lines |-> lines, order |-> None, invoice |-> None, byLink |-> FALSE]]
      BY <1>3, <2>1 DEF CreateQuote
    <3> DEFINE new == [status |-> "DRAFT", lines |-> lines, order |-> None, invoice |-> None, byLink |-> FALSE]
    <3>2. quotes' = [quotes EXCEPT ![x] = new]
      BY <3>1
    <3>3. new.order = None
      OBVIOUS
    <3> HIDE DEF new
    <3> QED BY <3>2, <3>3
  <2>3. x \in Quotes
    BY <1>3, <2>1, FreshRow DEF CreateQuote, SaleDomains
  <2> QED BY <1>1, <2>2, <2>3
<1>4. CASE UpdateQuote(w) \/ TransitionQuote(w) \/ MailQuote(w) \/ QuoteToInvoice(w)
  <2>1. PICK x, seen : x = J.quote /\ seen = J.seen
    OBVIOUS
  <2>2. J.op \in QuoteOps \cup {"mailQuote"}
    BY <1>4 DEF UpdateQuote, TransitionQuote, MailQuote, QuoteToInvoice, Doing, QuoteOps, QuoteTransitions
  <2>3. x \in Quotes /\ Exists(quotes, x) /\ quotes[x] = seen /\ seen \in Quote
    BY <2>1, <2>2, QuoteRead
  <2>4. PICK row : quotes' = [quotes EXCEPT ![x] = row] /\ row.order = seen.order
    <3>1. PICK lines, status, invoice :
            /\ lines = Plus(seen.lines, J.lines) /\ invoice = Fresh(invoices)
            /\ status = IF J.op = "mailQuote" THEN "SENT" ELSE QuoteTarget(J.op)
      OBVIOUS
    <3>2. PICK r1, r2, r3 : /\ r1 = [seen EXCEPT !.lines = lines] /\ r2 = [seen EXCEPT !.status = status]
                            /\ r3 = [seen EXCEPT !.status = "CONVERTED", !.invoice = invoice]
      OBVIOUS
    <3>3. r1.order = seen.order /\ r2.order = seen.order /\ r3.order = seen.order
      BY <2>3, <3>2 DEF Quote
    <3>4. UpdateQuote(w) => quotes' = [quotes EXCEPT ![x] = r1]
      BY <2>1, <3>1, <3>2 DEF UpdateQuote, SaveQuote
    <3>5. TransitionQuote(w) \/ MailQuote(w) => quotes' = [quotes EXCEPT ![x] = r2]
      BY <2>1, <3>1, <3>2 DEF TransitionQuote, MailQuote, SaveQuote, QuoteTransitions, Doing
    <3>6. QuoteToInvoice(w) => quotes' = [quotes EXCEPT ![x] = r3]
      BY <2>1, <3>1, <3>2 DEF QuoteToInvoice, SaveQuote
    <3> QED BY <1>4, <3>3, <3>4, <3>5, <3>6
  <2> QED BY <1>1, <2>3, <2>4
<1>5. CASE AnswerQuote(w)
  <2>1. PICK x, seen, status, accepted, lines :
          /\ x = J.quote /\ seen = J.seen /\ accepted = Doing(w, "acceptByLink")
          /\ status = (IF accepted THEN "ACCEPTED" ELSE "REJECTED")
          /\ lines = IF Exists(quotes, x) THEN quotes[x].lines ELSE seen.lines
    OBVIOUS
  <2>2. J.op \in LinkOps /\ ~J.saved
    BY <1>5 DEF AnswerQuote, LinkOps
  <2>3. x \in Quotes /\ Exists(quotes, x) /\ seen = quotes[x] /\ seen \in Quote
    BY <2>1, <2>2 DEF SaleJob, SaleRows, QuoteRows
  <2>4. PICK row : row = [seen EXCEPT !.status = status, !.byLink = accepted, !.lines = lines]
    OBVIOUS
  <2>5. quotes' = [quotes EXCEPT ![x] = row]
    BY <1>5, <2>1, <2>4 DEF AnswerQuote, SaveQuote
  <2>6. row.order = seen.order
    BY <2>3, <2>4 DEF Quote
  <2> QED BY <1>1, <2>3, <2>5, <2>6
<1>6. CASE DeleteQuote(w)
  <2>1. PICK x : x = J.quote
    OBVIOUS
  <2>2. quotes' = [quotes EXCEPT ![x] = Absent]
    BY <1>6, <2>1 DEF DeleteQuote
  <2>3. \A q \in Quotes : q # x => quotes'[q] = quotes[q]
    BY <2>2 DEF SaleDomains
  <2> QED BY <2>2, <2>3 DEF SaleDomains, Exists
<1> QED BY <1>2, <1>3, <1>4, <1>5, <1>6, QuoteChanges

(* An order that a quote names, and that is still there, names the quote.  *)
NamesItsOrder(q) ==
  Exists(quotes, q) /\ quotes[q].order \in Orders /\ Exists(orders, quotes[q].order) =>
    orders[quotes[q].order].quote = q
QuotesNamed == OneByOne => \A q \in Quotes : NamesItsOrder(q)

LEMMA QuotesStayNamed ==
  ASSUME SalesAssumption, SaleDomains, SaleRows, NEW w \in Workers, SaleJob(w), SalesNext(w),
         \A q \in Quotes : NamesItsOrder(q)
  PROVE  \A q \in Quotes : NamesItsOrder(q)'
<1> DEFINE J == job[w]
<1>1. CASE QuoteToOrder(w)
  <2>1. PICK x, seen, o : x = J.quote /\ seen = J.seen /\ o = NewOrder
    OBVIOUS
  <2>2. PICK order, quote : /\ order = [status |-> "CONFIRMED", lines |-> seen.lines, invoice |-> None, quote |-> x]
                            /\ quote = [seen EXCEPT !.order = o]
    OBVIOUS
  <2>3. /\ orders' = [orders EXCEPT ![o] = order] /\ quotes' = [quotes EXCEPT ![x] = quote]
        /\ J.op = "quoteToOrder" /\ o \in Orders /\ \A q \in Rows(quotes) : quotes[q].order # o
    BY <1>1, <2>1, <2>2, FreshOrder DEF QuoteToOrder, SaveQuote, Doing
  <2>4. x \in Quotes /\ seen \in Quote
    BY <2>1, <2>3, QuoteRead DEF QuoteOps
  <2>5. quote.order = o /\ order.quote = x
    BY <2>2, <2>4 DEF Quote
  <2>6. /\ \A q \in Quotes : quotes'[q] = IF q = x THEN quote ELSE quotes[q]
        /\ \A y \in Orders : orders'[y] = IF y = o THEN order ELSE orders[y]
    BY <2>3 DEF SaleDomains
  <2>7. ASSUME NEW q \in Quotes PROVE NamesItsOrder(q)'
    <3>1. CASE q = x
      BY <2>3, <2>4, <2>5, <2>6, <3>1 DEF NamesItsOrder
    <3>2. CASE q # x
      <4>1. quotes'[q] = quotes[q] /\ (Exists(quotes, q) => quotes[q].order # o)
        BY <2>3, <2>6, <3>2 DEF Rows, SaleDomains
      <4> QED BY <2>6, <4>1 DEF NamesItsOrder, Exists
    <3> QED BY <3>1, <3>2
  <2> QED BY <2>7
<1>2. CASE CreateOrder(w)
  <2>1. PICK o : o = NewOrder
    OBVIOUS
  <2>2. o \in Orders /\ \A q \in Rows(quotes) : quotes[q].order # o
    BY <1>2, <2>1, FreshOrder DEF CreateOrder
  <2>3. UNCHANGED quotes /\ \A y \in Orders : y # o => orders'[y] = orders[y]
    BY <1>2, <2>1 DEF CreateOrder, SaleDomains
  <2>4. ASSUME NEW q \in Quotes PROVE NamesItsOrder(q)'
    <3>1. Exists(quotes, q) => quotes[q].order # o
      BY <2>2 DEF Rows, SaleDomains
    <3> QED BY <2>3, <3>1 DEF NamesItsOrder, Exists
  <2> QED BY <2>4
<1>3. CASE DeleteQuote(w)
  <2>0. PICK x, forget : x = J.quote /\ forget = (J.seen.status = "CONVERTED")
    OBVIOUS
  <2>1. /\ orders' = [o \in Orders |-> IF forget /\ Exists(orders, o) /\ orders[o].quote = x
                                       THEN [orders[o] EXCEPT !.quote = None] ELSE orders[o]]
        /\ quotes' = [quotes EXCEPT ![x] = Absent]
    BY <1>3, <2>0 DEF DeleteQuote
  <2>2. ASSUME NEW q \in Quotes, Exists(quotes', q), quotes'[q].order \in Orders, Exists(orders', quotes'[q].order)
        PROVE  orders'[quotes'[q].order].quote = q
    <3>1. PICK o : o = quotes'[q].order
      OBVIOUS
    <3>2. q # x /\ quotes'[q] = quotes[q]
      BY <2>1, <2>2 DEF SaleDomains, Exists
    <3>3. Exists(orders, o) /\ Exists(quotes, q) /\ o = quotes[q].order /\ o \in Orders
      BY <2>1, <2>2, <3>1, <3>2 DEF Exists, SaleDomains
    <3>4. orders[o].quote = q
      BY <3>3 DEF NamesItsOrder
    <3> QED BY <2>1, <3>1, <3>2, <3>3, <3>4
  <2> QED BY <2>2 DEF NamesItsOrder
<1>4. CASE ~QuoteToOrder(w) /\ ~CreateOrder(w) /\ ~DeleteQuote(w)
  <2>1. \A o \in Orders : Exists(orders', o) => Exists(orders, o) /\ orders'[o].quote = orders[o].quote
    <3>1. CASE UNCHANGED orders
      BY <3>1 DEF Exists
    <3>2. CASE SavesOne(w)
      <4>1. PICK o, row : Saved(w, o, row)
        BY <3>2 DEF SavesOne
      <4>2. \A x \in Orders : orders'[x] = IF x = o THEN row ELSE orders[x]
        BY <4>1 DEF Saved, SaleDomains
      <4> QED BY <4>1, <4>2 DEF Saved, Exists
    <3>3. CASE ConvertToInvoice(w)
      <4>1. PICK x, seen, i : x = J.order /\ seen = J.seen /\ i = Fresh(invoices)
        OBVIOUS
      <4>2. PICK row : row = [seen EXCEPT !.status = "INVOICED", !.invoice = i]
        OBVIOUS
      <4>3. orders' = [orders EXCEPT ![x] = row] /\ J.op = "convertToInvoice"
        BY <3>3, <4>1, <4>2 DEF ConvertToInvoice, Doing
      <4>4. x \in Orders /\ Exists(orders, x) /\ orders[x] = seen /\ seen \in SalesOrder
        BY <4>1, <4>3, OrderRead DEF SaleDomains, OrderOps
      <4>5. row.quote = seen.quote
        BY <4>2, <4>4 DEF SalesOrder
      <4>6. \A o \in Orders : orders'[o] = IF o = x THEN row ELSE orders[o]
        BY <4>3 DEF SaleDomains
      <4> QED BY <4>4, <4>5, <4>6 DEF Exists
    <3>4. CASE DeleteOrder(w)
      <4>1. PICK x : x = J.order
        OBVIOUS
      <4>2. orders' = [orders EXCEPT ![x] = Absent]
        BY <3>4, <4>1 DEF DeleteOrder
      <4>3. \A o \in Orders : o # x => orders'[o] = orders[o]
        BY <4>2 DEF SaleDomains
      <4>4. \A o \in Orders : o = x => orders'[o] = Absent
        BY <4>2 DEF SaleDomains
      <4> QED BY <4>3, <4>4 DEF Exists
    <3> QED BY <1>4, <3>1, <3>2, <3>3, <3>4, OrderChanges DEF MakesOne
  <2>2. ASSUME NEW q \in Quotes, Exists(quotes', q), quotes'[q].order \in Orders, Exists(orders', quotes'[q].order)
        PROVE  orders'[quotes'[q].order].quote = q
    <3>1. Exists(quotes, q) /\ quotes'[q].order = quotes[q].order
      BY <1>4, <2>2, QuoteKeepsOrder DEF SalesAssumption
    <3>2. Exists(orders, quotes[q].order) /\ quotes[q].order \in Orders
      BY <2>1, <2>2, <3>1
    <3> QED BY <2>1, <2>2, <3>1, <3>2 DEF NamesItsOrder
  <2> QED BY <2>2 DEF NamesItsOrder
<1> QED BY <1>1, <1>2, <1>3, <1>4

LEMMA QuotesNamedStep ==
  ASSUME JobsShape, SalesAssumption, SalesInv, QuotesNamed, [Next]_vars
  PROVE  QuotesNamed'
<1> SUFFICES ASSUME OneByOne' PROVE \A q \in Quotes : NamesItsOrder(q)'
  BY DEF QuotesNamed
<1>0. UNCHANGED salesVars /\ (\A q \in Quotes : NamesItsOrder(q)) => \A q \in Quotes : NamesItsOrder(q)'
  BY DEF NamesItsOrder, Exists, salesVars
<1>1. CASE UNCHANGED <<salesVars, marred>>
  BY <1>0, <1>1 DEF QuotesNamed, OneByOne
<1>2. ASSUME NEW w \in Workers, Acts(w), UNCHANGED salesVars \/ SalesNext(w)
      PROVE  \A q \in Quotes : NamesItsOrder(q)'
  <2>1. OneByOne
    BY <1>2 DEF Acts, OneByOne
  <2>2. SaleDomains /\ SaleRows /\ SaleJob(w) /\ \A q \in Quotes : NamesItsOrder(q)
    BY <2>1 DEF SalesInv, QuotesNamed
  <2> QED BY <1>0, <1>2, <2>2, QuotesStayNamed
<1> QED BY <1>1, <1>2, ClientStep DEF Goes, vars, jobVars, NewDay

(* A quote that a client accepted by its link names an order made for it,  *)
(* which names the quote unless it was deleted, for any number of quotes   *)
(* and of handlers, when none overlapped and none failed between the three *)
(* commits of the answer.                                                  *)
THEOREM AcceptedQuotesOrdered ==
  ASSUME SalesAssumption PROVE Spec => []AcceptedQuoteHasOrder
<1>1. Init => QuotesOrdered /\ QuotesNamed
  BY DEF Init, SalesInit, QuotesOrdered, Unordered, QuotesNamed, NamesItsOrder, Exists
<1>2. JobsShape /\ SalesInv /\ QuotesOrdered /\ QuotesNamed /\ [Next]_vars => (QuotesOrdered /\ QuotesNamed)'
  BY QuotesStep, QuotesNamedStep
<1>3. SalesInv /\ QuotesOrdered /\ QuotesNamed => AcceptedQuoteHasOrder
  <2> SUFFICES ASSUME SalesInv, QuotesOrdered, QuotesNamed, Settled, NEW q \in Rows(quotes),
                      quotes[q].status = "ACCEPTED", quotes[q].byLink
               PROVE  /\ quotes[q].order # None
                      /\ Exists(orders, quotes[q].order) => orders[quotes[q].order].quote = q
    BY DEF AcceptedQuoteHasOrder
  <2>1. q \in Quotes /\ Exists(quotes, q) /\ Unmarred /\ OneByOne
    BY DEF Rows, SalesInv, SaleDomains, Unmarred, OneByOne, Settled
  <2>2. ASSUME quotes[q].order = None PROVE FALSE
    <3>1. PICK v \in Workers : Owed(v, q)
      BY <2>1, <2>2 DEF QuotesOrdered, Unordered
    <3> QED BY <3>1 DEF Owed, OwingOps, Settled, AllFree, Free, Idle
  <2>3. quotes[q].order # None => quotes[q].order \in Orders
    BY <2>1 DEF SalesInv, SaleRows, QuoteRows, Quote
  <2> QED BY <2>1, <2>2, <2>3 DEF QuotesNamed, NamesItsOrder
<1> QED
  BY <1>1, <1>2, <1>3, SalesAlways, PTL DEF Spec

-----------------------------------------------------------------------------
(* Sums of the quantities of movements.                                    *)
LEMMA SumSplit ==
  ASSUME NEW f, NEW S, IsFiniteSet(S), \A x \in S : f[x] \in Int, NEW G \in SUBSET S
  PROVE  SumFunctionOnSet(f, S) = SumFunctionOnSet(f, G) + SumFunctionOnSet(f, S \ G)
<1> DEFINE Sum(T) == SumFunctionOnSet(f, T)
           Bad == {T \in SUBSET S : Sum(S) # Sum(T) + Sum(S \ T)}
<1>1. \A T \in SUBSET S : IsFiniteSet(T) /\ Sum(T) \in Int
  <2> SUFFICES ASSUME NEW T \in SUBSET S PROVE IsFiniteSet(T) /\ Sum(T) \in Int
    OBVIOUS
  <2>1. IsFiniteSet(T) /\ \A x \in T : f[x] \in Int
    BY FS_Subset
  <2> QED BY <2>1, SumType
<1>2. SUFFICES ASSUME Bad # {} PROVE FALSE
  OBVIOUS
<1>3. PICK T \in Bad : \A U \in SUBSET T : U # T => U \notin Bad
  <2>1. Bad \subseteq SUBSET S
    OBVIOUS
  <2> HIDE DEF Bad
  <2> QED BY <1>2, <2>1, LeastSubset
<1>4. T # {}
  <2> SUFFICES ASSUME T = {} PROVE FALSE
    OBVIOUS
  <2>1. Sum({}) = 0 /\ Sum(S) \in Int /\ S \ T = S
    BY <1>1, SumEmpty
  <2>2. Sum(T) = 0 /\ Sum(S \ T) = Sum(S)
    BY <2>1
  <2>3. Sum(S) # Sum(T) + Sum(S \ T)
    BY <1>3
  <2> HIDE DEF Sum
  <2> QED BY <2>1, <2>2, <2>3
<1>5. PICK e : e \in T
  BY <1>4
<1> DEFINE U == T \ {e}
<1>6. Sum(S) = Sum(U) + Sum(S \ U)
  <2>1. U \in SUBSET T /\ U # T /\ U \in SUBSET S
    BY <1>3, <1>5
  <2> QED BY <1>3, <2>1
<1>7. Sum(T) = f[e] + Sum(U)
  <2>1. IsFiniteSet(T) /\ \A x \in T : f[x] \in Int
    BY <1>1, <1>3
  <2> QED BY <1>5, <2>1, SumRemove
<1>8. Sum(S \ U) = f[e] + Sum(S \ T)
  <2>1. e \in S \ U /\ (S \ U) \ {e} = S \ T /\ S \ U \in SUBSET S
    BY <1>3, <1>5
  <2>2. IsFiniteSet(S \ U) /\ \A x \in S \ U : f[x] \in Int
    BY <1>1, <2>1
  <2>3. Sum(S \ U) = f[e] + Sum((S \ U) \ {e})
    BY <2>1, <2>2, SumRemove
  <2> QED BY <2>1, <2>3
<1>9. f[e] \in Int /\ Sum(U) \in Int /\ Sum(S \ T) \in Int
  BY <1>1, <1>3, <1>5
<1>10. Sum(S) # Sum(T) + Sum(S \ T)
  BY <1>3
<1> HIDE DEF Sum
<1> QED BY <1>6, <1>7, <1>8, <1>9, <1>10

LEMMA QuantityGrows ==
  ASSUME NEW t1, NEW t2, NEW S, IsFiniteSet(S), NEW e, e \notin S,
         \A m \in S : t1[m].quantity \in Int /\ t2[m] = t1[m], t2[e].quantity \in Int
  PROVE  Quantity(t2, S \cup {e}) = Quantity(t1, S) + t2[e].quantity
<1> DEFINE f == [m \in S |-> t1[m].quantity]
           h == [m \in S \cup {e} |-> t2[m].quantity]
<1>1. (\A m \in S : f[m] \in Int /\ h[m] = f[m]) /\ h[e] \in Int /\ h[e] = t2[e].quantity
  OBVIOUS
<1> HIDE DEF f, h
<1>2. SumFunctionOnSet(h, S \cup {e}) = SumFunctionOnSet(f, S) + h[e]
  BY <1>1, SumGrows
<1> QED BY <1>1, <1>2 DEF Quantity, f, h

LEMMA QuantitySame ==
  ASSUME NEW t1, NEW t2, NEW S, IsFiniteSet(S), \A m \in S : t2[m].quantity = t1[m].quantity
  PROVE  Quantity(t2, S) = Quantity(t1, S)
<1>1. [m \in S |-> t2[m].quantity] = [m \in S |-> t1[m].quantity]
  OBVIOUS
<1> QED BY <1>1 DEF Quantity

LEMMA QuantityType ==
  ASSUME NEW t, NEW S, IsFiniteSet(S), \A m \in S : t[m].quantity \in Int
  PROVE  Quantity(t, S) \in Int
<1>1. \A m \in S : [x \in S |-> t[x].quantity][m] \in Int
  OBVIOUS
<1> QED BY <1>1, SumType DEF Quantity

LEMMA QuantitySplit ==
  ASSUME NEW t, NEW S, IsFiniteSet(S), \A m \in S : t[m].quantity \in Int, NEW G \in SUBSET S
  PROVE  Quantity(t, S) = Quantity(t, G) + Quantity(t, S \ G)
<1> DEFINE f == [m \in S |-> t[m].quantity]
           g == [m \in G |-> t[m].quantity]
           h == [m \in S \ G |-> t[m].quantity]
<1>1. (\A m \in S : f[m] \in Int) /\ (\A m \in G : f[m] = g[m]) /\ (\A m \in S \ G : f[m] = h[m])
  OBVIOUS
<1>2. IsFiniteSet(G) /\ IsFiniteSet(S \ G)
  BY FS_Subset
<1> HIDE DEF f, g, h
<1>3. SumFunctionOnSet(f, S) = SumFunctionOnSet(f, G) + SumFunctionOnSet(f, S \ G)
  BY <1>1, SumSplit
<1>4. SumFunctionOnSet(f, G) = SumFunctionOnSet(g, G) /\ SumFunctionOnSet(f, S \ G) = SumFunctionOnSet(h, S \ G)
  BY <1>1, <1>2, SumOfEqual
<1> QED BY <1>3, <1>4 DEF Quantity, f, g, h

(* Quantities that are never positive add up to one of them or to less.    *)
LEMMA QuantityAtMost ==
  ASSUME NEW t, NEW S, IsFiniteSet(S), \A m \in S : t[m].quantity \in Int /\ t[m].quantity <= 0
  PROVE  Quantity(t, S) \in Int /\ Quantity(t, S) <= 0 /\ \A e \in S : Quantity(t, S) <= t[e].quantity
<1> DEFINE Bad == {T \in SUBSET S : ~(Quantity(t, T) <= 0)}
<1>0. \A T \in SUBSET S : IsFiniteSet(T) /\ Quantity(t, T) \in Int
  <2> SUFFICES ASSUME NEW T \in SUBSET S PROVE IsFiniteSet(T) /\ Quantity(t, T) \in Int
    OBVIOUS
  <2>1. IsFiniteSet(T)
    BY FS_Subset
  <2> QED BY <2>1, QuantityType
<1>1. \A T \in SUBSET S : \A e \in T : Quantity(t, T) = t[e].quantity + Quantity(t, T \ {e})
  <2> SUFFICES ASSUME NEW T \in SUBSET S, NEW e \in T
               PROVE  Quantity(t, T) = t[e].quantity + Quantity(t, T \ {e})
    OBVIOUS
  <2> DEFINE U == T \ {e}
  <2>1. IsFiniteSet(U) /\ e \notin U /\ U \cup {e} = T /\ Quantity(t, U) \in Int
    BY <1>0
  <2>2. \A m \in U : t[m].quantity \in Int /\ t[m] = t[m]
    OBVIOUS
  <2>3. t[e].quantity \in Int
    OBVIOUS
  <2> HIDE DEF U
  <2>4. Quantity(t, U \cup {e}) = Quantity(t, U) + t[e].quantity
    BY <2>1, <2>2, <2>3, QuantityGrows
  <2>5. Quantity(t, T) = t[e].quantity + Quantity(t, U)
    <3>1. Quantity(t, T) = Quantity(t, U) + t[e].quantity
      BY <2>1, <2>4
    <3>2. \A a, b \in Int : a + b = b + a
      OBVIOUS
    <3> QED BY <2>1, <2>3, <3>1, <3>2
  <2> QED BY <2>5 DEF U
<1>2. Bad = {}
  <2> SUFFICES ASSUME Bad # {} PROVE FALSE
    OBVIOUS
  <2>1. PICK T \in Bad : \A U \in SUBSET T : U # T => U \notin Bad
    <3>1. Bad \subseteq SUBSET S
      OBVIOUS
    <3> HIDE DEF Bad
    <3> QED BY <3>1, LeastSubset
  <2>2. T # {}
    <3>1. Quantity(t, {}) = 0
      BY SumEmpty DEF Quantity
    <3>2. ~(Quantity(t, T) <= 0)
      BY <2>1
    <3> SUFFICES ASSUME T = {} PROVE FALSE
      OBVIOUS
    <3>3. Quantity(t, T) = 0
      BY <3>1
    <3> QED BY <3>2, <3>3
  <2>3. PICK e : e \in T
    BY <2>2
  <2>4. T \ {e} \in SUBSET S /\ Quantity(t, T \ {e}) <= 0
    BY <2>1, <2>3
  <2>5. Quantity(t, T) = t[e].quantity + Quantity(t, T \ {e}) /\ T \in SUBSET S /\ ~(Quantity(t, T) <= 0)
    BY <1>1, <2>1, <2>3
  <2>6. t[e].quantity \in Int /\ t[e].quantity <= 0 /\ Quantity(t, T \ {e}) \in Int
    BY <1>0, <2>1, <2>3, <2>4
  <2> QED BY <2>4, <2>5, <2>6
<1>3. Quantity(t, S) \in Int /\ Quantity(t, S) <= 0
  BY <1>0, <1>2
<1>4. ASSUME NEW e \in S PROVE Quantity(t, S) <= t[e].quantity
  <2>1. Quantity(t, S) = t[e].quantity + Quantity(t, S \ {e})
    BY <1>1
  <2>2. S \ {e} \in SUBSET S
    OBVIOUS
  <2>3. Quantity(t, S \ {e}) \in Int /\ Quantity(t, S \ {e}) <= 0
    BY <1>0, <1>2, <2>2
  <2> QED BY <2>1, <2>3
<1> QED BY <1>3, <1>4

(* A finite set that is no larger than another can be sent into it, each   *)
(* element to one of its own.                                              *)
LEMMA InjectionExists ==
  ASSUME NEW S, NEW T, IsFiniteSet(S), IsFiniteSet(T), Cardinality(S) <= Cardinality(T)
  PROVE  \E f \in [S -> T] : \A p, q \in S : f[p] = f[q] => p = q
<1> DEFINE m == Cardinality(S)
           n == Cardinality(T)
<1>1. m \in Nat /\ n \in Nat /\ ExistsBijection(1..m, S) /\ ExistsBijection(1..n, T)
  BY FS_CardinalityType
<1>2. PICK g : g \in Bijection(1..m, S)
  BY <1>1 DEF ExistsBijection
<1>3. PICK h : h \in Bijection(1..n, T)
  BY <1>1 DEF ExistsBijection
<1>4. 1..m \subseteq 1..n
  BY <1>1
<1> HIDE DEF m, n
<1>5. g \in [1..m -> S] /\ \A s \in S : \E i \in 1..m : g[i] = s
  BY <1>2 DEF Bijection, Injection, Surjection, IsInjective
<1>6. h \in [1..n -> T] /\ \A i, j \in 1..n : h[i] = h[j] => i = j
  BY <1>3 DEF Bijection, Injection, Surjection, IsInjective
<1> DEFINE at(s) == CHOOSE i \in 1..m : g[i] = s
           f == [s \in S |-> h[at(s)]]
<1>7. \A s \in S : at(s) \in 1..m /\ g[at(s)] = s
  BY <1>5
<1> HIDE DEF at
<1>8. f \in [S -> T]
  BY <1>4, <1>6, <1>7
<1>9. \A p, q \in S : f[p] = f[q] => p = q
  <2> SUFFICES ASSUME NEW p \in S, NEW q \in S, f[p] = f[q] PROVE p = q
    OBVIOUS
  <2>1. h[at(p)] = h[at(q)]
    OBVIOUS
  <2>2. at(p) = at(q)
    BY <1>4, <1>6, <1>7, <2>1
  <2> QED BY <1>7, <2>2
<1> QED BY <1>8, <1>9

-----------------------------------------------------------------------------
(* The stock: as long as handlers run one by one, movements are well       *)
(* formed, those of orders are live and take goods away, and what a        *)
(* handler has read of a product or a movement is what is there.           *)
MoveRow ==
  [status : {"LIVE", "DELETED"}, product : Products, quantity : Int,
   kind : {"MANUAL", "SALES_ORDER", "DELIVERY_NOTE"},
   source : Orders \cup Notes \cup {None}, order : Orders \cup {None}]
MoveWell(row) ==
  /\ row \in MoveRow
  /\ row.kind = "MANUAL" => row.order = None
  /\ row.kind = "SALES_ORDER" => row.source = row.order
  /\ row.kind # "MANUAL" => row.status = "LIVE" /\ row.quantity <= 0 /\ row.order \in Orders
MoveRows == \A m \in Movements : Exists(movements, m) => MoveWell(movements[m])
StockRows == products \in [Products -> Product] /\ offBook \in [Products -> Int] /\ MoveRows

StockJob(w) ==
  LET j == job[w] IN
  /\ j.op = "movement" =>
       /\ DOMAIN j = {"op", "product", "change", "seen", "written"} /\ j.written \in BOOLEAN
       /\ j.product \in Physical /\ j.change \in Int /\ j.seen = products[j.product]
  /\ j.op = "removal" =>
       /\ DOMAIN j = {"op", "movement", "seen", "product", "returned"} /\ j.returned \in BOOLEAN
       /\ Here(movements, j.movement, j.seen) /\ j.seen.kind = "MANUAL" /\ j.seen.status = "LIVE"
       /\ ~j.returned => j.product = products[j.seen.product]
  /\ j.op \in Edits => j.product \in Products /\ j.image \in Product

StockDomains == DOMAIN products = Products /\ DOMAIN movements = Movements /\ DOMAIN offBook = Products
StockInv == StockDomains /\ (OneByOne => StockRows /\ \A w \in Workers : StockJob(w))

(* What an order gives back and takes: every line has a movement of its    *)
(* own, and the movements given back are the only ones that go.            *)
Gone(back, source) == IF back THEN MovementsOf(source) ELSE {}
Given(back, source, p) == IF back THEN Returned(source, p) ELSE 0
Line(kind, source, order, lines, p) ==
  [status |-> "LIVE", product |-> p, quantity |-> -Taken(lines, p), kind |-> kind, source |-> source, order |-> order]
MovesAs(ids, kind, source, order, back, lines) ==
  /\ ids \in [Leaving(lines) -> Movements]
  /\ \A p, q \in Leaving(lines) : ids[p] = ids[q] => p = q
  /\ \A p \in Leaving(lines) :
       /\ movements'[ids[p]] = Line(kind, source, order, lines, p)
       /\ Exists(movements, ids[p]) => ids[p] \in Gone(back, source)
  /\ \A m \in Movements : (\A p \in Leaving(lines) : ids[p] # m) =>
       movements'[m] = IF m \in Gone(back, source) THEN Absent ELSE movements[m]

LEMMA MovesLines ==
  ASSUME StockAssumption, StockDomains, NEW w, NEW kind, NEW source, NEW order, NEW back \in BOOLEAN, NEW lines,
         MoveStock(w, kind, source, order, back, lines)
  PROVE  /\ \E ids : MovesAs(ids, kind, source, order, back, lines)
         /\ DOMAIN movements' = Movements
<1> DEFINE L == Leaving(lines)
           G == Gone(back, source)
           kept == [m \in Movements |-> IF m \in G THEN Absent ELSE movements[m]]
           free == {m \in Movements : kept[m] = Absent}
           ids == CHOOSE f \in [L -> free] : \A p, q \in L : f[p] = f[q] => p = q
<1>1. /\ Cardinality(L) <= Cardinality(free)
      /\ movements' = [m \in Movements |->
           IF \E p \in L : ids[p] = m
           THEN LET p == CHOOSE p \in L : ids[p] = m IN
                [status |-> "LIVE", product |-> p, quantity |-> -Taken(lines, p),
                 kind |-> kind, source |-> source, order |-> order]
           ELSE kept[m]]
  BY DEF MoveStock, Gone
<1>2. IsFiniteSet(L) /\ IsFiniteSet(free)
  <2>1. L \in SUBSET Products /\ free \in SUBSET Movements
    BY DEF Leaving
  <2> QED BY <2>1, FS_Subset DEF StockAssumption
<1>3. \A m \in Movements : kept[m] = IF m \in G THEN Absent ELSE movements[m]
  OBVIOUS
<1>4. free \subseteq Movements /\ \A m \in free : kept[m] = Absent
  OBVIOUS
<1> HIDE DEF L, G, kept, free
<1>5. \E f \in [L -> free] : \A p, q \in L : f[p] = f[q] => p = q
  BY <1>1, <1>2, InjectionExists
<1>6. ids \in [L -> free] /\ \A p, q \in L : ids[p] = ids[q] => p = q
  BY <1>5
<1> HIDE DEF ids
<1>7. ASSUME NEW p \in L
      PROVE  /\ movements'[ids[p]] = Line(kind, source, order, lines, p)
             /\ Exists(movements, ids[p]) => ids[p] \in G
  <2>1. ids[p] \in Movements /\ kept[ids[p]] = Absent
    BY <1>4, <1>6
  <2>2. (CHOOSE q \in L : ids[q] = ids[p]) = p
    BY <1>6
  <2>3. movements'[ids[p]] = Line(kind, source, order, lines, p)
    BY <1>1, <2>1, <2>2 DEF Line
  <2> QED BY <1>3, <2>1, <2>3 DEF Exists
<1>8. \A m \in Movements : (\A p \in L : ids[p] # m) => movements'[m] = IF m \in G THEN Absent ELSE movements[m]
  BY <1>1, <1>3
<1>9. ids \in [L -> Movements]
  BY <1>4, <1>6
<1>10. MovesAs(ids, kind, source, order, back, lines)
  BY <1>6, <1>7, <1>8, <1>9 DEF MovesAs, L, G
<1> QED BY <1>1, <1>10

LEMMA TakenType ==
  ASSUME StockAssumption, NEW lines \in [Products -> Nat], NEW p \in Products
  PROVE  Taken(lines, p) \in Nat /\ (p \notin Leaving(lines) => Taken(lines, p) = 0)
BY DEF Taken, Leaving

LEMMA GivenType ==
  ASSUME StockAssumption, StockDomains, MoveRows, NEW back \in BOOLEAN, NEW source, NEW p
  PROVE  Given(back, source, p) \in Int
<1> DEFINE S == {m \in MovementsOf(source) : movements[m].product = p}
<1>1. S \in SUBSET Movements
  BY DEF MovementsOf, Rows, StockDomains
<1>2. IsFiniteSet(S) /\ \A m \in S : movements[m].quantity \in Int
  BY <1>1, FS_Subset DEF StockAssumption, MoveRows, MoveWell, MoveRow, MovementsOf, Rows
<1> HIDE DEF S
<1>3. Quantity(movements, S) \in Int
  BY <1>2, QuantityType
<1> QED BY <1>3 DEF Given, Returned, S

LEMMA MovesProducts ==
  ASSUME StockAssumption, StockDomains, StockRows, NEW w, NEW kind, NEW source, NEW order, NEW back \in BOOLEAN,
         NEW lines \in [Products -> Nat], MoveStock(w, kind, source, order, back, lines), job[w].shelf = products
  PROVE  /\ products' \in [Products -> Product] /\ offBook' = offBook
         /\ \A p \in Products :
              products'[p].quantity = products[p].quantity + Given(back, source, p) - Taken(lines, p)
<1>1. /\ offBook' = offBook
      /\ products' = [p \in Products |->
           IF p \in Leaving(lines) \/ Given(back, source, p) # 0
           THEN [products[p] EXCEPT !.quantity = @ + Given(back, source, p) - Taken(lines, p)]
           ELSE products[p]]
  BY DEF MoveStock, Given
<1>2. ASSUME NEW p \in Products
      PROVE  products'[p] \in Product /\ products'[p].quantity = products[p].quantity + Given(back, source, p) - Taken(lines, p)
  <2>1. products[p] \in Product /\ Given(back, source, p) \in Int /\ Taken(lines, p) \in Nat
    BY GivenType, TakenType DEF StockRows
  <2>2. CASE p \in Leaving(lines) \/ Given(back, source, p) # 0
    <3>1. products'[p] = [products[p] EXCEPT !.quantity = @ + Given(back, source, p) - Taken(lines, p)]
      BY <1>1, <2>2
    <3> QED BY <2>1, <3>1 DEF Product
  <2>3. CASE ~(p \in Leaving(lines) \/ Given(back, source, p) # 0)
    <3>1. products'[p] = products[p] /\ Taken(lines, p) = 0 /\ Given(back, source, p) = 0
      BY <1>1, <2>3, TakenType
    <3> QED BY <2>1, <3>1 DEF Product
  <2> QED BY <2>2, <2>3
<1>3. products' \in [Products -> Product]
  BY <1>1, <1>2
<1> QED BY <1>1, <1>2, <1>3

LEMMA MovesRows ==
  ASSUME StockAssumption, SalesAssumption, StockDomains, MoveRows, NEW kind \in {"SALES_ORDER", "DELIVERY_NOTE"},
         NEW source \in Orders \cup Notes, NEW order \in Orders, kind = "SALES_ORDER" => source = order,
         NEW back \in BOOLEAN, NEW lines \in [Products -> Nat], NEW ids,
         MovesAs(ids, kind, source, order, back, lines)
  PROVE  MoveRows'
<1> SUFFICES ASSUME NEW m \in Movements, Exists(movements', m) PROVE MoveWell(movements'[m])
  BY DEF MoveRows
<1>1. CASE \E p \in Leaving(lines) : ids[p] = m
  <2>1. PICK p \in Leaving(lines) : ids[p] = m
    BY <1>1
  <2>2. movements'[m] = Line(kind, source, order, lines, p) /\ p \in Products /\ Taken(lines, p) \in Nat
    BY <2>1, TakenType DEF MovesAs, Leaving
  <2>3. -Taken(lines, p) \in Int /\ -Taken(lines, p) <= 0
    BY <2>2
  <2> QED BY <2>2, <2>3 DEF Line, MoveWell, MoveRow
<1>2. CASE ~\E p \in Leaving(lines) : ids[p] = m
  <2>1. movements'[m] = movements[m]
    BY <1>2 DEF MovesAs, Exists
  <2> QED BY <2>1 DEF MoveRows, Exists
<1> QED BY <1>1, <1>2

(* The movements a step of the sales makes, and of which order. *)
MoveFits(w, kind, source, order, back, lines) ==
  /\ kind \in {"SALES_ORDER", "DELIVERY_NOTE"} /\ source \in Orders \cup Notes /\ order \in Orders
  /\ kind = "SALES_ORDER" => source = order
  /\ back \in BOOLEAN /\ lines \in [Products -> Nat]
  /\ back => source = order /\ Exists(orders, order)
             /\ (orders[order].status = "CONFIRMED" \/ orders' = [orders EXCEPT ![order] = Absent])
  /\ job[w].shelf = products
  /\ MoveStock(w, kind, source, order, back, lines)
MovingSteps(w) == UpdateOrder(w) \/ MarkDelivered(w) \/ DeleteOrder(w) \/ DeliverNote(w)

(* A delivery takes the lines of the order it delivers. *)
LEMMA Delivering ==
  ASSUME SaleDomains, SaleRows, NEW w \in Workers, SaleJob(w), MarkDelivered(w) \/ DeliverNote(w)
  PROVE  \/ UNCHANGED <<orders, stockVars>>
         \/ \E kind, source, o, row :
              /\ MoveFits(w, kind, source, o, FALSE, row.lines)
              /\ row \in SalesOrder /\ orders' = [orders EXCEPT ![o] = row]
<1> DEFINE J == job[w]
<1>1. CASE MarkDelivered(w)
  <2>1. PICK o, row : o = J.order /\ row = [J.seen EXCEPT !.status = "DELIVERED"]
    OBVIOUS
  <2>2. PICK lines : lines = J.seen.lines
    OBVIOUS
  <2>3. /\ J.op = "markDelivered" /\ "shelf" \in DOMAIN J /\ MoveStock(w, "SALES_ORDER", o, o, FALSE, lines)
        /\ orders' = [orders EXCEPT ![o] = row]
    BY <1>1, <2>1, <2>2 DEF MarkDelivered, Doing, Loaded
  <2>4. J.shelf = products
    BY <2>3 DEF SaleJob, NeedsShelf
  <2>5. o \in Orders /\ J.seen \in SalesOrder
    BY <2>1, <2>3, OrderRead DEF SaleDomains, OrderOps
  <2>6. row \in SalesOrder /\ row.lines = lines /\ lines \in [Products -> Nat]
    BY <2>1, <2>2, <2>5 DEF SalesOrder
  <2>7. MoveFits(w, "SALES_ORDER", o, o, FALSE, lines)
    BY <2>3, <2>4, <2>5, <2>6 DEF MoveFits
  <2> QED BY <2>3, <2>6, <2>7
<1>2. CASE DeliverNote(w)
  <2>1. PICK n, o : n = J.note /\ o = J.seen.order
    OBVIOUS
  <2>2. CASE o # None /\ Exists(orders, o) /\ orders[o].status = "IN_PROGRESS"
    <3>1. PICK row, lines : row = [orders[o] EXCEPT !.status = "DELIVERED"] /\ lines = orders[o].lines
      OBVIOUS
    <3>2. /\ J.op = "noteDelivered" /\ "shelf" \in DOMAIN J /\ MoveStock(w, "DELIVERY_NOTE", n, o, FALSE, lines)
          /\ orders' = [orders EXCEPT ![o] = row]
      BY <1>2, <2>1, <2>2, <3>1 DEF DeliverNote, Doing, Loaded, DeliveredLines
    <3>3. J.shelf = products /\ Here(notes, n, J.seen)
      BY <2>1, <3>2 DEF SaleJob, NeedsShelf, NoteOps
    <3>4. o \in Orders
      BY <2>1, <2>2, <3>3 DEF Here, SaleRows, NoteRows, SaleDomains, DeliveryNote
    <3>5. row \in SalesOrder /\ row.lines = lines /\ lines \in [Products -> Nat]
      BY <2>2, <3>1, <3>4 DEF SaleRows, OrderRows, SalesOrder
    <3>6. MoveFits(w, "DELIVERY_NOTE", n, o, FALSE, lines)
      BY <3>2, <3>3, <3>4, <3>5 DEF MoveFits, Here, SaleDomains
    <3> QED BY <3>2, <3>5, <3>6
  <2>3. CASE ~(o # None /\ Exists(orders, o) /\ orders[o].status = "IN_PROGRESS")
    BY <1>2, <2>1, <2>3 DEF DeliverNote
  <2> QED BY <2>2, <2>3
<1> QED BY <1>1, <1>2

LEMMA SaleMoves ==
  ASSUME SaleDomains, SaleRows, NEW w \in Workers, SaleJob(w), SalesNext(w)
  PROVE  \/ UNCHANGED stockVars
         \/ MovingSteps(w) /\ \E kind, source, order, back, lines : MoveFits(w, kind, source, order, back, lines)
<1> DEFINE J == job[w]
<1>1. CASE UpdateOrder(w)
  <2>1. PICK o, lines : o = J.order /\ lines = J.lines
    OBVIOUS
  <2>2. J.op = "update" /\ "shelf" \in DOMAIN J /\ MoveStock(w, "SALES_ORDER", o, o, TRUE, lines)
    BY <1>1, <2>1 DEF UpdateOrder, Doing, Loaded
  <2>3. J.shelf = products /\ lines \in [Products -> Nat] /\ Here(orders, o, J.seen) /\ J.seen.status = "CONFIRMED"
    BY <2>1, <2>2 DEF SaleJob, NeedsShelf, OrderOps
  <2>4. MoveFits(w, "SALES_ORDER", o, o, TRUE, lines)
    BY <2>2, <2>3 DEF MoveFits, Here, SaleDomains
  <2> QED BY <1>1, <2>4 DEF MovingSteps
<1>2. CASE MarkDelivered(w) \/ DeliverNote(w)
  BY <1>2, Delivering DEF MovingSteps
<1>3. CASE DeleteOrder(w)
  <2>1. PICK o, lines : o = J.order /\ lines = [p \in Products |-> 0]
    OBVIOUS
  <2>2. /\ J.op = "delete" /\ "shelf" \in DOMAIN J /\ MoveStock(w, "SALES_ORDER", o, o, TRUE, lines)
        /\ orders' = [orders EXCEPT ![o] = Absent]
    BY <1>3, <2>1 DEF DeleteOrder, Doing, Loaded
  <2>3. J.shelf = products /\ Here(orders, o, J.seen)
    BY <2>1, <2>2 DEF SaleJob, NeedsShelf, OrderOps
  <2>4. lines \in [Products -> Nat]
    BY <2>1
  <2>5. MoveFits(w, "SALES_ORDER", o, o, TRUE, lines)
    BY <2>2, <2>3, <2>4 DEF MoveFits, Here, SaleDomains
  <2> QED BY <1>3, <2>5 DEF MovingSteps
<1> QED
  BY <1>1, <1>2, <1>3 DEF SalesNext, OrderNext, CreateOrder, FindOrder, LoadProducts, StartProgress, TransitionOrder,
     ConvertToInvoice, SendOrderLink, OpenOrderLink, SpendLink, ConfirmOrder, RefuseOrder, NoteNext,
     CreateNote, FindNote, CancelNote, UpdateNote, DeleteNote, QuoteNext, CreateQuote, FindQuote, UpdateQuote,
     TransitionQuote, MakeQuoteLink, MailQuote, DeleteQuote, QuoteToInvoice, QuoteToOrder, OpenQuoteLink, AnswerQuote,
     SpendQuoteLink

LEMMA StockBy ==
  ASSUME JobsShape, StockInv, NEW w \in Workers, Acts(w), StockDomains',
         OneByOne' /\ OneByOne /\ StockRows /\ StockJob(w) => StockRows' /\ StockJob(w)'
  PROVE  StockInv'
<1> SUFFICES ASSUME OneByOne'
             PROVE  StockRows' /\ \A v \in Workers : StockJob(v)'
  BY DEF StockInv
<1>1. OneByOne /\ \A v \in Workers \ {w} : job'[v] = Idle
  BY DEF Acts, OneByOne, Free
<1>2. StockRows' /\ StockJob(w)'
  BY <1>1 DEF StockInv
<1>3. ASSUME NEW v \in Workers, v # w PROVE StockJob(v)'
  BY <1>1, <1>3 DEF StockJob, Idle, Edits
<1> QED BY <1>2, <1>3

LEMMA StockUntouched ==
  ASSUME JobsShape, StockInv, NEW w \in Workers, Acts(w), UNCHANGED stockVars, job'[w].op \notin StockOps
  PROVE  StockInv'
<1>1. StockJob(w)'
  BY DEF StockJob, StockOps
<1>2. StockRows => StockRows'
  BY DEF StockRows, MoveRows, Exists, stockVars
<1>3. StockDomains'
  BY DEF StockInv, StockDomains, stockVars
<1> QED BY <1>1, <1>2, <1>3, StockBy

LEMMA MoveDomains ==
  ASSUME StockDomains, NEW w, NEW kind, NEW source, NEW order, NEW back, NEW lines,
         MoveStock(w, kind, source, order, back, lines)
  PROVE  StockDomains'
BY DEF MoveStock, StockDomains

LEMMA MovesStock ==
  ASSUME StockAssumption, SalesAssumption, StockDomains, StockRows, NEW w, NEW kind, NEW source, NEW order, NEW back, NEW lines,
         MoveFits(w, kind, source, order, back, lines)
  PROVE  StockRows' /\ \E ids : MovesAs(ids, kind, source, order, back, lines)
<1>1. PICK ids : MovesAs(ids, kind, source, order, back, lines)
  BY MovesLines DEF MoveFits
<1>2. MoveRows'
  BY <1>1, MovesRows DEF MoveFits, StockRows
<1>3. products' \in [Products -> Product] /\ offBook' = offBook
  <2>1. /\ back \in BOOLEAN /\ lines \in [Products -> Nat] /\ job[w].shelf = products
        /\ MoveStock(w, kind, source, order, back, lines)
    BY DEF MoveFits
  <2> QED BY <2>1, MovesProducts
<1> QED BY <1>1, <1>2, <1>3 DEF StockRows

LEMMA SalesKeepStock ==
  ASSUME JobsShape, StockAssumption, SalesAssumption, SalesInv, StockInv, NEW w \in Workers, SalesNext(w),
         Goes(w, SalesOps)
  PROVE  StockInv'
<1>0. Acts(w) /\ job'[w].op \notin StockOps
  BY OpsApart DEF Goes
<1>1. CASE UNCHANGED stockVars
  BY <1>0, <1>1, StockUntouched
<1>2. CASE MovingSteps(w)
  <2>1. StockDomains'
    <3>0. StockDomains
      BY DEF StockInv
    <3>1. CASE UpdateOrder(w)
      <4>1. PICK o, lines : MoveStock(w, "SALES_ORDER", o, o, TRUE, lines)
        BY <3>1 DEF UpdateOrder
      <4> QED BY <3>0, <4>1, MoveDomains
    <3>2. CASE MarkDelivered(w)
      <4>1. PICK o, lines : MoveStock(w, "SALES_ORDER", o, o, FALSE, lines)
        BY <3>2 DEF MarkDelivered
      <4> QED BY <3>0, <4>1, MoveDomains
    <3>3. CASE DeleteOrder(w)
      <4>1. PICK o, lines : MoveStock(w, "SALES_ORDER", o, o, TRUE, lines)
        BY <3>3 DEF DeleteOrder
      <4> QED BY <3>0, <4>1, MoveDomains
    <3>4. CASE DeliverNote(w)
      <4>1. UNCHANGED stockVars \/ \E n, o, lines : MoveStock(w, "DELIVERY_NOTE", n, o, FALSE, lines)
        BY <3>4 DEF DeliverNote
      <4> QED BY <3>0, <4>1, MoveDomains DEF StockDomains, stockVars
    <3> QED BY <1>2, <3>1, <3>2, <3>3, <3>4 DEF MovingSteps
  <2>2. ASSUME OneByOne, StockRows PROVE StockRows'
    <3>1. CASE UNCHANGED stockVars
      BY <2>2, <3>1 DEF StockRows, MoveRows, Exists, stockVars
    <3>2. CASE ~UNCHANGED stockVars
      <4>1. PICK kind, source, order, back, lines : MoveFits(w, kind, source, order, back, lines)
        BY <2>2, <3>2, SaleMoves DEF SalesInv
      <4> QED BY <2>2, <4>1, MovesStock DEF StockInv
    <3> QED BY <3>1, <3>2
  <2>3. StockJob(w)'
    BY <1>0 DEF StockJob, StockOps
  <2> QED BY <1>0, <2>1, <2>2, <2>3, StockBy
<1>3. UNCHANGED stockVars \/ MovingSteps(w)
  BY DEF MovingSteps, SalesNext, OrderNext, CreateOrder, FindOrder, LoadProducts, StartProgress, TransitionOrder,
     ConvertToInvoice, SendOrderLink, OpenOrderLink, SpendLink, ConfirmOrder, RefuseOrder, NoteNext,
     CreateNote, FindNote, CancelNote, UpdateNote, DeleteNote, QuoteNext, CreateQuote, FindQuote, UpdateQuote,
     TransitionQuote, MakeQuoteLink, MailQuote, DeleteQuote, QuoteToInvoice, QuoteToOrder, OpenQuoteLink, AnswerQuote,
     SpendQuoteLink
<1> QED BY <1>1, <1>2, <1>3

LEMMA ManualWell ==
  ASSUME NEW p \in Products, NEW q \in Int
  PROVE  MoveWell(Manual(p, q)) /\ Manual(p, q) # Absent
BY DEF MoveWell, MoveRow, Manual, None, Absent

LEMMA EditWell ==
  ASSUME StockAssumption, NEW kind \in Edits, NEW p \in Products, NEW q \in Quantities, NEW row \in Product
  PROVE  Edited(kind, p, row, q) \in Product
<1>1. q \in Nat /\ q \in Int
  BY DEF StockAssumption
<1>2. Recounted(p, row, q) \in Product
  <2>1. PICK n : n = IF p \in Services THEN 0 ELSE q
    OBVIOUS
  <2>2. n \in Int /\ Recounted(p, row, q) = [row EXCEPT !.quantity = n]
    BY <1>1, <2>1 DEF Recounted
  <2> QED BY <2>2 DEF Product
<1>3. Archived(row) \in Product /\ Unarchived(row) \in Product
  BY DEF Archived, Unarchived, Product
<1>4. Cleared(row) \in Product
  BY DEF Cleared, Product
<1>5. Replanned(row, q) \in Product /\ Reserved(row, q) \in Product
  BY <1>1 DEF Replanned, Reserved, Product
<1> QED BY <1>2, <1>3, <1>4, <1>5 DEF Edits, Edited, Illustrated, Barcoded, Labelled

(* A movement of which the row is replaced by a well formed one. *)
LEMMA MoveSaved ==
  ASSUME StockDomains, MoveRows, NEW m, NEW row, row = Absent \/ MoveWell(row), movements' = [movements EXCEPT ![m] = row]
  PROVE  MoveRows'
BY DEF StockDomains, MoveRows, Exists

LEMMA StockKeepsStock ==
  ASSUME JobsShape, StockAssumption, SalesAssumption, StockInv, NEW w \in Workers, StockNext(w), Goes(w, StockOps)
  PROVE  StockInv'
<1> SUFFICES ASSUME StockDomains PROVE StockInv'
  BY DEF StockInv
<1> DEFINE J == job[w]
<1>0. Acts(w) /\ "op" \in DOMAIN J
  BY DEF Goes, JobsShape
<1>1. CASE StartMovement(w)
  <2>a. PICK p \in Physical, q \in Quantities : \E change \in {q, -q} :
          Begin(w, [op |-> "movement", product |-> p, change |-> change, seen |-> products[p], written |-> FALSE])
    BY <1>1 DEF StartMovement
  <2>1. PICK change \in {q, -q} :
          Begin(w, [op |-> "movement", product |-> p, change |-> change, seen |-> products[p], written |-> FALSE])
    BY <2>a
  <2>2. PICK row : row = products[p]
    OBVIOUS
  <2>3. job'[w] = [op |-> "movement", product |-> p, change |-> change, seen |-> row, written |-> FALSE]
    BY <2>1, <2>2, BeginActs
  <2>4. UNCHANGED stockVars /\ StockDomains' /\ change \in Int
    <3>1. UNCHANGED stockVars
      BY <1>1 DEF StartMovement
    <3>2. q \in Int /\ -q \in Int
      BY DEF StockAssumption
    <3> QED BY <3>1, <3>2 DEF StockDomains, stockVars
  <2>5. StockRows => StockRows'
    BY <2>4 DEF StockRows, MoveRows, Exists, stockVars
  <2>6. StockJob(w)'
    BY <2>2, <2>3, <2>4 DEF StockJob, Edits, stockVars
  <2> QED BY <1>0, <2>4, <2>5, <2>6, StockBy
<1>2. CASE SaveMovement(w)
  <2>0. PICK p, change, m : p = J.product /\ change = J.change /\ m = Fresh(movements)
    OBVIOUS
  <2>1. /\ J.op = "movement" /\ movements' = [movements EXCEPT ![m] = Manual(p, change)]
        /\ Continue(w, [J EXCEPT !.written = TRUE]) /\ UNCHANGED <<products, offBook>>
    BY <1>2, <2>0 DEF SaveMovement, Doing
  <2>2. job'[w] = [J EXCEPT !.written = TRUE]
    <3>1. "op" \in DOMAIN [J EXCEPT !.written = TRUE]
      BY <1>0
    <3> QED BY <2>1, <3>1, ContinueActs
  <2>3. StockDomains'
    BY <2>1 DEF StockDomains
  <2>4. ASSUME StockRows, StockJob(w) PROVE StockRows' /\ StockJob(w)'
    <3>1. /\ DOMAIN J = {"op", "product", "change", "seen", "written"} /\ J.seen = products[p]
          /\ p \in Physical /\ change \in Int
      BY <2>0, <2>1, <2>4 DEF StockJob
    <3>2. MoveWell(Manual(p, change))
      BY <3>1, ManualWell DEF Physical
    <3>3. StockRows'
      BY <2>1, <2>4, <3>2, MoveSaved DEF StockRows
    <3>4. PICK row : row = products[p]
      OBVIOUS
    <3>5. /\ DOMAIN job'[w] = {"op", "product", "change", "seen", "written"} /\ job'[w].op = "movement"
          /\ job'[w].product = p /\ job'[w].change = change /\ job'[w].seen = row /\ job'[w].written = TRUE
      BY <2>0, <2>1, <2>2, <3>1, <3>4
    <3>6. products'[p] = row
      BY <2>1, <3>4
    <3> QED BY <3>1, <3>3, <3>5, <3>6 DEF StockJob, Edits
  <2> QED BY <1>0, <2>3, <2>4, StockBy
<1>3. CASE SaveQuantity(w)
  <2>0. PICK p, row : p = J.product /\ row = QuantityAfter(J.seen, J.change)
    OBVIOUS
  <2>1. J.op = "movement" /\ products' = [products EXCEPT ![p] = row] /\ Finish(w) /\ UNCHANGED <<movements, offBook>>
    BY <1>3, <2>0 DEF SaveQuantity, Doing
  <2>2. StockDomains' /\ job'[w] = Idle
    BY <2>1, FinishActs DEF StockDomains
  <2>3. ASSUME StockRows, StockJob(w) PROVE StockRows'
    <3>1. J.seen = products[p] /\ p \in Products /\ J.change \in Int
      BY <2>0, <2>1, <2>3 DEF StockJob, Physical
    <3>2. row \in Product
      BY <2>0, <2>3, <3>1 DEF StockRows, QuantityAfter, Product
    <3> QED BY <2>1, <2>3, <3>2 DEF StockRows, MoveRows, Exists
  <2>4. StockJob(w)'
    BY <2>2 DEF StockJob, Idle, Edits
  <2> QED BY <1>0, <2>2, <2>3, <2>4, StockBy
<1>4. CASE StartRemoval(w)
  <2>1. PICK m \in Rows(movements) :
          /\ Removable(m)
          /\ Begin(w, [op |-> "removal", movement |-> m, seen |-> movements[m],
                       product |-> products[movements[m].product], returned |-> FALSE])
    BY <1>4 DEF StartRemoval
  <2>2. PICK row, product : row = movements[m] /\ product = products[row.product]
    OBVIOUS
  <2>3. job'[w] = [op |-> "removal", movement |-> m, seen |-> row, product |-> product, returned |-> FALSE]
    BY <2>1, <2>2, BeginActs
  <2>4. UNCHANGED stockVars /\ StockDomains' /\ Here(movements, m, row)
    BY <1>4, <2>2 DEF StartRemoval, StockDomains, stockVars, Rows, Here
  <2>5. StockRows => StockRows'
    BY <2>4 DEF StockRows, MoveRows, Exists, stockVars
  <2>6. Here(movements', m, row) /\ products'[row.product] = product /\ row.kind = "MANUAL" /\ row.status = "LIVE"
    BY <2>1, <2>2, <2>4 DEF Here, Exists, stockVars, Removable
  <2>7. StockJob(w)'
    BY <2>3, <2>6 DEF StockJob, Edits
  <2> QED BY <1>0, <2>4, <2>5, <2>7, StockBy
<1>5. CASE ReturnQuantity(w)
  <2>0. PICK m, seen, row, product : /\ m = J.movement /\ seen = J.seen /\ product = J.product
                                     /\ row = QuantityAfter(product, -seen.quantity)
    OBVIOUS
  <2>1. /\ J.op = "removal" /\ ~J.returned /\ products' = [products EXCEPT ![seen.product] = row]
        /\ Continue(w, [J EXCEPT !.returned = TRUE]) /\ UNCHANGED <<movements, offBook>>
    BY <1>5, <2>0 DEF ReturnQuantity, Doing
  <2>2. job'[w] = [J EXCEPT !.returned = TRUE]
    <3>1. "op" \in DOMAIN [J EXCEPT !.returned = TRUE]
      BY <1>0
    <3> QED BY <2>1, <3>1, ContinueActs
  <2>3. StockDomains'
    BY <2>1 DEF StockDomains
  <2>4. ASSUME StockRows, StockJob(w) PROVE StockRows' /\ StockJob(w)'
    <3>1. /\ DOMAIN J = {"op", "movement", "seen", "product", "returned"} /\ Here(movements, m, seen)
          /\ seen.kind = "MANUAL" /\ seen.status = "LIVE" /\ product = products[seen.product]
      BY <2>0, <2>1, <2>4 DEF StockJob
    <3>2. seen \in MoveRow
      BY <2>4, <3>1 DEF Here, StockRows, MoveRows, MoveWell, StockDomains
    <3>3. product \in Product /\ seen.quantity \in Int
      BY <2>4, <3>1, <3>2 DEF StockRows, MoveRow
    <3>4. row \in Product
      BY <2>0, <3>3 DEF QuantityAfter, Product
    <3>5. StockRows'
      BY <2>1, <2>4, <3>4 DEF StockRows, MoveRows, Exists
    <3>6. /\ DOMAIN job'[w] = {"op", "movement", "seen", "product", "returned"} /\ job'[w].op = "removal"
          /\ job'[w].movement = m /\ job'[w].seen = seen /\ job'[w].returned = TRUE
      BY <2>0, <2>1, <2>2, <3>1
    <3>7. Here(movements', m, seen)
      BY <2>1, <3>1 DEF Here, Exists
    <3> QED BY <3>1, <3>5, <3>6, <3>7 DEF StockJob, Edits
  <2> QED BY <1>0, <2>3, <2>4, StockBy
<1>6. CASE MarkRemoved(w)
  <2>0. PICK m, seen, row : m = J.movement /\ seen = J.seen /\ row = [seen EXCEPT !.status = "DELETED"]
    OBVIOUS
  <2>1. /\ J.op = "removal" /\ movements' = [movements EXCEPT ![m] = row] /\ Finish(w)
        /\ UNCHANGED <<products, offBook>>
    BY <1>6, <2>0 DEF MarkRemoved, Doing
  <2>2. StockDomains' /\ job'[w] = Idle
    BY <2>1, FinishActs DEF StockDomains
  <2>3. ASSUME StockRows, StockJob(w) PROVE StockRows'
    <3>1. Here(movements, m, seen) /\ seen.kind = "MANUAL"
      BY <2>0, <2>1, <2>3 DEF StockJob
    <3>2. MoveWell(seen)
      BY <2>3, <3>1 DEF Here, StockRows, MoveRows, StockDomains
    <3>3. MoveWell(row)
      BY <2>0, <3>1, <3>2 DEF MoveWell, MoveRow
    <3> QED BY <2>1, <2>3, <3>3, MoveSaved DEF StockRows
  <2>4. StockJob(w)'
    BY <2>2 DEF StockJob, Idle, Edits
  <2> QED BY <1>0, <2>2, <2>3, <2>4, StockBy
<1>7. CASE RestoreMovement(w)
  <2>1. PICK m \in Rows(movements) :
          /\ movements[m].status = "DELETED" /\ movements' = [movements EXCEPT ![m].status = "LIVE"]
          /\ offBook' = [offBook EXCEPT ![movements[m].product] = @ - movements[m].quantity]
    BY <1>7 DEF RestoreMovement
  <2>2. PICK row, new : row = movements[m] /\ new = [row EXCEPT !.status = "LIVE"]
    OBVIOUS
  <2>3. StockDomains' /\ job'[w] = Idle /\ UNCHANGED products /\ movements' = [movements EXCEPT ![m] = new]
    BY <1>7, <2>1, <2>2, AtOnceActs DEF RestoreMovement, StockDomains
  <2>4. ASSUME StockRows PROVE StockRows'
    <3>1. MoveWell(row)
      BY <2>2, <2>4 DEF StockRows, MoveRows, Rows, StockDomains
    <3>2. MoveWell(new) /\ row.product \in Products /\ row.quantity \in Int
      BY <2>1, <2>2, <3>1 DEF MoveWell, MoveRow
    <3>3. MoveRows'
      BY <2>3, <2>4, <3>2, MoveSaved DEF StockRows
    <3>4. offBook' \in [Products -> Int]
      BY <2>1, <2>2, <2>4, <3>2 DEF StockRows
    <3> QED BY <2>3, <2>4, <3>3, <3>4 DEF StockRows
  <2>5. StockJob(w)'
    BY <2>3 DEF StockJob, Idle, Edits
  <2> QED BY <1>0, <2>3, <2>4, <2>5, StockBy
<1>8. CASE StartEdit(w)
  <2>1. PICK kind \in Edits, p \in Products, q \in Quantities :
          Begin(w, [op |-> kind, product |-> p, image |-> Edited(kind, p, products[p], q)])
    BY <1>8 DEF StartEdit
  <2>2. PICK image : image = Edited(kind, p, products[p], q)
    OBVIOUS
  <2>3. job'[w] = [op |-> kind, product |-> p, image |-> image]
    BY <2>1, <2>2, BeginActs
  <2>4. UNCHANGED stockVars /\ StockDomains'
    BY <1>8 DEF StartEdit, StockDomains, stockVars
  <2>5. ASSUME StockRows PROVE StockRows' /\ StockJob(w)'
    <3>1. StockRows'
      BY <2>4, <2>5 DEF StockRows, MoveRows, Exists, stockVars
    <3>2. products[p] \in Product
      BY <2>5 DEF StockRows
    <3>3. image \in Product
      BY <2>2, <3>2, EditWell
    <3>4. kind # "movement" /\ kind # "removal"
      BY DEF Edits
    <3> QED BY <2>3, <3>1, <3>3, <3>4 DEF StockJob
  <2> QED BY <1>0, <2>4, <2>5, StockBy
<1>9. CASE SaveEdit(w)
  <2>0. PICK p, image : p = J.product /\ image = J.image
    OBVIOUS
  <2>1. /\ J.op \in Edits /\ products' = [products EXCEPT ![p] = image]
        /\ offBook' = [offBook EXCEPT ![p] = @ + image.quantity - products[p].quantity]
        /\ Finish(w) /\ UNCHANGED movements
    BY <1>9, <2>0 DEF SaveEdit
  <2>2. StockDomains' /\ job'[w] = Idle
    BY <2>1, FinishActs DEF StockDomains, Edits
  <2>3. ASSUME StockRows, StockJob(w) PROVE StockRows'
    <3>1. p \in Products /\ image \in Product /\ products[p] \in Product
      BY <2>0, <2>1, <2>3 DEF StockJob, StockRows
    <3>2. offBook' \in [Products -> Int]
      BY <2>1, <2>3, <3>1 DEF StockRows, Product
    <3> QED BY <2>1, <2>3, <3>1, <3>2 DEF StockRows, MoveRows, Exists
  <2>4. StockJob(w)'
    BY <2>2 DEF StockJob, Idle, Edits
  <2> QED BY <1>0, <2>2, <2>3, <2>4, StockBy
<1> QED BY <1>1, <1>2, <1>3, <1>4, <1>5, <1>6, <1>7, <1>8, <1>9 DEF StockNext

LEMMA StockStep ==
  ASSUME JobsShape, StockAssumption, SalesAssumption, SalesInv, StockInv, [Next]_vars
  PROVE  StockInv'
<1>1. CASE UNCHANGED vars \/ (NewDay /\ UNCHANGED <<stockVars, salesVars>>)
  <2>1. UNCHANGED <<jobVars, stockVars>>
    BY <1>1 DEF vars, NewDay
  <2>2. \A w \in Workers : StockJob(w)' <=> StockJob(w)
    BY <2>1 DEF StockJob, Here, Exists, jobVars, stockVars
  <2>3. StockRows' <=> StockRows
    BY <2>1 DEF StockRows, MoveRows, Exists, stockVars
  <2> QED BY <2>1, <2>2, <2>3 DEF StockInv, StockDomains, OneByOne, jobVars, stockVars
<1>2. ASSUME NEW w \in Workers, Goes(w, NightOps) \/ (Acts(w) /\ job'[w] = Idle), UNCHANGED stockVars
      PROVE  StockInv'
  <2>1. job'[w].op \notin StockOps
    BY <1>2, OpsApart DEF Goes, Idle
  <2> QED BY <1>2, <2>1, StockUntouched DEF Goes
<1> QED BY <1>1, <1>2, ClientStep, StockKeepsStock, SalesKeepStock

LEMMA StockStart == ASSUME StockAssumption, Init PROVE StockInv
BY DEF Init, JobsInit, StockInit, StockAssumption, StockInv, StockDomains, StockRows, MoveRows, Exists, StockJob, Idle, Edits, Product

LEMMA StockAlways ==
  ASSUME StockAssumption, SalesAssumption PROVE Spec => [](JobsShape /\ SalesInv /\ StockInv)
<1>1. Init => StockInv
  BY StockStart
<1>2. JobsShape /\ SalesInv /\ StockInv /\ [Next]_vars => StockInv'
  BY StockStep
<1> QED
  BY <1>1, <1>2, SalesAlways, PTL DEF Spec

-----------------------------------------------------------------------------
(* The goods of an order that is delivered: for every line of a product    *)
(* that is in stock there is a live movement of that order that took it.   *)
IsDeliveredOrder(o) == Exists(orders, o) /\ orders[o].status \in {"DELIVERED", "INVOICED"}
HasLeft(o, p, n) ==
  \E m \in Movements :
    /\ Exists(movements, m) /\ movements[m].status = "LIVE" /\ movements[m].product = p
    /\ movements[m].order = o /\ movements[m].quantity = -n
GoodsLeft ==
  \A o \in Orders : IsDeliveredOrder(o) =>
    \A p \in Physical : orders[o].lines[p] > 0 => HasLeft(o, p, orders[o].lines[p])
GoodsHaveLeft == OneByOne => GoodsLeft

LEMMA StockKeepsMoves ==
  ASSUME SalesAssumption, StockDomains, StockRows, NEW w, StockJob(w), StockNext(w),
         NEW m \in Movements, Exists(movements, m), movements[m].order \in Orders
  PROVE  movements'[m] = movements[m]
<1>0. MoveWell(movements[m]) /\ movements[m].kind # "MANUAL" /\ movements[m].status = "LIVE"
  <2>1. MoveWell(movements[m])
    BY DEF StockRows, MoveRows
  <2> QED BY <2>1 DEF MoveWell, SalesAssumption
<1>1. CASE SaveMovement(w)
  <2>1. PICK x, row : x = Fresh(movements) /\ row = Manual(job[w].product, job[w].change)
    OBVIOUS
  <2>2. movements' = [movements EXCEPT ![x] = row] /\ ~Exists(movements, x)
    BY <1>1, <2>1, FreshRow DEF SaveMovement
  <2> QED BY <2>2 DEF StockDomains
<1>2. CASE MarkRemoved(w)
  <2>1. PICK x, seen : x = job[w].movement /\ seen = job[w].seen
    OBVIOUS
  <2>2. /\ job[w].op = "removal" /\ movements' = [movements EXCEPT ![x] = [seen EXCEPT !.status = "DELETED"]]
    BY <1>2, <2>1 DEF MarkRemoved, Doing
  <2>3. movements[x] = seen /\ seen.kind = "MANUAL"
    BY <2>1, <2>2 DEF StockJob, Here
  <2> QED BY <1>0, <2>2, <2>3 DEF StockDomains
<1>3. CASE RestoreMovement(w)
  <2>1. PICK x : movements[x].status = "DELETED" /\ movements' = [movements EXCEPT ![x].status = "LIVE"]
    BY <1>3 DEF RestoreMovement
  <2> QED BY <1>0, <2>1 DEF StockDomains
<1> QED
  BY <1>1, <1>2, <1>3 DEF StockNext, StartMovement, SaveQuantity, StartRemoval, ReturnQuantity, StartEdit, SaveEdit, stockVars

LEMMA SalesKeepMoves ==
  ASSUME StockDomains, NEW ids, NEW kind, NEW source, NEW order, NEW back, NEW lines,
         MovesAs(ids, kind, source, order, back, lines),
         NEW m \in Movements, Exists(movements, m), m \notin Gone(back, source)
  PROVE  movements'[m] = movements[m]
BY DEF MovesAs

(* Goods that have left for an order stay away while the order is there. *)
LEMMA LeftStays ==
  ASSUME StockAssumption, SalesAssumption, StockDomains, StockRows, SaleDomains, SaleRows, NEW w \in Workers, SaleJob(w), SalesNext(w),
         NEW o \in Orders, IsDeliveredOrder(o), Exists(orders', o), NEW p, NEW n, HasLeft(o, p, n)
  PROVE  HasLeft(o, p, n)'
<1>1. PICK m \in Movements :
        /\ Exists(movements, m) /\ movements[m].status = "LIVE" /\ movements[m].product = p
        /\ movements[m].order = o /\ movements[m].quantity = -n
  BY DEF HasLeft
<1>2. movements'[m] = movements[m]
  <2>1. CASE UNCHANGED stockVars
    BY <2>1 DEF stockVars
  <2>2. CASE ~UNCHANGED stockVars
    <3>1. PICK kind, source, order, back, lines : MoveFits(w, kind, source, order, back, lines)
      BY <2>2, SaleMoves
    <3>2. PICK ids : MovesAs(ids, kind, source, order, back, lines)
      BY <3>1, MovesStock
    <3>3. m \notin Gone(back, source)
      <4> SUFFICES ASSUME m \in Gone(back, source) PROVE FALSE
        OBVIOUS
      <4>1. back /\ movements[m].kind = "SALES_ORDER" /\ movements[m].source = source
        BY <3>1 DEF Gone, MovementsOf, MoveFits
      <4>2. MoveWell(movements[m])
        BY <1>1 DEF StockRows, MoveRows
      <4>3. source = o /\ order = o
        BY <1>1, <3>1, <4>1, <4>2 DEF MoveWell, MoveFits
      <4>4. orders[o].status = "CONFIRMED" \/ orders' = [orders EXCEPT ![o] = Absent]
        BY <3>1, <4>1, <4>3 DEF MoveFits
      <4> QED BY <4>4 DEF IsDeliveredOrder, Exists, SaleDomains
    <3> QED BY <1>1, <3>2, <3>3, SalesKeepMoves
  <2> QED BY <2>1, <2>2
<1>3. Exists(movements', m)
  BY <1>1, <1>2 DEF Exists
<1> QED BY <1>1, <1>2, <1>3 DEF HasLeft

(* An order that a step delivers takes its goods with that step. *)
LEMMA NewlyDelivered ==
  ASSUME SalesAssumption, SaleDomains, SaleRows, NEW w \in Workers, SaleJob(w), SalesNext(w),
         NEW o \in Orders, IsDeliveredOrder(o)'
  PROVE  \/ IsDeliveredOrder(o) /\ orders'[o].lines = orders[o].lines
         \/ \E kind, source, row : orders'[o] = row /\ MoveFits(w, kind, source, o, FALSE, row.lines)
<1> DEFINE J == job[w]
<1>1. CASE orders'[o] = orders[o]
  BY <1>1 DEF IsDeliveredOrder, Exists
<1>2. CASE MakesOne(w)
  <2>1. PICK x, row : Made(x, row)
    BY <1>2 DEF MakesOne
  <2>2. o # x
    BY <2>1 DEF Made, SaleDomains, IsDeliveredOrder
  <2>3. orders'[o] = orders[o]
    BY <2>1, <2>2 DEF Made, SaleDomains
  <2> QED BY <1>1, <2>3
<1>3. CASE MarkDelivered(w) \/ DeliverNote(w)
  <2>1. CASE UNCHANGED <<orders, stockVars>>
    BY <1>1, <2>1
  <2>2. ASSUME NEW kind, NEW source, NEW x, NEW row, MoveFits(w, kind, source, x, FALSE, row.lines),
               orders' = [orders EXCEPT ![x] = row]
        PROVE  \/ orders'[o] = orders[o]
               \/ orders'[o] = row /\ MoveFits(w, kind, source, o, FALSE, row.lines)
    BY <2>2 DEF SaleDomains
  <2> QED BY <1>1, <1>3, <2>1, <2>2, Delivering
<1>4. CASE SavesOne(w) /\ ~MarkDelivered(w) /\ ~DeliverNote(w)
  <2>1. PICK x, row : Saved(w, x, row)
    BY <1>4 DEF SavesOne
  <2>2. CASE o = x
    <3>1. orders'[o] = row /\ Exists(orders, o)
      BY <2>1, <2>2 DEF Saved, SaleDomains
    <3>2. row.status \in {"DELIVERED", "INVOICED"}
      BY <3>1 DEF IsDeliveredOrder
    <3> QED BY <1>4, <2>1, <2>2, <3>1, <3>2 DEF Saved, IsDeliveredOrder
  <2>3. CASE o # x
    BY <1>1, <2>1, <2>3 DEF Saved, SaleDomains
  <2> QED BY <2>2, <2>3
<1>5. CASE ConvertToInvoice(w)
  <2>1. PICK x, seen, i : x = J.order /\ seen = J.seen /\ i = Fresh(invoices)
    OBVIOUS
  <2>2. orders' = [orders EXCEPT ![x] = [seen EXCEPT !.status = "INVOICED", !.invoice = i]] /\ J.op = "convertToInvoice"
    BY <1>5, <2>1 DEF ConvertToInvoice, Doing
  <2>3. x \in Orders /\ Exists(orders, x) /\ orders[x] = seen /\ seen \in SalesOrder /\ seen.status = "DELIVERED"
    BY <2>1, <2>2, OrderRead DEF SaleDomains, OrderOps, SaleJob
  <2>4. CASE o = x
    <3>1. orders'[o].lines = seen.lines
      BY <2>2, <2>3, <2>4 DEF SaleDomains, SalesOrder
    <3> QED BY <2>3, <2>4, <3>1 DEF IsDeliveredOrder
  <2>5. CASE o # x
    BY <1>1, <2>2, <2>5 DEF SaleDomains
  <2> QED BY <2>4, <2>5
<1>6. CASE DeleteOrder(w)
  <2>1. PICK x : x = J.order
    OBVIOUS
  <2>2. orders' = [orders EXCEPT ![x] = Absent]
    BY <1>6, <2>1 DEF DeleteOrder
  <2>3. orders'[o] = orders[o]
    BY <2>2 DEF IsDeliveredOrder, Exists, SaleDomains
  <2> QED BY <1>1, <2>3
<1>7. CASE DeleteQuote(w)
  <2>0. PICK q, forget : q = J.quote /\ forget = (J.seen.status = "CONVERTED")
    OBVIOUS
  <2>1. orders' = [x \in Orders |-> IF forget /\ Exists(orders, x) /\ orders[x].quote = q
                                    THEN [orders[x] EXCEPT !.quote = None] ELSE orders[x]]
    BY <1>7, <2>0 DEF DeleteQuote
  <2>2. CASE Exists(orders, o)
    <3>1. orders[o] \in SalesOrder
      BY <2>2 DEF SaleRows, OrderRows
    <3>2. orders'[o].lines = orders[o].lines /\ orders'[o].status = orders[o].status
      BY <2>1, <3>1 DEF SalesOrder
    <3> QED BY <2>2, <3>2 DEF IsDeliveredOrder
  <2>3. CASE ~Exists(orders, o)
    BY <1>1, <2>1, <2>3
  <2> QED BY <2>2, <2>3
<1> QED BY <1>1, <1>2, <1>3, <1>4, <1>5, <1>6, <1>7, OrderChanges

LEMMA GoodsStayAway ==
  ASSUME StockAssumption, SalesAssumption, StockDomains, StockRows, SaleDomains, SaleRows, NEW w \in Workers, SaleJob(w), SalesNext(w),
         GoodsLeft
  PROVE  GoodsLeft'
<1> SUFFICES ASSUME NEW o \in Orders, IsDeliveredOrder(o)', NEW p \in Physical, orders'[o].lines[p] > 0,
                    NEW n, n = orders'[o].lines[p]
             PROVE  HasLeft(o, p, n)'
  BY DEF GoodsLeft
<1>1. CASE IsDeliveredOrder(o) /\ orders'[o].lines = orders[o].lines
  <2>1. HasLeft(o, p, n)
    BY <1>1 DEF GoodsLeft
  <2>2. Exists(orders', o)
    BY DEF IsDeliveredOrder
  <2> QED BY <1>1, <2>1, <2>2, LeftStays
<1>2. ASSUME NEW kind, NEW source, NEW row, orders'[o] = row, MoveFits(w, kind, source, o, FALSE, row.lines)
      PROVE  HasLeft(o, p, n)'
  <2>1. PICK lines : lines = row.lines
    OBVIOUS
  <2>2. PICK ids : MovesAs(ids, kind, source, o, FALSE, lines)
    BY <1>2, <2>1, MovesStock
  <2>3. lines[p] = n /\ lines[p] > 0 /\ p \in Products /\ p \notin Services
    BY <1>2, <2>1 DEF Physical
  <2>4. p \in Leaving(lines) /\ Taken(lines, p) = n
    BY <2>3 DEF Leaving, Taken
  <2>5. ids[p] \in Movements /\ movements'[ids[p]] = Line(kind, source, o, lines, p)
    BY <2>2, <2>4 DEF MovesAs
  <2>6. PICK m : m = ids[p]
    OBVIOUS
  <2>7. /\ m \in Movements /\ Exists(movements', m) /\ movements'[m].status = "LIVE" /\ movements'[m].product = p
        /\ movements'[m].order = o /\ movements'[m].quantity = -n
    BY <2>4, <2>5, <2>6 DEF Line, Exists, Absent
  <2> QED BY <2>7 DEF HasLeft
<1> QED BY <1>1, <1>2, NewlyDelivered

LEMMA GoodsStep ==
  ASSUME StockAssumption, SalesAssumption, JobsShape, SalesInv, StockInv, GoodsHaveLeft, [Next]_vars
  PROVE  GoodsHaveLeft'
<1> SUFFICES ASSUME OneByOne' PROVE GoodsLeft'
  BY DEF GoodsHaveLeft
<1>0. UNCHANGED <<salesVars, stockVars>> /\ GoodsLeft => GoodsLeft'
  BY DEF GoodsLeft, IsDeliveredOrder, HasLeft, Exists, salesVars, stockVars
<1>1. CASE UNCHANGED <<salesVars, stockVars, marred>>
  BY <1>0, <1>1 DEF GoodsHaveLeft, OneByOne
<1>2. ASSUME NEW w \in Workers, Acts(w),
             UNCHANGED <<salesVars, stockVars>> \/ SalesNext(w) \/ (StockNext(w) /\ UNCHANGED salesVars)
      PROVE  GoodsLeft'
  <2>1. OneByOne
    BY <1>2 DEF Acts, OneByOne
  <2>2. SaleDomains /\ SaleRows /\ SaleJob(w) /\ StockDomains /\ StockRows /\ StockJob(w) /\ GoodsLeft
    BY <2>1 DEF SalesInv, StockInv, GoodsHaveLeft
  <2>3. CASE SalesNext(w)
    BY <2>2, <2>3, GoodsStayAway
  <2>4. CASE StockNext(w) /\ UNCHANGED salesVars
    <3> SUFFICES ASSUME NEW o \in Orders, IsDeliveredOrder(o)', NEW p \in Physical, orders'[o].lines[p] > 0
                 PROVE  HasLeft(o, p, orders[o].lines[p])'
      BY DEF GoodsLeft
    <3>1. orders' = orders /\ HasLeft(o, p, orders[o].lines[p])
      BY <2>2, <2>4 DEF GoodsLeft, IsDeliveredOrder, Exists, salesVars
    <3>2. PICK m \in Movements :
            /\ Exists(movements, m) /\ movements[m].status = "LIVE" /\ movements[m].product = p
            /\ movements[m].order = o /\ movements[m].quantity = -orders[o].lines[p]
      BY <3>1 DEF HasLeft
    <3>3. movements'[m] = movements[m]
      BY <2>2, <2>4, <3>2, StockKeepsMoves
    <3> QED BY <3>1, <3>2, <3>3 DEF HasLeft, Exists
  <2> QED BY <1>0, <1>2, <2>2, <2>3, <2>4
<1> QED BY <1>1, <1>2, ClientStep DEF Goes, vars, jobVars, NewDay

(* Goods delivered have left the stock by movements of their order, for    *)
(* any orders, products and movements and handlers that do not overlap,    *)
(* wherever they fail.                                                     *)
THEOREM DeliveredAlwaysTookStock ==
  ASSUME StockAssumption, SalesAssumption PROVE Spec => [](OneByOne => DeliveredTookStock)
<1>1. Init => GoodsHaveLeft
  BY DEF Init, SalesInit, GoodsHaveLeft, GoodsLeft, IsDeliveredOrder, Exists
<1>2. JobsShape /\ SalesInv /\ StockInv /\ GoodsHaveLeft /\ [Next]_vars => GoodsHaveLeft'
  BY GoodsStep
<1>3. SalesInv /\ StockInv /\ GoodsHaveLeft => (OneByOne => DeliveredTookStock)
  <2> SUFFICES ASSUME SalesInv, StockInv, GoodsHaveLeft, OneByOne, NEW o \in Rows(orders),
                      orders[o].status \in {"DELIVERED", "INVOICED"}, NEW p \in Physical
               PROVE  TookFor(o, p) >= orders[o].lines[p]
    BY DEF DeliveredTookStock
  <2> DEFINE S == {m \in LiveOf(p) : movements[m].order = o}
  <2>1. S \in SUBSET Movements /\ o \in Orders /\ Exists(orders, o) /\ p \in Products
    BY DEF LiveOf, Rows, StockInv, StockDomains, SalesInv, SaleDomains, Physical
  <2>2. IsFiniteSet(S)
    BY <2>1, FS_Subset DEF StockAssumption
  <2>3. \A m \in S : movements[m].quantity \in Int /\ movements[m].quantity <= 0
    <3> SUFFICES ASSUME NEW m \in S PROVE movements[m].quantity \in Int /\ movements[m].quantity <= 0
      OBVIOUS
    <3>1. m \in Movements /\ Exists(movements, m) /\ movements[m].order = o
      BY <2>1 DEF LiveOf, Rows
    <3>2. MoveWell(movements[m])
      BY <3>1 DEF StockInv, StockRows, MoveRows
    <3> QED BY <2>1, <3>1, <3>2 DEF MoveWell, MoveRow, SalesAssumption
  <2>4. \A m : m \in Movements /\ Exists(movements, m) /\ movements[m].status = "LIVE" /\ movements[m].product = p
               /\ movements[m].order = o => m \in S
    BY DEF LiveOf, Rows, Live, StockInv, StockDomains
  <2>5. TookFor(o, p) = -Quantity(movements, S)
    BY DEF TookFor
  <2> HIDE DEF S
  <2>6. /\ Quantity(movements, S) \in Int /\ Quantity(movements, S) <= 0
        /\ \A e \in S : Quantity(movements, S) <= movements[e].quantity
    BY <2>2, <2>3, QuantityAtMost
  <2>7. orders[o].lines[p] \in Nat
    BY <2>1 DEF SalesInv, SaleRows, OrderRows, SalesOrder
  <2>8. CASE orders[o].lines[p] = 0
    BY <2>5, <2>6, <2>8
  <2>9. CASE orders[o].lines[p] > 0
    <3>1. HasLeft(o, p, orders[o].lines[p])
      BY <2>1, <2>9 DEF GoodsHaveLeft, GoodsLeft, IsDeliveredOrder
    <3>2. PICK m \in S : movements[m].quantity = -orders[o].lines[p]
      BY <2>4, <3>1 DEF HasLeft
    <3>3. Quantity(movements, S) <= -orders[o].lines[p]
      BY <2>6, <3>2
    <3> QED BY <2>5, <2>6, <2>7, <3>3
  <2> QED BY <2>7, <2>8, <2>9
<1> QED
  BY <1>1, <1>2, <1>3, StockAlways, PTL DEF Spec

-----------------------------------------------------------------------------
(* The stock on hand: while a handler has saved one of its two rows and    *)
(* not the other, the quantity of the product and its movements are apart  *)
(* by what that handler still owes; otherwise they agree.                  *)
LEMMA LiveRows ==
  ASSUME StockAssumption, StockDomains, MoveRows, NEW p
  PROVE  /\ LiveOf(p) \in SUBSET Movements /\ IsFiniteSet(LiveOf(p))
         /\ \A m \in LiveOf(p) : movements[m].quantity \in Int
         /\ Moved(p) \in Int
<1>1. LiveOf(p) \in SUBSET Movements /\ \A m \in LiveOf(p) : Exists(movements, m)
  BY DEF LiveOf, Rows, StockDomains
<1>2. IsFiniteSet(LiveOf(p))
  BY <1>1, FS_Subset DEF StockAssumption
<1>3. \A m \in LiveOf(p) : movements[m].quantity \in Int
  BY <1>1 DEF MoveRows, MoveWell, MoveRow
<1>4. Quantity(movements, LiveOf(p)) \in Int
  BY <1>2, <1>3, QuantityType
<1> QED BY <1>1, <1>2, <1>3, <1>4 DEF Moved

Adding(row, p) == IF row.status = "LIVE" /\ row.product = p THEN row.quantity ELSE 0

(* Saving a movement takes out what it counted for, puts in what it does.  *)
LEMMA MovedBySave ==
  ASSUME StockAssumption, StockDomains, MoveRows, NEW x \in Movements, NEW row, MoveWell(row), row # Absent,
         movements' = [movements EXCEPT ![x] = row], NEW p
  PROVE  /\ Exists(movements, x) => Moved(p)' = Moved(p) - Adding(movements[x], p) + Adding(row, p)
         /\ ~Exists(movements, x) => Moved(p)' = Moved(p) + Adding(row, p)
<1> DEFINE L == LiveOf(p)
           N == LiveOf(p)'
           S == L \ {x}
<1>1. L \in SUBSET Movements /\ IsFiniteSet(L) /\ \A m \in L : movements[m].quantity \in Int
  BY LiveRows
<1>2. IsFiniteSet(S) /\ \A m \in S : movements[m].quantity \in Int /\ movements'[m] = movements[m]
  BY <1>1, FS_Subset DEF StockDomains
<1>3. row.quantity \in Int /\ movements'[x] = row
  BY DEF MoveWell, MoveRow, StockDomains
<1>4. x \in L <=> Exists(movements, x) /\ movements[x].status = "LIVE" /\ movements[x].product = p
  BY DEF LiveOf, Rows, Live, StockDomains
<1>5. /\ x \in N <=> row.status = "LIVE" /\ row.product = p
      /\ \A m : m # x => (m \in N <=> m \in L)
  <2>1. DOMAIN movements' = Movements /\ \A m \in Movements : m # x => movements'[m] = movements[m]
    BY DEF StockDomains
  <2>2. \A m : m \in N <=> m \in Movements /\ movements'[m] # Absent /\ movements'[m].status = "LIVE" /\ movements'[m].product = p
    BY <2>1 DEF LiveOf, Rows, Live, Exists
  <2>3. \A m : m \in L <=> m \in Movements /\ movements[m] # Absent /\ movements[m].status = "LIVE" /\ movements[m].product = p
    BY DEF LiveOf, Rows, Live, Exists, StockDomains
  <2> QED BY <1>3, <2>1, <2>2, <2>3
<1>6. Moved(p) = Quantity(movements, L) /\ Moved(p)' = Quantity(movements', N)
  BY DEF Moved
<1>a. x \notin S
  OBVIOUS
<1>b. x \in L => L = S \cup {x}
  OBVIOUS
<1>c. x \notin L => L = S
  OBVIOUS
<1>d. x \in N => N = S \cup {x}
  BY <1>5
<1>e. x \notin N => N = S
  BY <1>5
<1>f. x \in L => movements[x].quantity \in Int
  BY <1>1
<1> HIDE DEF L, N, S
<1>7. Quantity(movements, S) \in Int /\ Quantity(movements', S) = Quantity(movements, S)
  BY <1>2, QuantityType, QuantitySame
<1>8. x \in L => Quantity(movements, L) = Quantity(movements, S) + movements[x].quantity
  <2> SUFFICES ASSUME x \in L PROVE Quantity(movements, S \cup {x}) = Quantity(movements, S) + movements[x].quantity
    BY <1>b
  <2>1. \A m \in S : movements[m].quantity \in Int /\ movements[m] = movements[m]
    BY <1>2
  <2> QED BY <1>2, <1>a, <1>f, <2>1, QuantityGrows
<1>9. Quantity(movements', S \cup {x}) = Quantity(movements, S) + row.quantity
  <2>1. movements'[x].quantity \in Int /\ movements'[x].quantity = row.quantity
    BY <1>3
  <2>2. PICK before, after : before = movements /\ after = movements'
    OBVIOUS
  <2>3. /\ \A m \in S : before[m].quantity \in Int /\ after[m] = before[m]
        /\ after[x].quantity \in Int /\ IsFiniteSet(S)
    BY <1>2, <2>1, <2>2
  <2>4. Quantity(after, S \cup {x}) = Quantity(before, S) + after[x].quantity
    BY <1>a, <2>3, QuantityGrows
  <2> QED BY <2>1, <2>2, <2>4
<1>10. PICK old, new, kept, m1, m2 :
         /\ old = movements[x].quantity /\ new = row.quantity /\ kept = Quantity(movements, S)
         /\ m1 = Moved(p) /\ m2 = Moved(p)'
  OBVIOUS
<1>11. m1 = IF x \in L THEN kept + old ELSE kept
  BY <1>6, <1>8, <1>10, <1>c
<1>12. m2 = IF x \in N THEN kept + new ELSE kept
  BY <1>6, <1>7, <1>9, <1>10, <1>d, <1>e
<1>13. kept \in Int /\ new \in Int /\ (x \in L => old \in Int)
  BY <1>3, <1>7, <1>10, <1>f
<1>14. Adding(row, p) = IF x \in N THEN new ELSE 0
  BY <1>5, <1>10 DEF Adding
<1>15. Exists(movements, x) => Adding(movements[x], p) = IF x \in L THEN old ELSE 0
  BY <1>4, <1>10 DEF Adding
<1>16. ~Exists(movements, x) => x \notin L
  BY <1>4
<1> QED BY <1>10, <1>11, <1>12, <1>13, <1>14, <1>15, <1>16

(* What an order gives back and takes is what its movements say. *)
LEMMA MovedBySales ==
  ASSUME StockAssumption, SalesAssumption, StockDomains, MoveRows, StockDomains', NEW ids, NEW kind, NEW source, NEW order,
         NEW back \in BOOLEAN, NEW lines \in [Products -> Nat],
         MovesAs(ids, kind, source, order, back, lines), NEW p \in Products
  PROVE  Moved(p)' = Moved(p) + Given(back, source, p) - Taken(lines, p)
<1> DEFINE L == LiveOf(p)
           N == LiveOf(p)'
           G == {m \in Gone(back, source) : movements[m].product = p}
           S == L \ G
           T == Taken(lines, p)
<1>1. L \in SUBSET Movements /\ IsFiniteSet(L) /\ \A m \in L : movements[m].quantity \in Int
  BY LiveRows
<1>2. \A m : m \in L <=> m \in Movements /\ movements[m] # Absent /\ movements[m].status = "LIVE" /\ movements[m].product = p
  BY DEF LiveOf, Rows, Live, Exists, StockDomains
<1>3. \A m : m \in N <=> m \in Movements /\ movements'[m] # Absent /\ movements'[m].status = "LIVE" /\ movements'[m].product = p
  <2>1. DOMAIN movements' = Movements
    BY DEF StockDomains
  <2> QED BY <2>1 DEF LiveOf, Rows, Live, Exists
<1>4. G \in SUBSET L
  <2> SUFFICES ASSUME NEW m \in G PROVE m \in L
    OBVIOUS
  <2>1. m \in Movements /\ Exists(movements, m) /\ movements[m].kind = "SALES_ORDER" /\ movements[m].product = p
    BY DEF Gone, MovementsOf, Rows, StockDomains
  <2>2. MoveWell(movements[m])
    BY <2>1 DEF MoveRows
  <2> QED BY <1>2, <2>1, <2>2 DEF MoveWell, Exists
<1>5. Given(back, source, p) = -Quantity(movements, G)
  <2>1. CASE back
    BY <2>1 DEF Given, Gone, Returned
  <2>2. CASE ~back
    <3>1. G = {}
      BY <2>2 DEF Gone
    <3>2. Quantity(movements, {}) = 0
      BY SumEmpty DEF Quantity
    <3>3. Given(back, source, p) = 0
      BY <2>2 DEF Given
    <3> HIDE DEF G
    <3>4. Quantity(movements, G) = 0
      BY <3>1, <3>2
    <3>5. \A n \in Int : -n = 0 - n
      OBVIOUS
    <3>6. Quantity(movements, G) \in Int
      BY <3>4
    <3>7. -Quantity(movements, G) = 0 - Quantity(movements, G)
      BY <3>5, <3>6
    <3> QED BY <3>3, <3>4, <3>7
  <2> QED BY <2>1, <2>2
<1>6. T \in Nat /\ (p \notin Leaving(lines) => T = 0)
  BY TakenType
<1>7. \A m \in S : m \in N /\ movements'[m] = movements[m] /\ \A q \in Leaving(lines) : ids[q] # m
  <2> SUFFICES ASSUME NEW m \in S PROVE m \in N /\ movements'[m] = movements[m] /\ \A q \in Leaving(lines) : ids[q] # m
    OBVIOUS
  <2>1. m \in Movements /\ Exists(movements, m) /\ m \notin Gone(back, source)
    BY <1>2 DEF Exists
  <2>2. \A q \in Leaving(lines) : ids[q] # m
    BY <2>1 DEF MovesAs
  <2>3. movements'[m] = movements[m]
    BY <2>1, <2>2 DEF MovesAs
  <2> QED BY <1>2, <1>3, <2>2, <2>3
<1>8. \A m \in N : m \notin S => p \in Leaving(lines) /\ m = ids[p]
  <2> SUFFICES ASSUME NEW m \in N, m \notin S PROVE p \in Leaving(lines) /\ m = ids[p]
    OBVIOUS
  <2>1. m \in Movements /\ movements'[m] # Absent /\ movements'[m].status = "LIVE" /\ movements'[m].product = p
    BY <1>3
  <2>2. CASE \E q \in Leaving(lines) : ids[q] = m
    <3>1. PICK q \in Leaving(lines) : ids[q] = m
      BY <2>2
    <3>2. movements'[m] = Line(kind, source, order, lines, q)
      BY <3>1 DEF MovesAs
    <3> QED BY <2>1, <3>1, <3>2 DEF Line
  <2>3. CASE \A q \in Leaving(lines) : ids[q] # m
    <3>1. movements'[m] = IF m \in Gone(back, source) THEN Absent ELSE movements[m]
      BY <2>1, <2>3 DEF MovesAs
    <3>2. m \in L /\ m \notin G
      BY <1>2, <2>1, <3>1
    <3> QED BY <3>2
  <2> QED BY <2>2, <2>3
<1>9. p \in Leaving(lines) => ids[p] \in N /\ ids[p] \notin S /\ movements'[ids[p]].quantity = -T
  <2> SUFFICES ASSUME p \in Leaving(lines) PROVE ids[p] \in N /\ ids[p] \notin S /\ movements'[ids[p]].quantity = -T
    OBVIOUS
  <2>1. ids[p] \in Movements /\ movements'[ids[p]] = Line(kind, source, order, lines, p)
    BY DEF MovesAs
  <2>2. Line(kind, source, order, lines, p) # Absent
    BY DEF Line, Absent
  <2> QED BY <1>3, <1>7, <2>1, <2>2 DEF Line
<1>a. IsFiniteSet(S) /\ \A m \in S : movements[m].quantity \in Int /\ movements'[m] = movements[m]
  BY <1>1, <1>7, FS_Subset
<1>b. IsFiniteSet(G) /\ \A m \in G : movements[m].quantity \in Int
  BY <1>1, <1>4, FS_Subset
<1>c. p \in Leaving(lines) => N = S \cup {ids[p]}
  BY <1>7, <1>8, <1>9
<1>d. p \notin Leaving(lines) => N = S
  BY <1>7, <1>8
<1>e. Moved(p) = Quantity(movements, L) /\ Moved(p)' = Quantity(movements', N)
  BY DEF Moved
<1> HIDE DEF N, G, T
<1>f. Quantity(movements, L) = Quantity(movements, G) + Quantity(movements, S)
  <2> HIDE DEF L
  <2> QED BY <1>1, <1>4, QuantitySplit
<1> HIDE DEF L, S
<1>g. Quantity(movements, S) \in Int /\ Quantity(movements', S) = Quantity(movements, S)
  BY <1>a, QuantityType, QuantitySame
<1>h. Quantity(movements, G) \in Int
  BY <1>b, QuantityType
<1>i. Quantity(movements', N) = Quantity(movements, S) - T
  <2>1. CASE p \in Leaving(lines)
    <3>1. PICK e : e = ids[p]
      OBVIOUS
    <3>2. e \notin S /\ movements'[e].quantity = -T /\ -T \in Int /\ N = S \cup {e}
      BY <1>6, <1>9, <1>c, <2>1, <3>1
    <3>3. Quantity(movements', S \cup {e}) = Quantity(movements, S) + movements'[e].quantity
      BY <1>a, <3>2, QuantityGrows
    <3> QED BY <1>6, <1>g, <3>2, <3>3
  <2>2. CASE p \notin Leaving(lines)
    BY <1>6, <1>d, <1>g, <2>2
  <2> QED BY <2>1, <2>2
<1>j. Moved(p)' = Moved(p) + Given(back, source, p) - T
  BY <1>5, <1>6, <1>e, <1>f, <1>g, <1>h, <1>i
<1> QED BY <1>j DEF T

(* What the handler a worker is in the middle of still has to put into the *)
(* quantity of a product, or to take out of its movements.                 *)
Debt(w, p) ==
  IF Doing(w, "movement") /\ job[w].written /\ job[w].product = p THEN job[w].change
  ELSE IF Doing(w, "removal") /\ job[w].returned /\ job[w].seen.product = p THEN job[w].seen.quantity
  ELSE 0
Balance(w, p) == products[p].quantity + Debt(w, p) = Opening[p] + Moved(p) + offBook[p]
BooksBalance ==
  Unmarred => \A p \in Physical, w \in Workers : (\A v \in Workers \ {w} : Free(v)) => Balance(w, p)

LEMMA DebtType ==
  ASSUME StockDomains, StockRows, NEW w, StockJob(w), NEW p
  PROVE  Debt(w, p) \in Int
<1>1. ASSUME Doing(w, "removal") PROVE job[w].seen.quantity \in Int
  BY <1>1 DEF Doing, StockJob, Here, StockDomains, StockRows, MoveRows, MoveWell, MoveRow
<1>2. ASSUME Doing(w, "movement") PROVE job[w].change \in Int
  BY <1>2 DEF Doing, StockJob
<1> QED BY <1>1, <1>2 DEF Debt

LEMMA StillBalanced ==
  ASSUME StockAssumption, StockDomains, StockRows, NEW w \in Workers, StockJob(w), NEW p \in Physical, Balance(w, p),
         NEW a \in Int, NEW b \in Int, NEW c \in Int, NEW d \in Int, a + b = c + d,
         products'[p].quantity = products[p].quantity + a, Debt(w, p)' = Debt(w, p) + b,
         Moved(p)' = Moved(p) + c, offBook'[p] = offBook[p] + d
  PROVE  Balance(w, p)'
<1>1. products[p].quantity \in Int /\ offBook[p] \in Int /\ Opening[p] \in Int
  BY DEF StockRows, Product, Physical, StockAssumption
<1>2. Debt(w, p) \in Int /\ Moved(p) \in Int
  BY DebtType, LiveRows DEF StockRows
<1>3. products[p].quantity + Debt(w, p) = Opening[p] + Moved(p) + offBook[p]
  BY DEF Balance
<1>4. (products[p].quantity + a) + (Debt(w, p) + b) = Opening[p] + (Moved(p) + c) + (offBook[p] + d)
  BY <1>1, <1>2, <1>3
<1> QED BY <1>4 DEF Balance

LEMMA BalanceAlone ==
  ASSUME StockAssumption, StockDomains, StockRows, NEW w \in Workers, StockJob(w), NEW p \in Physical, Balance(w, p),
         UNCHANGED stockVars, Debt(w, p)' = Debt(w, p)
  PROVE  Balance(w, p)'
<1>1. Moved(p)' = Moved(p)
  BY DEF Moved, LiveOf, Live, Rows, Exists, stockVars
<1> QED BY <1>1 DEF Balance, stockVars

LEMMA StockKeepsBalance ==
  ASSUME JobsShape, StockAssumption, StockDomains, StockRows, NEW w \in Workers, StockJob(w), StockNext(w),
         NEW p \in Physical, Balance(w, p)
  PROVE  Balance(w, p)'
<1> DEFINE J == job[w]
<1>0. "op" \in DOMAIN J /\ p \in Products /\ products[p] \in Product /\ offBook[p] \in Int /\ Debt(w, p) \in Int /\ Moved(p) \in Int
  BY DebtType, LiveRows DEF JobsShape, Physical, StockRows
<1>a. 0 \in Int /\ products[p].quantity + 0 = products[p].quantity /\ offBook[p] + 0 = offBook[p]
      /\ Debt(w, p) + 0 = Debt(w, p) /\ Moved(p) + 0 = Moved(p)
  BY <1>0 DEF Product
<1>1. CASE StartMovement(w)
  <2>1. PICK j : j.op = "movement" /\ "op" \in DOMAIN j /\ ~j.written /\ Begin(w, j)
    <3>1. PICK r \in Physical, q \in Quantities : \E change \in {q, -q} :
            Begin(w, [op |-> "movement", product |-> r, change |-> change, seen |-> products[r], written |-> FALSE])
      BY <1>1 DEF StartMovement
    <3>2. PICK change \in {q, -q} :
            Begin(w, [op |-> "movement", product |-> r, change |-> change, seen |-> products[r], written |-> FALSE])
      BY <3>1
    <3> QED BY <3>2
  <2>2. job'[w] = j /\ J = Idle
    BY <2>1, BeginActs
  <2>3. Debt(w, p)' = 0 /\ Debt(w, p) = 0
    BY <2>1, <2>2 DEF Debt, Doing, Idle
  <2>4. UNCHANGED stockVars
    BY <1>1 DEF StartMovement
  <2> QED BY <2>3, <2>4, BalanceAlone
<1>2. CASE SaveMovement(w)
  <2>0. PICK r, change, m, row : r = J.product /\ change = J.change /\ m = Fresh(movements) /\ row = Manual(r, change)
    OBVIOUS
  <2>1. /\ J.op = "movement" /\ ~J.written /\ movements' = [movements EXCEPT ![m] = row]
        /\ Continue(w, [J EXCEPT !.written = TRUE]) /\ UNCHANGED <<products, offBook>> /\ CanInsert(movements)
    BY <1>2, <2>0 DEF SaveMovement, Doing
  <2>2. job'[w] = [J EXCEPT !.written = TRUE]
    <3>1. "op" \in DOMAIN [J EXCEPT !.written = TRUE]
      BY <1>0
    <3> QED BY <2>1, <3>1, ContinueActs
  <2>3. DOMAIN J = {"op", "product", "change", "seen", "written"} /\ r \in Physical /\ change \in Int
    BY <2>0, <2>1 DEF StockJob
  <2>4. MoveWell(row) /\ row # Absent /\ m \in Movements /\ ~Exists(movements, m)
    BY <2>0, <2>1, <2>3, ManualWell, FreshRow DEF Physical, StockDomains
  <2>5. PICK n : n = IF r = p THEN change ELSE 0
    OBVIOUS
  <2>6. Moved(p)' = Moved(p) + Adding(row, p)
    BY <2>1, <2>4, MovedBySave DEF StockRows
  <2>7. Adding(row, p) = n /\ n \in Int
    BY <2>0, <2>3, <2>5 DEF Adding, Manual
  <2>8. Debt(w, p) = 0
    BY <2>1 DEF Debt, Doing
  <2>9. Debt(w, p)' = n
    <3>1. job'[w].op = "movement" /\ job'[w].written /\ job'[w].product = r /\ job'[w].change = change
      BY <2>0, <2>1, <2>2, <2>3
    <3> QED BY <2>5, <3>1 DEF Debt, Doing
  <2>10. Debt(w, p)' = Debt(w, p) + n /\ 0 + n = n + 0
    BY <2>7, <2>8, <2>9
  <2> QED BY <1>a, <2>1, <2>6, <2>7, <2>10, StillBalanced
<1>3. CASE SaveQuantity(w)
  <2>0. PICK r, change, seen, row : r = J.product /\ change = J.change /\ seen = J.seen /\ row = QuantityAfter(seen, change)
    OBVIOUS
  <2>1. /\ J.op = "movement" /\ J.written /\ products' = [products EXCEPT ![r] = row] /\ Finish(w)
        /\ UNCHANGED <<movements, offBook>>
    BY <1>3, <2>0 DEF SaveQuantity, Doing
  <2>2. job'[w] = Idle
    BY <2>1, FinishActs
  <2>3. r \in Products /\ change \in Int /\ seen = products[r]
    BY <2>0, <2>1 DEF StockJob, Physical
  <2>4. PICK n : n = IF r = p THEN change ELSE 0
    OBVIOUS
  <2>5. products'[p].quantity = products[p].quantity + n /\ n \in Int /\ -n \in Int
    <3>1. CASE r = p
      <4>1. products'[p] = row /\ row = [products[p] EXCEPT !.quantity = @ + change]
        BY <1>0, <2>0, <2>1, <2>3, <3>1 DEF QuantityAfter, StockDomains
      <4> QED BY <1>0, <2>3, <2>4, <3>1, <4>1 DEF Product
    <3>2. CASE r # p
      BY <1>a, <2>1, <2>4, <3>2 DEF StockDomains
    <3> QED BY <3>1, <3>2
  <2>6. Debt(w, p) = n
    BY <2>0, <2>1, <2>4 DEF Debt, Doing
  <2>7. Debt(w, p)' = 0
    BY <2>2 DEF Debt, Doing, Idle
  <2>8. Debt(w, p)' = Debt(w, p) + (-n) /\ n + (-n) = 0 + 0
    BY <2>5, <2>6, <2>7
  <2>9. Moved(p)' = Moved(p)
    BY <2>1 DEF Moved, LiveOf, Live, Rows, Exists
  <2> QED BY <1>a, <2>1, <2>5, <2>8, <2>9, StillBalanced
<1>4. CASE StartRemoval(w)
  <2>1. PICK j : j.op = "removal" /\ "op" \in DOMAIN j /\ ~j.returned /\ Begin(w, j)
    <3>1. PICK m \in Rows(movements) :
          Begin(w, [op |-> "removal", movement |-> m, seen |-> movements[m],
                    product |-> products[movements[m].product], returned |-> FALSE])
      BY <1>4 DEF StartRemoval
    <3> QED BY <3>1
  <2>2. job'[w] = j /\ J = Idle
    BY <2>1, BeginActs
  <2>3. Debt(w, p)' = 0 /\ Debt(w, p) = 0
    BY <2>1, <2>2 DEF Debt, Doing, Idle
  <2>4. UNCHANGED stockVars
    BY <1>4 DEF StartRemoval
  <2> QED BY <2>3, <2>4, BalanceAlone
<1>5. CASE ReturnQuantity(w)
  <2>0. PICK seen, product, row, r, q :
          /\ seen = J.seen /\ product = J.product /\ r = seen.product /\ q = seen.quantity
          /\ row = QuantityAfter(product, -q)
    OBVIOUS
  <2>1. /\ J.op = "removal" /\ ~J.returned /\ products' = [products EXCEPT ![r] = row]
        /\ Continue(w, [J EXCEPT !.returned = TRUE]) /\ UNCHANGED <<movements, offBook>>
    BY <1>5, <2>0 DEF ReturnQuantity, Doing
  <2>2. job'[w] = [J EXCEPT !.returned = TRUE]
    <3>1. "op" \in DOMAIN [J EXCEPT !.returned = TRUE]
      BY <1>0
    <3> QED BY <2>1, <3>1, ContinueActs
  <2>3. DOMAIN J = {"op", "movement", "seen", "product", "returned"} /\ r \in Products /\ q \in Int /\ product = products[r]
    <3>1. /\ DOMAIN J = {"op", "movement", "seen", "product", "returned"} /\ Here(movements, J.movement, seen)
          /\ product = products[r]
      BY <2>0, <2>1 DEF StockJob
    <3>2. seen \in MoveRow
      BY <3>1 DEF Here, StockRows, MoveRows, MoveWell, StockDomains
    <3> QED BY <2>0, <3>1, <3>2 DEF MoveRow
  <2>4. PICK n : n = IF r = p THEN q ELSE 0
    OBVIOUS
  <2>5. products'[p].quantity = products[p].quantity + (0 - n) /\ n \in Int /\ 0 - n \in Int /\ (0 - n) + n = 0 + 0
    <3>1. CASE r = p
      <4>1. products'[p] = row /\ row = [products[p] EXCEPT !.quantity = @ + (-q)]
        BY <1>0, <2>0, <2>1, <2>3, <3>1 DEF QuantityAfter, StockDomains
      <4>2. -q \in Int /\ n = q
        BY <2>3, <2>4, <3>1
      <4>3. products'[p].quantity = products[p].quantity + (-q)
        BY <1>0, <4>1, <4>2 DEF Product
      <4>4. -q = 0 - n
        BY <2>3, <4>2
      <4> QED BY <2>3, <4>2, <4>3, <4>4
    <3>2. CASE r # p
      <4>1. products'[p].quantity = products[p].quantity /\ n = 0
        BY <2>1, <2>4, <3>2 DEF StockDomains
      <4>2. products[p].quantity = products[p].quantity + (0 - n)
        BY <1>0, <4>1 DEF Product
      <4> QED BY <4>1, <4>2
    <3> QED BY <3>1, <3>2
  <2>6. Debt(w, p) = 0
    BY <2>1 DEF Debt, Doing
  <2>7. Debt(w, p)' = n
    <3>1. job'[w].op = "removal" /\ job'[w].returned /\ job'[w].seen = seen
      BY <2>0, <2>1, <2>2, <2>3
    <3> QED BY <2>0, <2>4, <3>1 DEF Debt, Doing
  <2>8. Debt(w, p)' = Debt(w, p) + n
    BY <2>5, <2>6, <2>7
  <2>9. Moved(p)' = Moved(p)
    BY <2>1 DEF Moved, LiveOf, Live, Rows, Exists
  <2> QED BY <1>a, <2>1, <2>5, <2>8, <2>9, StillBalanced
<1>6. CASE MarkRemoved(w)
  <2>0. PICK m, seen, row : m = J.movement /\ seen = J.seen /\ row = [seen EXCEPT !.status = "DELETED"]
    OBVIOUS
  <2>1. /\ J.op = "removal" /\ J.returned /\ movements' = [movements EXCEPT ![m] = row] /\ Finish(w)
        /\ UNCHANGED <<products, offBook>>
    BY <1>6, <2>0 DEF MarkRemoved, Doing
  <2>2. job'[w] = Idle
    BY <2>1, FinishActs
  <2>3. m \in Movements /\ Exists(movements, m) /\ movements[m] = seen /\ seen.kind = "MANUAL" /\ seen.status = "LIVE" /\ MoveWell(seen)
    <3>1. Here(movements, m, seen) /\ seen.kind = "MANUAL" /\ seen.status = "LIVE"
      BY <2>0, <2>1 DEF StockJob
    <3> QED BY <3>1 DEF Here, StockRows, MoveRows, StockDomains
  <2>4. MoveWell(row) /\ row # Absent /\ row.status = "DELETED"
    BY <2>0, <2>3 DEF MoveWell, MoveRow, Absent
  <2>5. PICK n : n = IF seen.product = p THEN seen.quantity ELSE 0
    OBVIOUS
  <2>6. Moved(p)' = Moved(p) - Adding(movements[m], p) + Adding(row, p)
    BY <2>1, <2>3, <2>4, MovedBySave DEF StockRows
  <2>7. Adding(movements[m], p) = n /\ Adding(row, p) = 0 /\ n \in Int
    BY <2>3, <2>4, <2>5 DEF Adding, MoveWell, MoveRow
  <2>8. Moved(p)' = Moved(p) + (0 - n) /\ 0 - n \in Int /\ 0 + (0 - n) = (0 - n) + 0
    BY <1>0, <2>6, <2>7
  <2>9. Debt(w, p) = n
    BY <2>0, <2>1, <2>5 DEF Debt, Doing
  <2>10. Debt(w, p)' = 0
    BY <2>2 DEF Debt, Doing, Idle
  <2>11. Debt(w, p)' = Debt(w, p) + (0 - n)
    BY <2>7, <2>9, <2>10
  <2> QED BY <1>a, <2>1, <2>8, <2>11, StillBalanced
<1>7. CASE RestoreMovement(w)
  <2>1. PICK m \in Rows(movements) :
          /\ movements[m].status = "DELETED" /\ movements' = [movements EXCEPT ![m].status = "LIVE"]
          /\ offBook' = [offBook EXCEPT ![movements[m].product] = @ - movements[m].quantity]
    BY <1>7 DEF RestoreMovement
  <2>2. PICK row, new, r, q :
          row = movements[m] /\ new = [row EXCEPT !.status = "LIVE"] /\ r = row.product /\ q = row.quantity
    OBVIOUS
  <2>3. job'[w] = Idle /\ J = Idle /\ UNCHANGED products /\ movements' = [movements EXCEPT ![m] = new]
        /\ offBook' = [offBook EXCEPT ![r] = @ - q]
    BY <1>7, <2>1, <2>2, AtOnceActs DEF RestoreMovement
  <2>4. m \in Movements /\ Exists(movements, m) /\ MoveWell(row) /\ row.status = "DELETED"
    BY <2>1, <2>2 DEF Rows, StockDomains, StockRows, MoveRows
  <2>5. MoveWell(new) /\ new # Absent /\ new.status = "LIVE" /\ new.product = r /\ new.quantity = q /\ q \in Int /\ r \in Products
    BY <2>2, <2>4 DEF MoveWell, MoveRow, Absent
  <2>6. PICK n : n = IF r = p THEN q ELSE 0
    OBVIOUS
  <2>7. Moved(p)' = Moved(p) - Adding(movements[m], p) + Adding(new, p)
    BY <2>3, <2>4, <2>5, MovedBySave DEF StockRows
  <2>8. Adding(movements[m], p) = 0 /\ Adding(new, p) = n /\ n \in Int
    BY <2>2, <2>4, <2>5, <2>6 DEF Adding
  <2>9. Moved(p)' = Moved(p) + n /\ 0 - n \in Int /\ 0 + 0 = n + (0 - n)
    BY <1>0, <2>7, <2>8
  <2>10. offBook'[p] = offBook[p] + (0 - n)
    <3>1. CASE r = p
      <4>1. offBook'[p] = offBook[p] - q
        BY <2>3, <2>5, <3>1 DEF StockDomains
      <4> QED BY <1>0, <2>5, <2>6, <3>1, <4>1
    <3>2. CASE r # p
      <4>1. offBook'[p] = offBook[p] /\ n = 0
        BY <2>3, <2>6, <3>2 DEF StockDomains
      <4> QED BY <1>0, <4>1
    <3> QED BY <3>1, <3>2
  <2>11. Debt(w, p)' = 0 /\ Debt(w, p) = 0
    BY <2>3 DEF Debt, Doing, Idle
  <2> QED BY <1>a, <2>3, <2>8, <2>9, <2>10, <2>11, StillBalanced
<1>8. CASE StartEdit(w)
  <2>1. PICK j : j.op \in Edits /\ "op" \in DOMAIN j /\ Begin(w, j)
    <3>1. PICK kind \in Edits, r \in Products, q \in Quantities :
            Begin(w, [op |-> kind, product |-> r, image |-> Edited(kind, r, products[r], q)])
      BY <1>8 DEF StartEdit
    <3> QED BY <3>1
  <2>2. job'[w] = j /\ J = Idle
    BY <2>1, BeginActs
  <2>3. Debt(w, p)' = 0 /\ Debt(w, p) = 0
    BY <2>1, <2>2 DEF Debt, Doing, Idle, Edits
  <2>4. UNCHANGED stockVars
    BY <1>8 DEF StartEdit
  <2> QED BY <2>3, <2>4, BalanceAlone
<1>9. CASE SaveEdit(w)
  <2>0. PICK r, image, q : r = J.product /\ image = J.image /\ q = products[r].quantity
    OBVIOUS
  <2>1. /\ J.op \in Edits /\ products' = [products EXCEPT ![r] = image]
        /\ offBook' = [offBook EXCEPT ![r] = @ + image.quantity - q]
        /\ Finish(w) /\ UNCHANGED movements
    BY <1>9, <2>0 DEF SaveEdit
  <2>2. job'[w] = Idle
    BY <2>1, FinishActs DEF Edits
  <2>3. r \in Products /\ image.quantity \in Int /\ q \in Int
    BY <2>0, <2>1 DEF StockJob, StockRows, Product
  <2>4. PICK n : n = IF r = p THEN image.quantity - q ELSE 0
    OBVIOUS
  <2>5. n \in Int /\ products'[p].quantity = products[p].quantity + n /\ offBook'[p] = offBook[p] + n /\ n + 0 = 0 + n
    <3>1. CASE r = p
      <4>1. products'[p].quantity = image.quantity /\ offBook'[p] = offBook[p] + image.quantity - q
        BY <2>1, <2>3, <3>1 DEF StockDomains
      <4>2. n = image.quantity - q /\ products[p].quantity = q /\ n \in Int
        BY <2>0, <2>3, <2>4, <3>1
      <4>3. products'[p].quantity = products[p].quantity + n
        BY <2>3, <4>1, <4>2
      <4>4. offBook'[p] = offBook[p] + n
        BY <1>0, <2>3, <4>1, <4>2
      <4>5. n + 0 = 0 + n
        BY <4>2
      <4> QED BY <4>2, <4>3, <4>4, <4>5
    <3>2. CASE r # p
      BY <1>a, <2>1, <2>4, <3>2 DEF StockDomains
    <3> QED BY <3>1, <3>2
  <2>6. Debt(w, p)' = 0 /\ Debt(w, p) = 0
    BY <2>1, <2>2 DEF Debt, Doing, Idle, Edits
  <2>7. Moved(p)' = Moved(p)
    BY <2>1 DEF Moved, LiveOf, Live, Rows, Exists
  <2> QED BY <1>a, <2>5, <2>6, <2>7, StillBalanced
<1> QED BY <1>1, <1>2, <1>3, <1>4, <1>5, <1>6, <1>7, <1>8, <1>9 DEF StockNext

LEMMA SalesKeepBalance ==
  ASSUME StockAssumption, SalesAssumption, StockDomains, StockRows, SaleDomains, SaleRows,
         NEW w \in Workers, SaleJob(w), StockJob(w), SalesNext(w), Goes(w, SalesOps), NEW p \in Physical, Balance(w, p)
  PROVE  Balance(w, p)'
<1>1. Debt(w, p) = 0 /\ Debt(w, p)' = 0
  <2>1. job[w].op \notin StockOps /\ job'[w].op \notin StockOps
    BY OpsApart DEF Goes
  <2> QED BY <2>1 DEF Debt, Doing, StockOps
<1>2. CASE UNCHANGED stockVars
  BY <1>1, <1>2, BalanceAlone
<1>3. ASSUME NEW kind, NEW source, NEW order, NEW back, NEW lines, MoveFits(w, kind, source, order, back, lines)
      PROVE  Balance(w, p)'
  <2>1. PICK ids : MovesAs(ids, kind, source, order, back, lines)
    BY <1>3, MovesStock
  <2>2. /\ back \in BOOLEAN /\ lines \in [Products -> Nat] /\ job[w].shelf = products
        /\ MoveStock(w, kind, source, order, back, lines) /\ p \in Products
    BY <1>3 DEF MoveFits, Physical
  <2>3. offBook' = offBook /\ products'[p].quantity = products[p].quantity + Given(back, source, p) - Taken(lines, p)
    BY <2>2, MovesProducts
  <2>4. Moved(p)' = Moved(p) + Given(back, source, p) - Taken(lines, p)
    <3>1. StockDomains'
      BY <2>2, MoveDomains
    <3> QED BY <2>1, <2>2, <3>1, MovedBySales DEF StockRows
  <2>5. PICK given, taken, q, m : /\ given = Given(back, source, p) /\ taken = Taken(lines, p)
                                  /\ q = products[p].quantity /\ m = Moved(p)
    OBVIOUS
  <2>6. given \in Int /\ taken \in Int /\ q \in Int /\ m \in Int /\ offBook[p] \in Int
    BY <2>2, <2>5, GivenType, TakenType, LiveRows DEF StockRows, Product
  <2>7. PICK n : n = given - taken
    OBVIOUS
  <2>8. n \in Int /\ products'[p].quantity = q + n /\ Moved(p)' = m + n /\ n + 0 = n + 0
    BY <2>3, <2>4, <2>5, <2>6, <2>7
  <2>9. offBook'[p] = offBook[p] + 0 /\ Debt(w, p)' = Debt(w, p) + 0
    BY <1>1, <2>3, <2>6
  <2> QED BY <2>5, <2>8, <2>9, StillBalanced
<1> QED BY <1>2, <1>3, SaleMoves

LEMMA BooksStep ==
  ASSUME StockAssumption, SalesAssumption, JobsShape, SalesInv, StockInv, BooksBalance, [Next]_vars
  PROVE  BooksBalance'
<1> SUFFICES ASSUME Unmarred', NEW p \in Physical, NEW v \in Workers, \A u \in Workers \ {v} : Free(u)'
             PROVE  Balance(v, p)'
  BY DEF BooksBalance
<1>1. CASE UNCHANGED <<jobVars, stockVars>>
  <2>1. Balance(v, p)
    BY <1>1 DEF BooksBalance, Unmarred, Free, jobVars
  <2>2. Debt(v, p)' = Debt(v, p) /\ Moved(p)' = Moved(p)
    BY <1>1 DEF Debt, Doing, Moved, LiveOf, Live, Rows, Exists, jobVars, stockVars
  <2> QED BY <1>1, <2>1, <2>2 DEF Balance, stockVars
<1>2. ASSUME NEW w \in Workers, Acts(w),
             \/ StockNext(w)
             \/ SalesNext(w) /\ Goes(w, SalesOps)
             \/ UNCHANGED stockVars /\ Goes(w, NightOps)
      PROVE  Balance(v, p)'
  <2>1. Unmarred /\ OneByOne /\ OneByOne' /\ \A u \in Workers \ {w} : Free(u)
    BY <1>2 DEF Acts, Unmarred, OneByOne
  <2>2. SaleDomains /\ SaleRows /\ SaleJob(w) /\ StockDomains /\ StockRows /\ StockJob(w)
    BY <2>1 DEF SalesInv, StockInv
  <2>3. Balance(w, p)
    BY <2>1 DEF BooksBalance
  <2>4. Balance(w, p)'
    <3>1. CASE StockNext(w)
      BY <2>2, <2>3, <3>1, StockKeepsBalance
    <3>2. CASE SalesNext(w) /\ Goes(w, SalesOps)
      BY <2>2, <2>3, <3>2, SalesKeepBalance
    <3>3. CASE UNCHANGED stockVars /\ Goes(w, NightOps)
      <4>1. job[w].op \notin StockOps /\ job'[w].op \notin StockOps
        BY <3>3, OpsApart DEF Goes
      <4>2. Debt(w, p)' = Debt(w, p)
        BY <4>1 DEF Debt, Doing, StockOps
      <4> QED BY <2>2, <2>3, <3>3, <4>2, BalanceAlone
    <3> QED BY <1>2, <3>1, <3>2, <3>3
  <2>5. CASE v = w
    BY <2>4, <2>5
  <2>6. CASE v # w
    <3>1. job'[w] = Idle /\ job'[v] = Idle
      BY <1>2, <2>1, <2>6 DEF Free, Acts
    <3>2. Debt(v, p)' = Debt(w, p)'
      BY <3>1 DEF Debt, Doing
    <3> QED BY <2>4, <3>2 DEF Balance
  <2> QED BY <2>5, <2>6
<1>3. ASSUME NEW w \in Workers, "failure" \in marred' PROVE FALSE
  BY <1>3 DEF Unmarred
<1> QED BY <1>1, <1>2, <1>3, ClientStep DEF Goes, vars, jobVars, NewDay

(* The stock on hand is what the movements say, for any products and       *)
(* movements, after any handlers that neither overlapped nor failed.       *)
THEOREM StockAlwaysExplained ==
  ASSUME JobsAssumption, StockAssumption, SalesAssumption PROVE Spec => []StockExplained
<1>1. Init => BooksBalance
  <2> SUFFICES ASSUME Init, NEW p \in Physical, NEW w \in Workers PROVE Balance(w, p)
    BY DEF BooksBalance
  <2>1. LiveOf(p) = {}
    BY DEF Init, StockInit, LiveOf, Rows, Exists
  <2>2. Quantity(movements, {}) = 0
    BY SumEmpty DEF Quantity
  <2>3. Moved(p) = 0
    BY <2>1, <2>2 DEF Moved
  <2>4. Debt(w, p) = 0
    BY DEF Init, JobsInit, Debt, Doing, Idle
  <2>5. products[p].quantity = Opening[p] /\ offBook[p] = 0 /\ Opening[p] \in Int
    BY DEF Init, StockInit, Physical, StockAssumption
  <2> QED BY <2>3, <2>4, <2>5 DEF Balance
<1>2. JobsShape /\ SalesInv /\ StockInv /\ BooksBalance /\ [Next]_vars => BooksBalance'
  BY BooksStep
<1>3. StockInv /\ BooksBalance => StockExplained
  <2> SUFFICES ASSUME StockInv, BooksBalance, Settled, NEW p \in Physical
               PROVE  products[p].quantity = Opening[p] + Moved(p) + offBook[p]
    BY DEF StockExplained
  <2>1. PICK w \in Workers : TRUE
    BY DEF JobsAssumption
  <2>2. Unmarred /\ \A v \in Workers : Free(v)
    BY DEF Settled, AllFree, Unmarred
  <2>3. Balance(w, p)
    BY <2>2 DEF BooksBalance
  <2>4. Debt(w, p) = 0
    BY <2>2 DEF Free, Debt, Doing, Idle
  <2>5. products[p].quantity \in Int
    BY <2>2 DEF StockInv, StockRows, OneByOne, Unmarred, Product, Physical
  <2> QED BY <2>3, <2>4, <2>5 DEF Balance
<1> QED
  BY <1>1, <1>2, <1>3, StockAlways, PTL DEF Spec

-----------------------------------------------------------------------------
(* Where handlers cannot overlap, because there is but one of them at a    *)
(* time, the promises above hold of every state.                           *)
THEOREM ServedByOne ==
  ASSUME StockAssumption, SalesAssumption, \A v, w \in Workers : v = w
  PROVE  Spec => [](InvoicedOnce /\ AnsweredOnce /\ DeliveredTookStock)
<1>1. Init => JobsShape /\ OneByOne
  BY ShapeInit DEF Init, JobsInit, OneByOne
<1>2. JobsShape /\ OneByOne /\ [Next]_vars => JobsShape' /\ OneByOne'
  <2> SUFFICES ASSUME JobsShape, OneByOne, [Next]_vars PROVE OneByOne'
    BY ShapeStays
  <2>1. CASE UNCHANGED marred
    BY <2>1 DEF OneByOne
  <2>2. ASSUME NEW w \in Workers, Acts(w) PROVE OneByOne'
    BY <2>2 DEF Acts, Alone
  <2> QED BY <2>1, <2>2, ClientStep DEF Goes, vars, jobVars, NewDay
<1>3. Spec => []OneByOne
  BY <1>1, <1>2, PTL DEF Spec
<1> QED
  BY <1>3, InvoicedOnceAlways, AnsweredOnceAlways, DeliveredAlwaysTookStock, PTL
=============================================================================
