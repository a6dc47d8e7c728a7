------------------------------- MODULE Sales -------------------------------
(***************************************************************************)
(* From the quote to the invoice: quotes, sales orders, delivery notes, the *)
(* links by which a client answers them, and the stock they take.  Every   *)
(* handler loads its row, tests the status it found, and only then opens   *)
(* the transaction that writes; rows of an order or a quote are loaded and *)
(* saved with their lines.                                                 *)
(***************************************************************************)
EXTENDS Stock

CONSTANTS
  Orders, Quotes, Notes, Links, Invoices,   \* bound: identities of rows
  Baskets,                                  \* the lines a quote or an order may be given
  MaxLine                                   \* bound: quantity of a product on an order

None == "none"

ASSUME SalesAssumption ==
  /\ Baskets \subseteq [Products -> Nat] /\ MaxLine \in Nat
  /\ None \notin Orders \cup Quotes \cup Invoices
  /\ Orders \cap Quotes = {} /\ IsFiniteSet(Links)

VARIABLES
  orders, quotes, notes, links, invoices,
  answers     \* how many times each link has changed the order it was sent for

salesVars == <<orders, quotes, notes, links, invoices, answers>>

SalesOrder ==
  [status : {"CONFIRMED", "IN_PROGRESS", "DELIVERED", "INVOICED", "CANCELLED"},
   lines : [Products -> Nat], invoice : Invoices \cup {None}, quote : Quotes \cup {None}]
Quote ==
  [status : {"DRAFT", "SENT", "ACCEPTED", "REJECTED", "EXPIRED", "CONVERTED"},
   lines : [Products -> Nat], order : Orders \cup {None}, invoice : Invoices \cup {None},
   byLink : BOOLEAN]
DeliveryNote == [status : {"pending", "delivered", "cancelled"}, order : Orders \cup {None}]
PortalToken == [status : {"OPEN", "USED"}, kind : {"order"}, subject : Orders]
QuotePortalToken == [status : {"OPEN", "USED"}, kind : {"quote"}, subject : Quotes]
Invoice == [status : {"DRAFT"}, order : Orders \cup {None}, quote : Quotes \cup {None}]

OrderTRANSITIONS ==
  [CONFIRMED |-> {"IN_PROGRESS", "CANCELLED"}, IN_PROGRESS |-> {"DELIVERED", "CANCELLED"},
   DELIVERED |-> {"INVOICED"}, INVOICED |-> {}, CANCELLED |-> {}]

QuoteTRANSITIONS ==
  [DRAFT |-> {"SENT"}, SENT |-> {"ACCEPTED", "REJECTED", "EXPIRED"},
   ACCEPTED |-> {"CONVERTED"}, REJECTED |-> {}, EXPIRED |-> {}, CONVERTED |-> {}]

Plus(f, g) == [p \in Products |-> f[p] + g[p]]
Pending(o) == [status |-> "pending", order |-> o]
Draft(o, q) == [status |-> "DRAFT", order |-> o, quote |-> q]

-----------------------------------------------------------------------------
(* The stock an order takes or gives back, in the transaction of worker w. *)

(* The movements that deleting or changing an order gives back. *)
MovementsOf(o) ==
  {m \in Rows(movements) : movements[m].kind = "SALES_ORDER" /\ movements[m].source = o}
Returned(o, p) == -Quantity(movements, {m \in MovementsOf(o) : movements[m].product = p})

Taken(lines, p) == IF p \in Services THEN 0 ELSE lines[p]
Leaving(lines) == {p \in Products : Taken(lines, p) > 0}

(* Every product whose quantity changes is saved as the transaction read   *)
(* it; reversed movements are deleted, one movement is inserted per line.  *)
MoveStock(w, kind, source, order, back, lines) ==
  LET seen == job[w].shelf
      gone == IF back THEN MovementsOf(source) ELSE {}
      given(p) == IF back THEN Returned(source, p) ELSE 0
      kept == [m \in Movements |-> IF m \in gone THEN Absent ELSE movements[m]]
      ids == CHOOSE f \in [Leaving(lines) -> {m \in Movements : kept[m] = Absent}] :
               \A p, q \in Leaving(lines) : f[p] = f[q] => p = q
  IN
  /\ Cardinality(Leaving(lines)) <= Cardinality({m \in Movements : kept[m] = Absent})
  /\ movements' =
       [m \in Movements |->
          IF \E p \in Leaving(lines) : ids[p] = m
          THEN LET p == CHOOSE p \in Leaving(lines) : ids[p] = m IN
               [status |-> "LIVE", product |-> p, quantity |-> -Taken(lines, p),
                kind |-> kind, source |-> source, order |-> order]
          ELSE kept[m]]
  /\ products' =
       [p \in Products |->
          IF p \in Leaving(lines) \/ given(p) # 0
          THEN [seen[p] EXCEPT !.quantity = @ + given(p) - Taken(lines, p)]
          ELSE products[p]]
  /\ UNCHANGED offBook

(* The transaction reads the products it is going to change. *)
NeedsShelf == {"update", "markDelivered", "delete", "noteDelivered"}
LoadProducts(w) ==
  /\ job[w].op \in NeedsShelf /\ "shelf" \notin DOMAIN job[w]
  /\ Continue(w, [f \in DOMAIN job[w] \cup {"shelf"} |->
                    IF f = "shelf" THEN products ELSE job[w][f]])
  /\ UNCHANGED <<stockVars, salesVars>>
Loaded(w) == "shelf" \in DOMAIN job[w]

-----------------------------------------------------------------------------
(* Sales orders. *)

(* The identity of an order is new: that of a deleted one is not given     *)
(* again as long as a quote names it.                                      *)
Unnamed == {o \in Orders : ~Exists(orders, o) /\ \A q \in Rows(quotes) : quotes[q].order # o}
NewOrder == CHOOSE o \in Unnamed : TRUE

CreateOrder(w) ==
  /\ Unnamed # {}
  /\ \E lines \in Baskets :
       orders' = [orders EXCEPT ![NewOrder] =
                    [status |-> "CONFIRMED", lines |-> lines, invoice |-> None, quote |-> None]]
  /\ AtOnce(w, "createOrder")
  /\ UNCHANGED <<stockVars, quotes, notes, links, invoices, answers>>

(* The test each handler makes of the order it has loaded. *)
IsDelivered(order) == order.status = "DELIVERED"
Convertible(order) == order.status = "DELIVERED" /\ order.invoice = None
MayStart(op, order) ==
  CASE op = "update" -> order.status = "CONFIRMED"
    [] op \in {"startProgress", "markDelivered"} -> TRUE
    [] op = "markInvoiced" -> "INVOICED" \in OrderTRANSITIONS[order.status]
    [] op = "cancel" -> "CANCELLED" \in OrderTRANSITIONS[order.status]
    [] op = "delete" -> order.status \in {"CONFIRMED", "INVOICED"}
    [] op = "convertToInvoice" -> Convertible(order)

OrderOps ==
  {"update", "startProgress", "markDelivered", "markInvoiced", "cancel", "delete", "convertToInvoice"}

FindOrder(w) ==
  /\ \E o \in Rows(orders), op \in OrderOps : \E lines \in Baskets :
       /\ MayStart(op, orders[o])
       /\ op # "update" => lines = CHOOSE b \in Baskets : TRUE
       /\ op = "update" => \A p \in Products : orders[o].lines[p] + lines[p] <= MaxLine
       /\ Begin(w, [op |-> op, order |-> o, seen |-> orders[o], lines |-> lines])
  /\ UNCHANGED <<stockVars, salesVars>>

(* update: the lines are deleted, the order is saved with the lines it was *)
(* loaded with (the cascade inserts them again), then the new lines are    *)
(* inserted; the movements of the order are reversed, new ones made.       *)
UpdateOrder(w) ==
  /\ Doing(w, "update") /\ Loaded(w)
  /\ LET j == job[w] IN
     /\ orders' = [orders EXCEPT ![j.order] = [j.seen EXCEPT !.lines = Plus(@, j.lines)]]
     /\ MoveStock(w, "SALES_ORDER", j.order, j.order, TRUE, j.lines)
  /\ Finish(w)
  /\ UNCHANGED <<quotes, notes, links, invoices, answers>>

(* startProgress: a delivery note is made, the order is in progress. *)
StartProgress(w) ==
  /\ Doing(w, "startProgress") /\ CanInsert(notes) /\ Exists(orders, job[w].order)
  /\ notes' = [notes EXCEPT ![Fresh(notes)] = Pending(job[w].order)]
  /\ orders' = [orders EXCEPT ![job[w].order] = [job[w].seen EXCEPT !.status = "IN_PROGRESS"]]
  /\ Finish(w)
  /\ UNCHANGED <<stockVars, quotes, links, invoices, answers>>

MarkDelivered(w) ==
  /\ Doing(w, "markDelivered") /\ Loaded(w)
  /\ LET j == job[w] IN
     /\ orders' = [orders EXCEPT ![j.order] = [j.seen EXCEPT !.status = "DELIVERED"]]
     /\ MoveStock(w, "SALES_ORDER", j.order, j.order, FALSE, j.seen.lines)
  /\ Finish(w)
  /\ UNCHANGED <<quotes, notes, links, invoices, answers>>

(* markInvoiced and cancel. *)
TransitionOrder(w) ==
  /\ job[w].op \in {"markInvoiced", "cancel"}
  /\ orders' = [orders EXCEPT ![job[w].order] =
                  [job[w].seen EXCEPT !.status = IF Doing(w, "cancel") THEN "CANCELLED" ELSE "INVOICED"]]
  /\ Finish(w)
  /\ UNCHANGED <<stockVars, quotes, notes, links, invoices, answers>>

(* delete: refused by the foreign keys of notes and links; the invoice of  *)
(* the order forgets it, the stock it took comes back.  The quote it was   *)
(* made from goes on naming it: that column has no foreign key.            *)
Unreferenced(o) ==
  /\ \A n \in Rows(notes) : notes[n].order # o
  /\ \A l \in Rows(links) : links[l].subject # o
DeleteOrder(w) ==
  /\ Doing(w, "delete") /\ Loaded(w) /\ Unreferenced(job[w].order)
  /\ LET o == job[w].order IN
     /\ orders' = [orders EXCEPT ![o] = Absent]
     /\ invoices' = [i \in Invoices |->
                       IF Exists(invoices, i) /\ invoices[i].order = o /\ job[w].seen.status = "INVOICED"
                       THEN [invoices[i] EXCEPT !.order = None] ELSE invoices[i]]
     /\ \A i \in Rows(invoices') : invoices'[i].order # o
     /\ MoveStock(w, "SALES_ORDER", o, o, TRUE, [p \in Products |-> 0])
  /\ Finish(w)
  /\ UNCHANGED <<quotes, notes, links, answers>>

ConvertToInvoice(w) ==
  /\ Doing(w, "convertToInvoice") /\ CanInsert(invoices) /\ Exists(orders, job[w].order)
  /\ LET o == job[w].order  i == Fresh(invoices) IN
     /\ invoices' = [invoices EXCEPT ![i] = Draft(o, None)]
     /\ orders' = [orders EXCEPT ![o] = [job[w].seen EXCEPT !.status = "INVOICED", !.invoice = i]]
  /\ Finish(w)
  /\ UNCHANGED <<stockVars, quotes, notes, links, answers>>

(* sendOrderConfirmationEmail: a link; if the mail fails the link stays.   *)
SendOrderLink(w) ==
  /\ CanInsert(links)
  /\ \E o \in Rows(orders) :
       links' = [links EXCEPT ![Fresh(links)] = [status |-> "OPEN", kind |-> "order", subject |-> o]]
  /\ AtOnce(w, "sendOrderLink")
  /\ UNCHANGED <<stockVars, orders, quotes, notes, invoices, answers>>

-----------------------------------------------------------------------------
(* The client's answer to an order. *)

(* What is tested of the link and of its order; and of the link alone. *)
StillOpen(link, order) == link.status = "OPEN"
Unspent(link, order) == link.status = "OPEN" /\ order.status = "CONFIRMED"

OpenOrderLink(w) ==
  /\ \E l \in Rows(links), op \in {"confirm", "refuse"} :
       /\ links[l].kind = "order"
       /\ Unspent(links[l], orders[links[l].subject])
       /\ Begin(w, [op |-> op, link |-> l, order |-> links[l].subject,
                    seen |-> orders[links[l].subject], spent |-> FALSE])
  /\ UNCHANGED <<stockVars, salesVars>>

(* The link is spent in a commit of its own. *)
SpendLink(w) ==
  /\ job[w].op \in {"confirm", "refuse"} /\ ~job[w].spent
  /\ links' = [links EXCEPT ![job[w].link].status = "USED"]
  /\ Continue(w, [job[w] EXCEPT !.spent = TRUE])
  /\ UNCHANGED <<stockVars, orders, quotes, notes, invoices, answers>>

(* Only the columns of the order are loaded here, not its lines. *)
AnswerOrder(w, status) ==
  LET o == job[w].order IN
  /\ orders' = [orders EXCEPT ![o] = [job[w].seen EXCEPT !.status = status, !.lines = orders[o].lines]]
  /\ answers' = [answers EXCEPT ![job[w].link] = @ + 1]

ConfirmOrder(w) ==
  /\ Doing(w, "confirm") /\ job[w].spent /\ CanInsert(notes)
  /\ notes' = [notes EXCEPT ![Fresh(notes)] = Pending(job[w].order)]
  /\ AnswerOrder(w, "IN_PROGRESS")
  /\ Finish(w)
  /\ UNCHANGED <<stockVars, quotes, links, invoices>>

RefuseOrder(w) ==
  /\ Doing(w, "refuse") /\ job[w].spent
  /\ AnswerOrder(w, "CANCELLED")
  /\ Finish(w)
  /\ UNCHANGED <<stockVars, quotes, notes, links, invoices>>

-----------------------------------------------------------------------------
(* Delivery notes. *)

CreateNote(w) ==
  /\ CanInsert(notes)
  /\ \E o \in Rows(orders) \cup {None} : notes' = [notes EXCEPT ![Fresh(notes)] = Pending(o)]
  /\ AtOnce(w, "createNote")
  /\ UNCHANGED <<stockVars, orders, quotes, links, invoices, answers>>

NoteOps == {"noteDelivered", "noteCancelled", "noteDeleted", "noteUpdated"}
FindNote(w) ==
  /\ \E n \in Rows(notes), op \in NoteOps :
       Begin(w, [op |-> op, note |-> n, seen |-> notes[n]])
  /\ UNCHANGED <<stockVars, salesVars>>

(* What leaves the stock with a note: the lines of the order; those of the *)
(* note do not say which product they are about.                           *)
NoteLines(order) == [p \in Products |-> 0]
DeliveredLines(order) == order.lines

(* markDelivered: the order is read inside the transaction, and delivered  *)
(* with it when it is in progress.                                         *)
DeliverNote(w) ==
  /\ Doing(w, "noteDelivered") /\ Loaded(w)
  /\ LET j == job[w]  o == job[w].seen.order IN
     /\ notes' = [notes EXCEPT ![j.note] = [j.seen EXCEPT !.status = "delivered"]]
     /\ IF o # None /\ Exists(orders, o) /\ orders[o].status = "IN_PROGRESS"
        THEN /\ orders' = [orders EXCEPT ![o].status = "DELIVERED"]
             /\ MoveStock(w, "DELIVERY_NOTE", j.note, o, FALSE, DeliveredLines(orders[o]))
        ELSE UNCHANGED <<orders, stockVars>>
  /\ Finish(w)
  /\ UNCHANGED <<quotes, links, invoices, answers>>

CancelNote(w) ==
  /\ Doing(w, "noteCancelled")
  /\ notes' = [notes EXCEPT ![job[w].note] = [job[w].seen EXCEPT !.status = "cancelled"]]
  /\ Finish(w)
  /\ UNCHANGED <<stockVars, orders, quotes, links, invoices, answers>>

(* update: any status may be given, and no stock moves. *)
UpdateNote(w) ==
  /\ Doing(w, "noteUpdated")
  /\ \E status \in {"pending", "delivered", "cancelled"} :
       notes' = [notes EXCEPT ![job[w].note] = [job[w].seen EXCEPT !.status = status]]
  /\ Finish(w)
  /\ UNCHANGED <<stockVars, orders, quotes, links, invoices, answers>>

DeleteNote(w) ==
  /\ Doing(w, "noteDeleted")
  /\ notes' = [notes EXCEPT ![job[w].note] = Absent]
  /\ Finish(w)
  /\ UNCHANGED <<stockVars, orders, quotes, links, invoices, answers>>

-----------------------------------------------------------------------------
(* Quotes. *)

CreateQuote(w) ==
  /\ CanInsert(quotes)
  /\ \E lines \in Baskets :
       quotes' = [quotes EXCEPT ![Fresh(quotes)] =
                    [status |-> "DRAFT", lines |-> lines, order |-> None, invoice |-> None,
                     byLink |-> FALSE]]
  /\ AtOnce(w, "createQuote")
  /\ UNCHANGED <<stockVars, orders, notes, links, invoices, answers>>

QuoteTarget(op) ==
  CASE op = "accept" -> "ACCEPTED" [] op = "reject" -> "REJECTED"
    [] op = "expire" -> "EXPIRED" [] op = "convert" -> "CONVERTED"
QuoteTransitions == {"accept", "reject", "expire", "convert"}

MayStartQuote(op, quote) ==
  CASE op \in QuoteTransitions -> QuoteTarget(op) \in QuoteTRANSITIONS[quote.status]
    [] op = "updateQuote" -> quote.status = "DRAFT"
    [] op = "sendQuote" -> TRUE
    [] op = "deleteQuote" -> quote.status \in {"DRAFT", "CONVERTED"}
    [] op \in {"quoteToInvoice", "quoteToOrder"} -> quote.status = "ACCEPTED"

QuoteOps ==
  QuoteTransitions \cup {"updateQuote", "sendQuote", "deleteQuote", "quoteToInvoice", "quoteToOrder"}

FindQuote(w) ==
  /\ \E q \in Rows(quotes), op \in QuoteOps : \E lines \in Baskets :
       /\ MayStartQuote(op, quotes[q])
       /\ op # "updateQuote" => lines = CHOOSE b \in Baskets : TRUE
       /\ op = "updateQuote" => \A p \in Products : quotes[q].lines[p] + lines[p] <= MaxLine
       /\ Begin(w, [op |-> op, quote |-> q, seen |-> quotes[q], lines |-> lines])
  /\ UNCHANGED <<stockVars, salesVars>>

SaveQuote(w, quote) == quotes' = [quotes EXCEPT ![job[w].quote] = quote]

UpdateQuote(w) ==
  /\ Doing(w, "updateQuote")
  /\ SaveQuote(w, [job[w].seen EXCEPT !.lines = Plus(@, job[w].lines)])
  /\ Finish(w)
  /\ UNCHANGED <<stockVars, orders, notes, links, invoices, answers>>

TransitionQuote(w) ==
  /\ job[w].op \in QuoteTransitions
  /\ SaveQuote(w, [job[w].seen EXCEPT !.status = QuoteTarget(job[w].op)])
  /\ Finish(w)
  /\ UNCHANGED <<stockVars, orders, notes, links, invoices, answers>>

(* sendQuoteEmail: the link, and, once the mail has gone, the status SENT. *)
MakeQuoteLink(w) ==
  /\ Doing(w, "sendQuote") /\ CanInsert(links) /\ Exists(quotes, job[w].quote)
  /\ links' = [links EXCEPT ![Fresh(links)] =
                 [status |-> "OPEN", kind |-> "quote", subject |-> job[w].quote]]
  /\ Continue(w, [job[w] EXCEPT !.op = "mailQuote"])
  /\ UNCHANGED <<stockVars, orders, quotes, notes, invoices, answers>>
MailQuote(w) ==
  /\ Doing(w, "mailQuote")
  /\ SaveQuote(w, [job[w].seen EXCEPT !.status = "SENT"])
  /\ Finish(w)
  /\ UNCHANGED <<stockVars, orders, notes, links, invoices, answers>>

(* delete: the references of orders and invoices to it are cleared first,  *)
(* if it was converted; its links go with it.                              *)
DeleteQuote(w) ==
  /\ Doing(w, "deleteQuote")
  /\ LET q == job[w].quote  forget == job[w].seen.status = "CONVERTED" IN
     /\ quotes' = [quotes EXCEPT ![q] = Absent]
     /\ orders' = [o \in Orders |-> IF forget /\ Exists(orders, o) /\ orders[o].quote = q
                                    THEN [orders[o] EXCEPT !.quote = None] ELSE orders[o]]
     /\ invoices' = [i \in Invoices |-> IF forget /\ Exists(invoices, i) /\ invoices[i].quote = q
                                        THEN [invoices[i] EXCEPT !.quote = None] ELSE invoices[i]]
     /\ \A o \in Rows(orders') : orders'[o].quote # q
     /\ \A i \in Rows(invoices') : invoices'[i].quote # q
     /\ links' = [l \in Links |-> IF Exists(links, l) /\ links[l].subject = q THEN Absent ELSE links[l]]
     /\ answers' = [l \in Links |-> IF Exists(links', l) THEN answers[l] ELSE 0]
  /\ Finish(w)
  /\ UNCHANGED <<stockVars, notes>>

QuoteToInvoice(w) ==
  /\ Doing(w, "quoteToInvoice") /\ CanInsert(invoices) /\ Exists(quotes, job[w].quote)
  /\ invoices' = [invoices EXCEPT ![Fresh(invoices)] = Draft(None, job[w].quote)]
  /\ SaveQuote(w, [job[w].seen EXCEPT !.status = "CONVERTED", !.invoice = Fresh(invoices)])
  /\ Finish(w)
  /\ UNCHANGED <<stockVars, orders, notes, links, answers>>

(* convertToOrder: the order is made; the quote stays ACCEPTED. *)
QuoteToOrder(w) ==
  /\ Doing(w, "quoteToOrder") /\ Unnamed # {} /\ Exists(quotes, job[w].quote)
  /\ orders' = [orders EXCEPT ![NewOrder] =
                  [status |-> "CONFIRMED", lines |-> job[w].seen.lines, invoice |-> None,
                   quote |-> job[w].quote]]
  /\ SaveQuote(w, [job[w].seen EXCEPT !.order = NewOrder])
  /\ Finish(w)
  /\ UNCHANGED <<stockVars, notes, links, invoices, answers>>

(* The client's answer to a quote: only the status of the quote is tested. *)
OpenQuoteLink(w) ==
  /\ \E l \in Rows(links), op \in {"acceptByLink", "rejectByLink"} :
       /\ links[l].kind = "quote"
       /\ quotes[links[l].subject].status = "SENT"
       /\ Begin(w, [op |-> op, link |-> l, quote |-> links[l].subject,
                    seen |-> quotes[links[l].subject], saved |-> FALSE, lines |-> {}])
  /\ UNCHANGED <<stockVars, salesVars>>

AnswerQuote(w) ==
  /\ job[w].op \in {"acceptByLink", "rejectByLink"} /\ ~job[w].saved
  /\ LET q == job[w].quote  accepted == Doing(w, "acceptByLink") IN
     SaveQuote(w, [job[w].seen EXCEPT
       !.status = IF accepted THEN "ACCEPTED" ELSE "REJECTED",
       !.byLink = accepted, !.lines = IF Exists(quotes, q) THEN quotes[q].lines ELSE @])
  /\ Continue(w, [job[w] EXCEPT !.saved = TRUE])
  /\ UNCHANGED <<stockVars, orders, notes, links, invoices, answers>>

(* Whether an answer makes an order; a form that only takes note of it. *)
OnlyNoted(answer, quote) == FALSE
MakesOrder(answer, quote) == answer = "acceptByLink" /\ quote.status = "ACCEPTED"

(* The link is marked used; an accepted quote is then read again and       *)
(* converted to an order by the code the business uses.                    *)
SpendQuoteLink(w) ==
  /\ job[w].op \in {"acceptByLink", "rejectByLink"} /\ job[w].saved
  /\ Exists(links, job[w].link)
  /\ links' = [links EXCEPT ![job[w].link].status = "USED"]
  /\ LET q == job[w].quote IN
     IF MakesOrder(job[w].op, quotes[q])
     THEN Continue(w, [job[w] EXCEPT !.op = "quoteToOrder", !.seen = quotes[q]])
     ELSE Finish(w)
  /\ UNCHANGED <<stockVars, orders, quotes, notes, invoices, answers>>

-----------------------------------------------------------------------------
SalesInit ==
  /\ orders = [o \in Orders |-> Absent] /\ quotes = [q \in Quotes |-> Absent]
  /\ notes = [n \in Notes |-> Absent] /\ links = [l \in Links |-> Absent]
  /\ invoices = [i \in Invoices |-> Absent]
  /\ answers = [l \in Links |-> 0]

OrderNext(w) ==
  \/ CreateOrder(w) \/ FindOrder(w) \/ LoadProducts(w) \/ UpdateOrder(w) \/ StartProgress(w)
  \/ MarkDelivered(w) \/ TransitionOrder(w) \/ DeleteOrder(w) \/ ConvertToInvoice(w)
  \/ SendOrderLink(w) \/ OpenOrderLink(w) \/ SpendLink(w) \/ ConfirmOrder(w) \/ RefuseOrder(w)

NoteNext(w) ==
  CreateNote(w) \/ FindNote(w) \/ DeliverNote(w) \/ CancelNote(w)
  \/ UpdateNote(w) \/ DeleteNote(w)

QuoteNext(w) ==
  \/ CreateQuote(w) \/ FindQuote(w) \/ UpdateQuote(w) \/ TransitionQuote(w)
  \/ MakeQuoteLink(w) \/ MailQuote(w) \/ DeleteQuote(w) \/ QuoteToInvoice(w) \/ QuoteToOrder(w)
  \/ OpenQuoteLink(w) \/ AnswerQuote(w) \/ SpendQuoteLink(w)

SalesNext(w) == OrderNext(w) \/ NoteNext(w) \/ QuoteNext(w)

-----------------------------------------------------------------------------
InvoicesOf(o) == {i \in Rows(invoices) : invoices[i].order = o}

TookFor(o, p) == -Quantity(movements, {m \in LiveOf(p) : movements[m].order = o})

TypeOK ==
  /\ products \in [Products -> Product]
  /\ \A m \in Rows(movements) : movements[m] \in StockMovement
  /\ \A o \in Rows(orders) : orders[o] \in SalesOrder
  /\ \A q \in Rows(quotes) : quotes[q] \in Quote
  /\ \A n \in Rows(notes) : notes[n] \in DeliveryNote
  /\ \A l \in Rows(links) : links[l] \in PortalToken \cup QuotePortalToken
  /\ \A i \in Rows(invoices) : invoices[i] \in Invoice

(* An order becomes one invoice, though startProgress and markDelivered    *)
(* take an invoiced order back to a status from which it is converted.     *)
InvoicedOnce == \A o \in Orders : Cardinality(InvoicesOf(o)) <= 1

(* However many links have been mailed for an order, one answer at most    *)
(* reaches it: the others find the order past CONFIRMED.                   *)
AnsweredOnce ==
  \A o \in Orders :
    SumFunctionOnSet(answers, {l \in Rows(links) : links[l].subject = o}) <= 1

(* Goods that have been delivered, and perhaps invoiced, have left the     *)
(* stock by movements of that order, whichever way it came to be delivered.*)
DeliveredTookStock ==
  \A o \in Rows(orders) :
    orders[o].status \in {"DELIVERED", "INVOICED"} =>
      \A p \in Physical : TookFor(o, p) >= orders[o].lines[p]

(* A quote that a client accepted by its link names an order made for it,  *)
(* unless a failure came between the three commits of the answer; and that *)
(* order is there and names the quote, unless the business deleted it.     *)
AcceptedQuoteHasOrder ==
  Settled =>
    \A q \in Rows(quotes) :
      quotes[q].status = "ACCEPTED" /\ quotes[q].byLink =>
        /\ quotes[q].order # None
        /\ Exists(orders, quotes[q].order) => orders[quotes[q].order].quote = q

=============================================================================
