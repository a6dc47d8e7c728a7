---------------------------- MODULE Procurement ----------------------------
(***************************************************************************)
(* Purchase orders (supplier_pos) from DRAFT to FULLY_RECEIVED, the        *)
(* supplier's answers from the portal link, and the goods receipts that    *)
(* add to the received quantity of the order's lines, recompute the        *)
(* order's status in the same transaction, and move the stock once it has  *)
(* committed.                                                              *)
(*                                                                         *)
(* An order is always loaded with its lines and saved with them: the       *)
(* relation cascades, so a save writes the order and every line of which   *)
(* the entity in memory differs from the row.                              *)
(***************************************************************************)
EXTENDS Sessions, FiniteSetsExt

CONSTANTS Orders,
          Ordered,     \* quantity_ordered of each order line
          Loads        \* the traffic considered: which validated bodies, how many
                       \* requests in all and at once, the orders at the start

Lines == 1 .. 2        \* bound: an order has two lines
OrderLines == Orders \X Lines

POStatus == {"DRAFT", "SENT", "CONFIRMED", "PARTIALLY_RECEIVED", "FULLY_RECEIVED",
             "CANCELLED"}

TRANSITIONS ==
  [status \in POStatus |->
     CASE status = "DRAFT" -> {"SENT", "CANCELLED"}
       [] status = "SENT" -> {"CONFIRMED", "CANCELLED"}
       [] status = "CONFIRMED" -> {"PARTIALLY_RECEIVED", "FULLY_RECEIVED", "CANCELLED"}
       [] status = "PARTIALLY_RECEIVED" -> {"FULLY_RECEIVED"}
       [] OTHER -> {}]

SupplierPO == [status : POStatus, notes : STRING]
SupplierPOItem == [quantity_received : Nat]
ReceiptLine == [line : Lines, quantity : Nat]
Dto ==
  [kind : {"send", "confirm", "cancel", "portalConfirm", "refuse"}, order : Orders]
    \cup [kind : {"edit"}, order : Orders, notes : STRING]
    \cup [kind : {"receive"}, order : Orders, lines : Seq(ReceiptLine) \ {<< >>}]

ASSUME ProcurementAssumption ==
  /\ Orders \cap OrderLines = {}
  /\ Ordered \in [OrderLines -> Nat \ {0}]
  /\ \A l \in Loads :
       /\ l.inputs \subseteq Dto
       /\ l.atOnce \in 1 .. MaxInFlight /\ l.inAll \in Nat
       /\ l.started \in SupplierPO
       /\ l.started.status \notin {"PARTIALLY_RECEIVED", "FULLY_RECEIVED"}

VARIABLES receipts,    \* the committed rows of goods_receipts, with their lines
          draft,       \* the receipt each request is inserting, or none
          inserted,    \* the requests whose receipt row is in, not committed
          added,       \* how many lines of its receipt a request has added, then moved
          cancelling,  \* the requests past the first check of cancel
          movements,   \* the stock movements: receipt number and line index
          load         \* the traffic of this behaviour

receiptVars == <<receipts, draft, inserted, added, cancelling, movements, load>>
vars == <<sessionVars, receiptVars>>

Image(o) == {o} \cup ({o} \X Lines)

Reads(d) == IF d.kind = "receive" THEN <<{d.order}, {d.order} \X Lines>>
            ELSE <<Image(d.order)>>

(* The save of an order and of the lines loaded with it. *)
SaveOrder(entities, o, status, notes) ==
  [image |-> [x \in Image(o) |->
                IF x = o THEN [status |-> status, notes |-> notes] ELSE entities[x]],
   decimals |-> {}]

(* What is still to come of a line. *)
WithinReliquat(line, quantity, received) == quantity <= Ordered[line] - received

(* validateLines, each line of the receipt on its own. *)
ValidLine(r, line, quantity) ==
  LET received == view[r][line].quantity_received IN
  /\ received < Ordered[line]
  /\ WithinReliquat(line, quantity, received)
  /\ quantity > 0

(* generateNumber and the unique index on (business_id, gr_number). *)
Numbers == {g.number : g \in receipts}
NextNumber == 1 + Max(Numbers \cup {0})
Clash(number, other) == number = other

(* updateStatusAfterReceipt, from the order as the transaction sees it; in *)
(* the broken form one complete line is enough.                            *)
SomeReceived(o, entities) ==
  \E l \in {o} \X Lines : entities[l].quantity_received >= Ordered[l]
AllReceived(o, entities) ==
  \A l \in {o} \X Lines : entities[l].quantity_received >= Ordered[l]
AnyReceived(o, entities) ==
  \E l \in {o} \X Lines : entities[l].quantity_received > 0
StatusAfterReceipt(o, entities) ==
  IF AllReceived(o, entities) THEN "FULLY_RECEIVED"
  ELSE IF AnyReceived(o, entities) THEN "PARTIALLY_RECEIVED"
  ELSE entities[o].status

-----------------------------------------------------------------------------
Arrive(r) ==
  /\ Room(load)
  /\ \E d \in load.inputs : Open(r, d, FALSE)
  /\ UNCHANGED receiptVars

HasRead(r, n) == Reads(dto[r])[n] \subseteq DOMAIN view[r]

Fetch(r) ==
  /\ pc[r] = "reading"
  /\ \E n \in 1 .. Len(Reads(dto[r])) :
       /\ ~HasRead(r, n) /\ \A m \in 1 .. n - 1 : HasRead(r, m)
       /\ Read(r, Reads(dto[r])[n])
  /\ UNCHANGED receiptVars

Handles(r, kinds) ==
  /\ pc[r] = "reading"
  /\ dto[r].kind \in kinds
  /\ \A n \in 1 .. Len(Reads(dto[r])) : HasRead(r, n)

Forget(r) ==
  /\ draft' = [draft EXCEPT ![r] = {}]
  /\ inserted' = inserted \ {r}
  /\ added' = [added EXCEPT ![r] = 0]
  /\ cancelling' = cancelling \ {r}

Fail(r) == Rollback(r) /\ Forget(r) /\ UNCHANGED <<receipts, movements, load>>

Decide(r, ok, save) ==
  IF ok THEN Proceed(r, <<save>>) /\ UNCHANGED receiptVars ELSE Fail(r)

(* transition, reached from send, from confirm and, after a check of its   *)
(* own and a mail, from cancel, which then reads the order afresh.         *)
Allowed(status, target) == target \in TRANSITIONS[status]

TargetOf(kind) ==
  CASE kind = "send" -> "SENT" [] kind = "confirm" -> "CONFIRMED" [] kind = "cancel" -> "CANCELLED"

Transition(r) ==
  /\ Handles(r, {"send", "confirm", "cancel"})
  /\ dto[r].kind = "cancel" => r \in cancelling
  /\ LET o == dto[r].order
         target == TargetOf(dto[r].kind)
     IN Decide(r, Allowed(view[r][o].status, target),
               SaveOrder(view[r], o, target, view[r][o].notes))

CheckCancel(r) ==
  /\ Handles(r, {"cancel"})
  /\ r \notin cancelling
  /\ IF view[r][dto[r].order].status \in {"DRAFT", "SENT"}
     THEN /\ cancelling' = cancelling \cup {r}
          /\ view' = [view EXCEPT ![r] = Nothing]
          /\ UNCHANGED <<rows, pc, dto, todo, diff, pending, conns,
                         receipts, draft, inserted, added, movements, load>>
     ELSE Fail(r)

(* SupplierPOsService.update, of the notes and dates. *)
Edit(r) ==
  /\ Handles(r, {"edit"})
  /\ LET o == dto[r].order IN
     Decide(r, view[r][o].status = "DRAFT", SaveOrder(view[r], o, "DRAFT", dto[r].notes))

(* confirmPO and refusePO of SupplierPortalService; the first without its  *)
(* check.                                                                  *)
AlwaysAwaited(status) == TRUE
AwaitsSupplier(status) == status = "SENT"

PortalReply(r) ==
  /\ Handles(r, {"portalConfirm", "refuse"})
  /\ LET o == dto[r].order
         answer == IF dto[r].kind = "portalConfirm" THEN "CONFIRMED" ELSE "CANCELLED"
     IN Decide(r, AwaitsSupplier(view[r][o].status),
               SaveOrder(view[r], o, answer, view[r][o].notes))

-----------------------------------------------------------------------------
(* GoodsReceiptsService.create.  The order and its lines were read outside *)
(* the transaction, which then BEGINs and takes the next number.           *)
BeginReceipt(r) ==
  /\ Handles(r, {"receive"})
  /\ LET d == dto[r] IN
     IF /\ view[r][d.order].status \in {"CONFIRMED", "PARTIALLY_RECEIVED"}
        /\ \A n \in DOMAIN d.lines :
             ValidLine(r, <<d.order, d.lines[n].line>>, d.lines[n].quantity)
     THEN /\ Cardinality(conns) < PoolSize
          /\ conns' = conns \cup {r}
          /\ pc' = [pc EXCEPT ![r] = "receiving"]
          /\ draft' = [draft EXCEPT ![r] =
                         {[by |-> r, number |-> NextNumber, order |-> d.order, lines |-> d.lines]}]
          /\ UNCHANGED <<rows, dto, view, todo, diff, pending,
                         receipts, inserted, added, cancelling, movements, load>>
     ELSE Fail(r)

(* INSERT INTO goods_receipts: waits while another transaction has the     *)
(* number, fails when the table has it.                                    *)
InsertReceipt(r) ==
  /\ pc[r] = "receiving"
  /\ r \notin inserted
  /\ \E g \in draft[r] :
       /\ \A s \in inserted : \A h \in draft[s] : ~Clash(g.number, h.number)
       /\ IF \E n \in Numbers : Clash(g.number, n)
          THEN Fail(r)
          ELSE /\ inserted' = inserted \cup {r}
               /\ UNCHANGED <<sessionVars, receipts, draft, added, cancelling, movements, load>>

(* UPDATE ... SET quantity_received = quantity_received + q: computed by   *)
(* the database from the row it has locked.                                *)
AddLine(r) ==
  /\ pc[r] = "receiving" /\ r \in inserted
  /\ added[r] < Len(dto[r].lines)
  /\ LET received == dto[r].lines[added[r] + 1]
         l == <<dto[r].order, received.line>>
         entity == [Seen(r, l) EXCEPT !.quantity_received = @ + received.quantity]
     IN SetColumns(r, l, entity, {"quantity_received"})
  /\ added' = [added EXCEPT ![r] = @ + 1]
  /\ UNCHANGED <<rows, pc, dto, view, todo, diff, conns,
                 receipts, draft, inserted, cancelling, movements, load>>

UpdateStatusAfterReceipt(r) ==
  /\ pc[r] = "receiving" /\ r \in inserted
  /\ added[r] = Len(dto[r].lines)
  /\ LET o == dto[r].order
         entities == [x \in Image(o) |-> Seen(r, x)]
     IN Proceed(r, <<SaveOrder(entities, o, StatusAfterReceipt(o, entities), entities[o].notes)>>)
  /\ added' = [added EXCEPT ![r] = 0]
  /\ UNCHANGED <<receipts, draft, inserted, cancelling, movements, load>>

Write(r) == (Reload(r) \/ Update(r)) /\ UNCHANGED receiptVars

CommitReceipt(r) ==
  /\ AllSaved(r) /\ dto[r].kind = "receive" /\ r \in inserted
  /\ rows' = [x \in DOMAIN rows |-> Seen(r, x)]
  /\ pending' = [pending EXCEPT ![r] = Nothing]
  /\ receipts' = receipts \cup draft[r]
  /\ inserted' = inserted \ {r}
  /\ pc' = [pc EXCEPT ![r] = "stocking"]
  /\ UNCHANGED <<dto, view, todo, diff, conns, draft, added, cancelling, movements, load>>

(* updateStock: one movement per line, on another connection while the     *)
(* receipt's own is still held; an error on a line is logged and the loop  *)
(* goes on.  The broken form does not wait for the commit.                 *)
AnyTime(r) == pc[r] \in {"saving", "stocking"}
AfterCommit(r) == pc[r] = "stocking"

MoveStock(r) ==
  /\ AfterCommit(r)
  /\ dto[r].kind = "receive" /\ added[r] < Len(dto[r].lines)
  /\ Cardinality(conns) < PoolSize
  /\ \/ movements' = movements \cup {<<g.number, added[r] + 1>> : g \in draft[r]}
     \/ UNCHANGED movements
  /\ added' = [added EXCEPT ![r] = @ + 1]
  /\ UNCHANGED <<sessionVars, receipts, draft, inserted, cancelling, load>>

Finish(r) ==
  /\ \/ pc[r] = "stocking" /\ added[r] = Len(dto[r].lines) /\ End(r, "done") /\ UNCHANGED rows
     \/ AllSaved(r) /\ dto[r].kind # "receive" /\ Commit(r)
  /\ Forget(r)
  /\ UNCHANGED <<receipts, movements, load>>

Abort(r) == r \in InFlight /\ Fail(r)

Handle(r) ==
  \/ Fetch(r) \/ Transition(r) \/ CheckCancel(r) \/ Edit(r) \/ PortalReply(r)
  \/ BeginReceipt(r) \/ InsertReceipt(r) \/ AddLine(r) \/ UpdateStatusAfterReceipt(r)
  \/ Write(r) \/ CommitReceipt(r) \/ MoveStock(r) \/ Finish(r)

Next == \E r \in Requests : Arrive(r) \/ Handle(r) \/ Abort(r)

Init ==
  /\ SessionsInit
  /\ receipts = {} /\ inserted = {} /\ cancelling = {} /\ movements = {}
  /\ draft = [r \in Requests |-> {}]
  /\ added = [r \in Requests |-> 0]
  /\ load \in Loads
  /\ rows = [x \in Orders \cup OrderLines |->
               IF x \in Orders THEN load.started
               ELSE [quantity_received |-> 0]]

Spec == Init /\ [][Next]_vars

-----------------------------------------------------------------------------
(***************************************************************************)
(* Properties.                                                             *)
(***************************************************************************)

OneByOne == load.atOnce = 1

(* Nothing else is saved beside receipts; none of them names a line twice. *)
ReceivedApart == OneByOne \/ \A d \in load.inputs : d.kind = "receive"
NamedOnce ==
  \A d \in load.inputs : d.kind = "receive" =>
    \A m, n \in DOMAIN d.lines : d.lines[m].line = d.lines[n].line => m = n

(* What the receipts of a line add up to. *)
Named(g, l) ==
  [n \in DOMAIN g.lines |-> IF <<g.order, g.lines[n].line>> = l THEN g.lines[n].quantity ELSE 0]
QuantityIn(g, l) == SumFunctionOnSet(Named(g, l), DOMAIN g.lines)
Booked(l) == SumFunctionOnSet([g \in receipts |-> QuantityIn(g, l)], receipts)

(* "Mis a jour a chaque GoodsReceipt": the received quantity of a line is  *)
(* the sum of its committed receipts, and the status the order shows is    *)
(* the one they justify, in whatever order receipts of its lines are       *)
(* written.  "Quantite saisie > reliquat": served one by one, receipts     *)
(* that name a line once never add up to more than was ordered.  (Receipts *)
(* that overlap do, and a confirmation that overlaps one can erase it: it  *)
(* saves the order with the lines it was loaded with.)                     *)
ReceiptsExplainOrder ==
  ReceivedApart => \A o \in Orders :
    LET complete == \A n \in Lines : Booked(<<o, n>>) >= Ordered[<<o, n>>]
        begun == \E n \in Lines : Booked(<<o, n>>) > 0
    IN /\ \A n \in Lines : rows[<<o, n>>].quantity_received = Booked(<<o, n>>)
       /\ rows[o].status = "FULLY_RECEIVED" <=> complete
       /\ rows[o].status = "PARTIALLY_RECEIVED" <=> begun /\ ~complete
       /\ OneByOne /\ NamedOnce => \A n \in Lines : Booked(<<o, n>>) <= Ordered[<<o, n>>]

(* The stock only moves for a line of a committed receipt, although the    *)
(* movements are made on another connection than the receipt.              *)
MovementsFollowReceipts ==
  \A m \in movements : \E g \in receipts : g.number = m[1] /\ m[2] \in DOMAIN g.lines

(* The portal and the goods receipts do not consult the table of           *)
(* transitions; served one by one, they obey it with the rest: an order    *)
(* that was cancelled or fully received stays so.  (The status is tested   *)
(* on a row read without a lock: a confirmation that overlaps the          *)
(* cancellation takes the order out of CANCELLED.)                         *)
TransitionsObeyed ==
  [][OneByOne => \A o \in Orders : rows'[o].status # rows[o].status =>
        rows'[o].status \in TRANSITIONS[rows[o].status]]_vars
=============================================================================
