------------------------------- MODULE Stock -------------------------------
(***************************************************************************)
(* The stock: products with a quantity, and the movements that are meant   *)
(* to explain it.  No handler here opens a transaction: a product is read, *)
(* changed in memory and saved whole, and a movement and the quantity it   *)
(* leads to are two saves.                                                 *)
(***************************************************************************)
EXTENDS Jobs, FiniteSetsExt

CONSTANTS
  Products,
  Services,        \* the products that are services: they have no stock
  Movements,       \* bound: identities of movements
  Opening,         \* the quantity of each product at the start
  Quantities,      \* the quantities a manual movement, a reservation or an edit carries
  MaxDrift,        \* bound: how far quantities may be moved off the book
  MaxStock         \* bound: the quantity up to which movements are made and removed

Edits ==
  {"recount", "archive", "unarchive", "image", "barcode", "label", "reserve", "clear", "replan"}

ASSUME StockAssumption ==
  /\ IsFiniteSet(Products) /\ Services \subseteq Products /\ IsFiniteSet(Movements)
  /\ Opening \in [Products -> Nat]
  /\ Quantities \subseteq Nat \ {0}
  /\ MaxDrift \in Nat /\ MaxStock \in Nat

VARIABLES
  products, movements,
  offBook      \* how far quantities have been changed without a movement that says so

stockVars == <<products, movements, offBook>>

Product == [quantity : Int, reserved : Nat, archived : BOOLEAN]
StockMovement ==
  [status : {"LIVE", "DELETED"}, product : Products, quantity : Int,
   kind : {"MANUAL", "SALES_ORDER", "DELIVERY_NOTE"}, source : STRING, order : STRING]

WithinDrift(drift) == \A p \in Products : drift[p] \in -MaxDrift .. MaxDrift

InBounds(p) == products[p].quantity \in -MaxStock .. MaxStock

Physical == Products \ Services
Live(m) == movements[m].status = "LIVE"

Manual(p, q) ==
  [status |-> "LIVE", product |-> p, quantity |-> q, kind |-> "MANUAL",
   source |-> "none", order |-> "none"]

-----------------------------------------------------------------------------
(* createManual: an entry or an exit, never of a service. *)
StartMovement(w) ==
  /\ CanInsert(movements)
  /\ \E p \in Physical, q \in Quantities : \E change \in {q, -q} :
       InBounds(p) /\ Begin(w, [op |-> "movement", product |-> p, change |-> change,
                 seen |-> products[p], written |-> FALSE])
  /\ UNCHANGED stockVars

(* First save: the movement. *)
SaveMovement(w) ==
  /\ Doing(w, "movement") /\ ~job[w].written /\ CanInsert(movements)
  /\ movements' = [movements EXCEPT ![Fresh(movements)] = Manual(job[w].product, job[w].change)]
  /\ Continue(w, [job[w] EXCEPT !.written = TRUE])
  /\ UNCHANGED <<products, offBook>>

(* The quantity a movement, or its removal, leads to. *)
QuantityAfter(row, change) == [row EXCEPT !.quantity = @ + change]

(* Second save: the product, as it was read, with its new quantity. *)
SaveQuantity(w) ==
  /\ Doing(w, "movement") /\ job[w].written
  /\ products' = [products EXCEPT ![job[w].product] = QuantityAfter(job[w].seen, job[w].change)]
  /\ Finish(w)
  /\ UNCHANGED <<movements, offBook>>

(* Which movements may be removed; and any manual one, deleted or not. *)
Listed(m) == movements[m].kind = "MANUAL"
Removable(m) == movements[m].status = "LIVE" /\ movements[m].kind = "MANUAL"

(* remove: the quantity is taken back first, ... *)
StartRemoval(w) ==
  /\ \E m \in Rows(movements) :
       /\ Removable(m) /\ InBounds(movements[m].product)
       /\ Begin(w, [op |-> "removal", movement |-> m, seen |-> movements[m],
                    product |-> products[movements[m].product], returned |-> FALSE])
  /\ UNCHANGED stockVars

ReturnQuantity(w) ==
  /\ Doing(w, "removal") /\ ~job[w].returned
  /\ products' = [products EXCEPT ![job[w].seen.product] =
                    QuantityAfter(job[w].product, -job[w].seen.quantity)]
  /\ Continue(w, [job[w] EXCEPT !.returned = TRUE])
  /\ UNCHANGED <<movements, offBook>>

(* ... then the movement is marked deleted. *)
MarkRemoved(w) ==
  /\ Doing(w, "removal") /\ job[w].returned
  /\ movements' = [movements EXCEPT ![job[w].movement] = [job[w].seen EXCEPT !.status = "DELETED"]]
  /\ Finish(w)
  /\ UNCHANGED <<products, offBook>>

(* restore: the movement is live again; the quantity is left as it is. *)
RestoreMovement(w) ==
  /\ \E m \in Rows(movements) :
       /\ movements[m].status = "DELETED"
       /\ movements' = [movements EXCEPT ![m].status = "LIVE"]
       /\ offBook' = [offBook EXCEPT ![movements[m].product] = @ - movements[m].quantity]
       /\ WithinDrift(offBook')
  /\ AtOnce(w, "restore")
  /\ UNCHANGED products

-----------------------------------------------------------------------------
(* A product after each of the edits: update (which gives a service no     *)
(* stock), softDelete and restore, the handlers that save a product with   *)
(* another image or bar code, and the three handlers of its reservation.   *)
Recounted(p, row, q) == [row EXCEPT !.quantity = IF p \in Services THEN 0 ELSE q]
Archived(row) == [row EXCEPT !.archived = TRUE]
Unarchived(row) == [row EXCEPT !.archived = FALSE]
Illustrated(row) == row
Barcoded(row) == row
Labelled(row) == row
Reserved(row, q) == [row EXCEPT !.reserved = @ + q]
Cleared(row) == [row EXCEPT !.reserved = 0]
Replanned(row, q) == [row EXCEPT !.reserved = q]

Edited(kind, p, row, q) ==
  CASE kind = "recount" -> Recounted(p, row, q)
    [] kind = "archive" -> Archived(row)
    [] kind = "unarchive" -> Unarchived(row)
    [] kind = "image" -> Illustrated(row)
    [] kind = "barcode" -> Barcoded(row)
    [] kind = "label" -> Labelled(row)
    [] kind = "reserve" -> Reserved(row, q)
    [] kind = "clear" -> Cleared(row)
    [] kind = "replan" -> Replanned(row, q)

MayEdit(kind, row) ==
  /\ kind = "unarchive" => row.archived
  /\ kind = "reserve" => row.reserved = 0      \* bound: one reservation at a time

StartEdit(w) ==
  /\ \E kind \in Edits, p \in Products, q \in Quantities :
       /\ MayEdit(kind, products[p])
       /\ Begin(w, [op |-> kind, product |-> p,
                    image |-> Edited(kind, p, products[p], q)])
  /\ UNCHANGED stockVars

SaveEdit(w) ==
  /\ job[w].op \in Edits
  /\ LET p == job[w].product IN
     /\ products' = [products EXCEPT ![p] = job[w].image]
     /\ offBook' = [offBook EXCEPT ![p] = @ + job[w].image.quantity - products[p].quantity]
     /\ WithinDrift(offBook')
  /\ Finish(w)
  /\ UNCHANGED movements

-----------------------------------------------------------------------------
StockInit ==
  /\ products = [p \in Products |->
       [quantity |-> IF p \in Services THEN 0 ELSE Opening[p], reserved |-> 0, archived |-> FALSE]]
  /\ movements = [m \in Movements |-> Absent]
  /\ offBook = [p \in Products |-> 0]

StockNext(w) ==
  \/ StartMovement(w) \/ SaveMovement(w) \/ SaveQuantity(w)
  \/ StartRemoval(w) \/ ReturnQuantity(w) \/ MarkRemoved(w) \/ RestoreMovement(w)
  \/ StartEdit(w) \/ SaveEdit(w)

(* What the movements in a set add up to. *)
Quantity(table, set) == SumFunctionOnSet([m \in set |-> table[m].quantity], set)
LiveOf(p) == {m \in Rows(movements) : Live(m) /\ movements[m].product = p}
Moved(p) == Quantity(movements, LiveOf(p))

(* The stock on hand is what the movements say, wherever requests have been *)
(* served one by one and are over: a product's quantity departs from the   *)
(* sum of its live movements only by recounts and by restored movements,   *)
(* which the code lets change one without the other.                       *)
StockExplained ==
  Settled =>
    \A p \in Physical :
      products[p].quantity = Opening[p] + Moved(p) + offBook[p]
=============================================================================
