--------------------------- MODULE MCProcurement ---------------------------
(* Small instances of Procurement for TLC. *)
EXTENDS Procurement, TLC

CONSTANTS r1, r2, r3, r4, o1

MCOrdered == [l \in OrderLines |-> IF l[2] = 1 THEN 2 ELSE 1]
Do(kind) == [kind |-> kind, order |-> o1]
Receive(lines) == [kind |-> "receive", order |-> o1, lines |-> lines]
Of(line, quantity) == [line |-> line, quantity |-> quantity]
EditNotes == [kind |-> "edit", order |-> o1, notes |-> "edited"]

Started(status) == [status |-> status, notes |-> "as created"]

Receipts ==
  [inAll |-> 3, atOnce |-> 3, started |-> Started("CONFIRMED"),
   inputs |-> {Receive(<<Of(1, 1)>>), Receive(<<Of(2, 1)>>), Receive(<<Of(2, 1), Of(1, 1)>>)}]
Life ==
  [inAll |-> 4, atOnce |-> 1, started |-> Started("DRAFT"),
   inputs |->
     {Do(k) : k \in {"send", "confirm", "cancel", "portalConfirm", "refuse"}}
       \cup {EditNotes, Receive(<<Of(1, 1)>>), Receive(<<Of(1, 2)>>), Receive(<<Of(2, 1)>>),
             Receive(<<Of(1, 2), Of(2, 1)>>)}]
(* Receipts that name a line twice, and receipts beside other saves. *)
Repeated ==
  [inAll |-> 3, atOnce |-> 2, started |-> Started("CONFIRMED"),
   inputs |-> {Receive(<<Of(1, 1), Of(1, 1)>>), Receive(<<Of(1, 2), Of(1, 1)>>), Receive(<<Of(2, 1)>>)}]
Mixed ==
  [inAll |-> 3, atOnce |-> 2, started |-> Started("SENT"),
   inputs |-> {Do("confirm"), Do("cancel"), EditNotes, Receive(<<Of(1, 1), Of(1, 1)>>), Receive(<<Of(2, 1)>>)}]
AllLoads == {Receipts, Life, Repeated, Mixed}
SymmetricRequests == Permutations(Requests)
=============================================================================
