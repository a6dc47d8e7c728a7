---------------------------- MODULE MCNumbering ----------------------------
(* The series of the back end, for TLC.                                    *)
EXTENDS Numbering, TLC

CONSTANTS r1, r2, r3, r4, r5, b1, b2

Kind(generator, index, deletable, atOnce) ==
  [generator |-> generator, index |-> index, deletable |-> deletable, atOnce |-> atOnce]

PurchaseOrders(n) == Kind("max", "business", FALSE, n)
Payments == Kind("max", "global", FALSE, 3)
ClientInvoices == Kind("max", "global", TRUE, 3)
TestInvoices == Kind("count", "global", TRUE, 3)
Quotes(n) == Kind("max", "none", TRUE, n)
PurchaseInvoices(n) == Kind("last", "none", FALSE, n)
AllSeries ==
  {PurchaseOrders(4), PurchaseOrders(1), Payments, ClientInvoices, TestInvoices, Quotes(1),
   PurchaseInvoices(1), PurchaseInvoices(3)}

Symmetric == Permutations(Requests) \cup Permutations(Businesses)
=============================================================================
