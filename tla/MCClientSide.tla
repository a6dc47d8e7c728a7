---------------------------- MODULE MCClientSide ----------------------------
(* Small instances of ClientSide for TLC. *)
EXTENDS ClientSide

CONSTANTS w1, w2, good, service

MCOpening == [p \in Products |-> 2]
Baskets1 == {[p \in Products |-> 1]}
EmptyBasket == {[p \in Products |-> 0]}

(* The operations that are tried together. *)
Shelves == {"movement", "removal", "restore", "recount", "fail"}
Reservations == {"movement", "removal", "reserve", "clear", "replan"}
Renames == {"movement", "image", "barcode", "label", "archive", "unarchive", "fail"}
Deliveries ==
  {"createOrder", "update", "startProgress", "markDelivered", "cancel", "delete",
   "createNote", "noteDelivered", "noteCancelled", "noteUpdated", "noteDeleted", "fail"}
Answers ==
  {"createOrder", "sendOrderLink", "confirm", "refuse", "startProgress", "markDelivered",
   "convertToInvoice", "markInvoiced", "cancel", "delete", "noteDelivered", "fail"}
QuoteLife ==
  QuoteOps \cup {"createQuote", "acceptByLink", "rejectByLink", "convertToInvoice", "delete", "fail"}
Nights == {"createRecurring", "pause", "activate", "night", "fail"}
Counters == {"createRecurring", "test", "validate", "night"}
Changes == {"createRecurring", "updateRecurring", "remove", "deactivate", "night", "fail"}
ByLink == {"createOrder", "sendOrderLink", "subscribeByLink", "pause", "activate", "night"}

MCMixes ==
  {Shelves, Reservations, Renames, Deliveries, Answers, QuoteLife, Nights, Counters, Changes, ByLink}
=============================================================================
