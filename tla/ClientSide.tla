---------------------------- MODULE ClientSide ----------------------------
(***************************************************************************)
(* What a business does for its clients, put together: the stock, sales    *)
(* from the quote to the invoice, and the subscriptions a client may order *)
(* from the link of an order.                                              *)
(***************************************************************************)
EXTENDS Sales, Recurring

vars == <<jobVars, stockVars, salesVars, recurringVars>>

Init == JobsInit /\ StockInit /\ SalesInit /\ RecurringInit

(* createRecurringFromOrder: the link is not spent, nor need it be unspent. *)
SubscribeByLink(w) ==
  /\ \E l \in Rows(links) : links[l].kind = "order"
  /\ Subscribe(w, "subscribeByLink")

Abort(w) == Fail(w) /\ UNCHANGED <<stockVars, salesVars, recurringVars>>

Next ==
  \/ NewDay /\ UNCHANGED <<stockVars, salesVars>>
  \/ \E w \in Workers :
       \/ StockNext(w) /\ UNCHANGED <<salesVars, recurringVars>>
       \/ SalesNext(w) /\ UNCHANGED recurringVars
       \/ (RecurringNext(w) \/ SubscribeByLink(w)) /\ UNCHANGED <<stockVars, salesVars>>
       \/ Abort(w)

Spec == Init /\ [][Next]_vars

(* transition refuses to leave a status without successors, "statut        *)
(* terminal" in its message: what is rejected, expired or converted stays  *)
(* so until it is deleted.                                                 *)
TerminalIsFinal ==
  [][\A q \in Quotes :
       Exists(quotes, q) /\ QuoteTRANSITIONS[quotes[q].status] = {} =>
         ~Exists(quotes', q) \/ quotes'[q].status = quotes[q].status]_vars
=============================================================================
