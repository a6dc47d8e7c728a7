------------------------- MODULE TreasuryRefinement -------------------------
(***************************************************************************)
(* The treasury that serves its requests one by one (MaxInFlight = 1)      *)
(* implements IdealTreasury: the reads, saves, ledger inserts, refusals,   *)
(* blocks and crashes of a request are stutters, its COMMIT is the step.   *)
(***************************************************************************)
EXTENDS Treasury, FiniteSetsExt

Balances == [a \in Accounts |-> rows[a].current_balance]
Totals   == [i \in Invoices |-> rows[i].total_ttc]
Paid     == [i \in Invoices |-> rows[i].paid_amount]
Statuses == [i \in Invoices |-> rows[i].status]

Ideal == INSTANCE IdealTreasury WITH
  balance  <- Balances,
  active   <- {a \in Accounts : rows[a].is_active},
  default  <- {a \in Accounts : rows[a].is_default},
  total    <- Totals,
  paid     <- Paid,
  status   <- Statuses,
  received <- payments

(* One request at a time, the services keep the promise of IdealTreasury:  *)
(* whatever is refused, blocked or lost on the way leaves the books as     *)
(* they were, and what is done is done entirely.                           *)
ImplementsIdeal == Ideal!Spec

MovesOf(a) == {e \in ledger : e.account = a /\ pc[e.by] = "done"}
Moved(a) == SumFunctionOnSet([e \in ledger |-> e.amount], MovesOf(a))

(* One request at a time, the balance of an account changes by the ledger  *)
(* rows of the request that commits, and by nothing else but a correction  *)
(* by hand.  (The ledger also keeps the rows of requests that failed after *)
(* writing them: a transfer blocked on its second row, a crash.)           *)
Corrects(r) == dto[r].kind = "edit" /\ pc'[r] = "done"
LedgerExplainsBalance ==
  [][\A a \in Accounts :
        \/ \E r \in InFlight : Corrects(r)
        \/ rows'[a].current_balance - rows[a].current_balance = Moved(a)' - Moved(a)]_vars
=============================================================================
