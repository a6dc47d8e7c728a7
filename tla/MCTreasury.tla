----------------------------- MODULE MCTreasury -----------------------------
(* Small instances of Treasury for TLC. *)
EXTENDS TreasuryRefinement, TLC

CONSTANTS a1, a2, i1, r1, r2, r3

MCOpening == (a1 :> 2) @@ (a2 :> 1)
MCTotal == i1 :> 3

DepositOf(n) == [kind |-> "deposit", account |-> a1, amount |-> n]
TransferOf(a, b, n) == [kind |-> "transfer", from |-> a, to |-> b, amount |-> n]
PaymentOf(n) == [kind |-> "payment", invoice |-> i1, account |-> a1, amount |-> n]
EditOf(a, n, default) ==
  [kind |-> "edit", account |-> a, current_balance |-> n, is_default |-> default]
ToggleOf(a) == [kind |-> "toggle", account |-> a]
TransitionTo(s) == [kind |-> "transition", invoice |-> i1, target |-> s]
InvoiceEditTo(n) == [kind |-> "invoiceEdit", invoice |-> i1, total |-> n]

TransferInputs ==
  {DepositOf(1), TransferOf(a1, a2, 2), TransferOf(a2, a1, 1),
   EditOf(a1, 1, FALSE), EditOf(a2, NotGiven, TRUE), ToggleOf(a2)}

CollectionInputs ==
  {PaymentOf(1), PaymentOf(2)} \cup {TransitionTo(s) : s \in {"SENT", "OVERDUE", "CANCELLED", "PAID"}}

OppositeTransfers == {TransferOf(a1, a2, 2), TransferOf(a2, a1, 1), PaymentOf(3)}

OverlappingInputs == TransferInputs \cup CollectionInputs
AllInputs == OverlappingInputs \cup {InvoiceEditTo(2)}

AllRequests == {r1, r2, r3}
SymmetricRequests == Permutations(AllRequests)
=============================================================================
