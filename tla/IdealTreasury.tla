--------------------------- MODULE IdealTreasury ----------------------------
(***************************************************************************)
(* What the treasury promises: every operation happens at once, on books   *)
(* that are never half written.  Money is moved between accounts or        *)
(* received from outside; what an invoice says it was paid is what was     *)
(* received for it; nothing happens to an account without the check the    *)
(* operation makes.                                                        *)
(***************************************************************************)
EXTENDS Integers

CONSTANTS Accounts, Invoices, Limit

VARIABLES balance,   \* account -> its current balance
          active,    \* the active accounts
          default,   \* the default accounts
          total,     \* invoice -> amount due
          paid,      \* invoice -> amount paid
          status,    \* invoice -> its status
          received   \* invoice -> money received for it

vars == <<balance, active, default, total, paid, status, received>>

Amounts == 1 .. Limit

Init ==
  /\ balance \in [Accounts -> 0 .. Limit - 1]
  /\ active = Accounts
  /\ default \in SUBSET Accounts
  /\ total \in [Invoices -> Nat]
  /\ paid = [i \in Invoices |-> 0]
  /\ received = paid
  /\ status \in [Invoices -> {"DRAFT", "SENT"}]

Deposit(a, n) ==
  /\ a \in active /\ balance[a] + n < Limit
  /\ balance' = [balance EXCEPT ![a] = @ + n]
  /\ UNCHANGED <<active, default, total, paid, status, received>>

Transfer(a, b, n) ==
  /\ a # b /\ {a, b} \subseteq active
  /\ balance[a] >= n /\ balance[b] + n < Limit
  /\ balance' = [balance EXCEPT ![a] = @ - n, ![b] = @ + n]
  /\ UNCHANGED <<active, default, total, paid, status, received>>

Receive(i, a, n) ==
  /\ status[i] \notin {"PAID", "CANCELLED"}
  /\ a \in active /\ balance[a] + n < Limit
  /\ paid[i] + n <= total[i]
  /\ balance' = [balance EXCEPT ![a] = @ + n]
  /\ paid' = [paid EXCEPT ![i] = @ + n]
  /\ received' = [received EXCEPT ![i] = @ + n]
  /\ status' = [status EXCEPT ![i] =
                  IF paid[i] + n = total[i] THEN "PAID" ELSE "PARTIALLY_PAID"]
  /\ UNCHANGED <<active, default, total>>

(* The balance of an account may be corrected by hand. *)
Correct(a, n) ==
  /\ n < Limit
  /\ balance' = [balance EXCEPT ![a] = n]
  /\ UNCHANGED <<active, default, total, paid, status, received>>

(* A new default is chosen: at most one account is left with the mark, and *)
(* for a moment none may have it.                                          *)
ClearDefault ==
  /\ default' = {}
  /\ UNCHANGED <<balance, active, total, paid, status, received>>

ChooseDefault(a, n) ==
  /\ default = {} /\ default' = {a}
  /\ balance' = [balance EXCEPT ![a] = n]
  /\ UNCHANGED <<active, total, paid, status, received>>

Toggle(a) ==
  /\ IF a \in active
     THEN a \notin default /\ active' = active \ {a}
     ELSE active' = active \cup {a}
  /\ UNCHANGED <<balance, default, total, paid, status, received>>

(* An invoice leaves a status for a later one; PAID and CANCELLED are final *)
(* and only an invoice without any payment is cancelled.                    *)
Advance(i, s) ==
  /\ \/ status[i] = "DRAFT" /\ s \in {"SENT", "CANCELLED"}
     \/ status[i] = "SENT" /\ s \in {"OVERDUE", "PARTIALLY_PAID", "PAID", "CANCELLED"}
     \/ status[i] = "PARTIALLY_PAID" /\ s \in {"OVERDUE", "PAID"}
     \/ status[i] = "OVERDUE" /\ s \in {"PARTIALLY_PAID", "PAID"}
  /\ s = "CANCELLED" => received[i] = 0
  /\ status' = [status EXCEPT ![i] = s]
  /\ UNCHANGED <<balance, active, default, total, paid, received>>

Redraft(i, n) ==
  /\ status[i] = "DRAFT" /\ received[i] = 0
  /\ total' = [total EXCEPT ![i] = n]
  /\ UNCHANGED <<balance, active, default, paid, status, received>>

Next ==
  \/ \E a \in Accounts : \E n \in Amounts : Deposit(a, n)
  \/ \E a, b \in Accounts : \E n \in Amounts : Transfer(a, b, n)
  \/ \E i \in Invoices : \E a \in Accounts : \E n \in Amounts : Receive(i, a, n)
  \/ \E a \in Accounts : \E n \in 0 .. Limit : Correct(a, n) \/ ChooseDefault(a, n)
  \/ ClearDefault
  \/ \E a \in Accounts : Toggle(a)
  \/ \E i \in Invoices : \E s \in {"SENT", "OVERDUE", "PARTIALLY_PAID", "PAID", "CANCELLED"} :
       Advance(i, s)
  \/ \E i \in Invoices : \E n \in 0 .. Limit : Redraft(i, n)

Spec == Init /\ [][Next]_vars
=============================================================================
