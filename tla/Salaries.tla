------------------------------ MODULE Salaries ------------------------------
(***************************************************************************)
(* Salary proposals: sent to a member by mail, answered from the link in   *)
(* the mail, and paid from an account.  The payment is the one place of    *)
(* the treasury that debits with an atomic decrement; what it was checked  *)
(* against was read before its transaction.                                *)
(***************************************************************************)
EXTENDS Sessions, FiniteSetsExt

CONSTANTS Accounts, Proposals,
          Opening,     \* the balance of each account at the start
          Loads        \* the traffic considered: which validated bodies, how many
                       \* requests in all and at once

SalaryProposalStatus == {"ABSENT", "PENDING", "ACCEPTED", "REJECTED", "COUNTERED", "PAID"}

Dto ==
  [kind : {"propose"}, amount : Nat \ {0}]
    \cup [kind : {"respond"}, proposal : Proposals, action : {"ACCEPT", "REJECT", "COUNTER"}]
    \cup [kind : {"pay"}, proposal : Proposals, account : Accounts]

ASSUME SalariesAssumption ==
  /\ Accounts \cap Proposals = {}
  /\ Opening \in [Accounts -> Nat]
  /\ \A l \in Loads : l.inputs \subseteq Dto /\ l.atOnce \in 1 .. MaxInFlight /\ l.inAll \in Nat

SalaryProposal == [status : SalaryProposalStatus, amount : Nat, paid : BOOLEAN]
Account == [current_balance : Int]

VARIABLES ledger,   \* the committed rows of transactions
          load      \* the traffic of this behaviour

vars == <<sessionVars, ledger, load>>

Reads(d) ==
  CASE d.kind = "propose" -> << >>
    [] d.kind = "respond" -> <<d.proposal>>
    [] d.kind = "pay" -> <<d.proposal, d.account>>

(* The status an answer leads to. *)
Answered(action) ==
  CASE action = "ACCEPT" -> "ACCEPTED" [] action = "REJECT" -> "REJECTED" [] action = "COUNTER" -> "COUNTERED"

(* manager.decrement, and the read-then-set it is preferred to. *)
ReadThenSet(r, a, amount) == view[r][a].current_balance - amount
Decremented(r, a, amount) == Seen(r, a).current_balance - amount

Entry(r) ==
  [by |-> r, proposal |-> dto[r].proposal, account |-> dto[r].account,
   amount |-> view[r][dto[r].proposal].amount]

-----------------------------------------------------------------------------
Arrive(r) ==
  /\ Room(load)
  /\ \E d \in load.inputs :
       /\ d.kind # "propose" => rows[d.proposal].status # "ABSENT"
       /\ Open(r, d, FALSE)
  /\ UNCHANGED <<ledger, load>>

Fetch(r) ==
  /\ pc[r] = "reading"
  /\ \E n \in 1 .. Len(Reads(dto[r])) :
       /\ Reads(dto[r])[n] \notin DOMAIN view[r]
       /\ \A m \in 1 .. n - 1 : Reads(dto[r])[m] \in DOMAIN view[r]
       /\ Read(r, {Reads(dto[r])[n]})
  /\ UNCHANGED <<ledger, load>>

Handles(r, kind) ==
  /\ pc[r] = "reading"
  /\ dto[r].kind = kind
  /\ \A n \in 1 .. Len(Reads(dto[r])) : Reads(dto[r])[n] \in DOMAIN view[r]

(* The answer of a request whose mail is sent, or not: nothing is undone.  *)
Mail(r) ==
  /\ pc[r] = "mailing"
  /\ \E outcome \in Ended : End(r, outcome)
  /\ UNCHANGED <<rows, ledger, load>>

(* sendSalaryProposal: the row first, under a fresh identity. *)
SendProposal(r) ==
  /\ Handles(r, "propose")
  /\ \E p \in {q \in Proposals : rows[q].status = "ABSENT"} :
       rows' = [rows EXCEPT ![p] =
                  [status |-> "PENDING", amount |-> dto[r].amount, paid |-> FALSE]]
  /\ pc' = [pc EXCEPT ![r] = "mailing"]
  /\ UNCHANGED <<dto, view, todo, diff, pending, conns, ledger, load>>

(* Which proposals are still to be answered. *)
Unanswered(proposal) == proposal.status = "PENDING"

Respond(r) ==
  /\ Handles(r, "respond")
  /\ LET p == dto[r].proposal
         proposal == view[r][p]
     IN IF Unanswered(proposal)
        THEN Proceed(r, <<Save(p, [proposal EXCEPT !.status = Answered(dto[r].action)], {})>>)
        ELSE Rollback(r)
  /\ UNCHANGED <<ledger, load>>

Write(r) == (Reload(r) \/ Update(r)) /\ UNCHANGED <<ledger, load>>

(* An answer is mailed to the manager once it has committed. *)
CommitAnswer(r) ==
  /\ AllSaved(r) /\ dto[r].kind = "respond"
  /\ rows' = [x \in DOMAIN rows |-> Seen(r, x)]
  /\ pending' = [pending EXCEPT ![r] = Nothing]
  /\ conns' = conns \ {r}
  /\ pc' = [pc EXCEPT ![r] = "mailing"]
  /\ UNCHANGED <<dto, view, todo, diff, ledger, load>>

(* The checks that open a payment; and that of the balance alone. *)
Affordable(proposal, account) == account.current_balance >= proposal.amount
Payable(proposal, account) ==
  /\ proposal.status = "ACCEPTED"
  /\ account.current_balance >= proposal.amount

BeginPayment(r) ==
  /\ Handles(r, "pay")
  /\ IF Payable(view[r][dto[r].proposal], view[r][dto[r].account])
     THEN /\ Cardinality(conns) < PoolSize
          /\ conns' = conns \cup {r}
          /\ pc' = [pc EXCEPT ![r] = "paying"]
          /\ UNCHANGED <<rows, dto, view, todo, diff, pending>>
     ELSE Rollback(r)
  /\ UNCHANGED <<ledger, load>>

Decrement(r) ==
  /\ pc[r] = "paying"
  /\ LET a == dto[r].account IN
     /\ a \notin DOMAIN pending[r]
     /\ SetColumns(r, a,
          [current_balance |-> Decremented(r, a, view[r][dto[r].proposal].amount)],
          {"current_balance"})
  /\ UNCHANGED <<rows, pc, dto, view, todo, diff, conns, ledger, load>>

MarkPaid(r) ==
  /\ pc[r] = "paying"
  /\ dto[r].account \in DOMAIN pending[r]
  /\ LET p == dto[r].proposal IN
     /\ p \notin DOMAIN pending[r]
     /\ SetColumns(r, p, [Seen(r, p) EXCEPT !.status = "PAID", !.paid = TRUE], {"status", "paid"})
  /\ UNCHANGED <<rows, pc, dto, view, todo, diff, conns, ledger, load>>

(* Both statements are done. *)
Settled(r) == {dto[r].account, dto[r].proposal} \subseteq DOMAIN pending[r]

(* The ledger row is inserted in the same transaction. *)
CommitPayment(r) ==
  /\ pc[r] = "paying" /\ Settled(r)
  /\ rows' = [x \in DOMAIN rows |-> Seen(r, x)]
  /\ ledger' = ledger \cup {Entry(r)}
  /\ pending' = [pending EXCEPT ![r] = Nothing]
  /\ conns' = conns \ {r}
  /\ pc' = [pc EXCEPT ![r] = "mailing"]
  /\ UNCHANGED <<dto, view, todo, diff, load>>

Abort(r) == r \in InFlight /\ Rollback(r) /\ UNCHANGED <<ledger, load>>

Handle(r) ==
  \/ Fetch(r) \/ SendProposal(r) \/ Respond(r) \/ Write(r) \/ CommitAnswer(r)
  \/ BeginPayment(r) \/ Decrement(r) \/ MarkPaid(r) \/ CommitPayment(r) \/ Mail(r)

Next == \E r \in Requests : Arrive(r) \/ Handle(r) \/ Abort(r)

Init ==
  /\ SessionsInit
  /\ ledger = {}
  /\ load \in Loads
  /\ \E start \in {"PENDING", "ACCEPTED"} : \E standing \in SUBSET Proposals :
       rows = [x \in Accounts \cup Proposals |->
         IF x \in Accounts THEN [current_balance |-> Opening[x]]
         ELSE [status |-> IF x \in standing THEN start ELSE "ABSENT",
               amount |-> IF x \in standing THEN 3 ELSE 0, paid |-> FALSE]]

Spec == Init /\ [][Next]_vars

-----------------------------------------------------------------------------
OneByOne == load.atOnce = 1

(* Salaries move the balance exactly by what the ledger says, however the  *)
(* payments of an account overlap, because the decrement is the database's;*)
(* a proposal is only marked paid with a salary of it in the ledger, since *)
(* the payment's three statements are never seen apart, and keeps its mark *)
(* unless an answer is saved beside the payment (it saves the proposal as  *)
(* it was read, without the mark).                                         *)
AnsweredApart == OneByOne \/ \A d \in load.inputs : d.kind # "respond"
LedgerExplainsSalaries ==
  /\ \A a \in Accounts : rows[a].current_balance =
       Opening[a] - SumFunctionOnSet([e \in ledger |-> e.amount], {e \in ledger : e.account = a})
  /\ \A p \in Proposals : rows[p].paid => \E e \in ledger : e.proposal = p
  /\ AnsweredApart => \A e \in ledger : rows[e.proposal].paid

(* "Only ACCEPTED proposals can be paid.", "Insufficient balance": served  *)
(* one by one, whatever answers, retries and lost connections come in      *)
(* between, no proposal is paid twice and no salary overdraws an account.  *)
(* (Both are tested on what was read before the transaction, without a     *)
(* lock: payments that overlap break them.)                                *)
PaidOnceAndCovered ==
  OneByOne => /\ \A d, e \in ledger : d.proposal = e.proposal => d = e
              /\ \A a \in Accounts : rows[a].current_balance >= 0
=============================================================================
