----------------------------- MODULE MCPayables -----------------------------
(* Small instances of Payables for TLC. *)
EXTENDS Payables, TLC

CONSTANTS r1, r2, r3, r4, a1, b1, b2, p1, p2

MCOpening == [a \in Accounts |-> 30]
MCNet == [b \in Bills |-> 20]
Amounts12 == [n \in Lines |-> 5 + n]

NoStanding == [p \in Plans |-> [status |-> "ABSENT", bill |-> NoBill, amounts |-> Amounts12]]
Standing(status) ==
  [NoStanding EXCEPT ![p1] = [status |-> status, bill |-> b1, amounts |-> Amounts12]]

Pay(bill, amount) == [kind |-> "pay", account |-> a1, bill |-> bill, amount |-> amount]
PayLine(line) == [kind |-> "installment", plan |-> p1, line |-> line, account |-> a1]
Ask(bill) == [kind |-> "schedule", bill |-> bill, amounts |-> Amounts12]
Reply(kind) == [kind |-> kind, plan |-> p1]
ReviewOf(kind) == [kind |-> kind, bill |-> b1]
Overdue == [kind |-> "overdue", due |-> {b1}]
Match(b, verdict) ==
  [kind |-> "match", among |-> {b}, verdict |-> [c \in Bills |-> verdict]]
MatchAll(verdict1, verdict2) ==
  [kind |-> "matchAll", among |-> {b1, b2},
   verdict |-> [b \in Bills |-> IF b = b1 THEN verdict1 ELSE verdict2]]

Payments ==
  [inAll |-> 3, atOnce |-> 3, standing |-> NoStanding,
   inputs |-> {Pay(b1, 12), Pay(b1, 25), Pay(NoBill, 20), ReviewOf("dispute"), ReviewOf("approve"),
               [kind |-> "settle", bill |-> b1, paid |-> 20], Overdue, Match(b1, "approve")}]
InstallmentPayments ==
  [inAll |-> 3, atOnce |-> 3, standing |-> Standing("ACTIVE"),
   inputs |-> {PayLine(1), PayLine(2), Pay(b1, 5), Pay(b1, 15), ReviewOf("dispute")}]
Life ==
  [inAll |-> 3, atOnce |-> 1, standing |-> Standing("PENDING_APPROVAL"),
   inputs |->
     {ReviewOf(k) : k \in {"approve", "dispute", "resolve"}}
       \cup {[kind |-> "resolution", bill |-> b1, net |-> 18, action |-> a] :
               a \in {"APPROVE_AS_IS", "CORRECT_AMOUNTS", "REJECT_INVOICE", "NOTE"}}
       \cup {[kind |-> "edit", bill |-> b1, net |-> 16], Ask(b1), Ask(b2),
             [kind |-> "approve", bill |-> b2], MatchAll("dispute", "approve"),
             MatchAll("approve", "none"), Reply("accept"), Reply("reject"),
             PayLine(1), PayLine(2), Pay(b1, 20), Overdue}]

SymmetricRequests == Permutations(Requests)
(* What is paid set by hand, and invoices matched on their own. *)
ByHand ==
  [inAll |-> 4, atOnce |-> 1, standing |-> NoStanding,
   inputs |-> {Pay(b1, 12), ReviewOf("approve"), ReviewOf("dispute"), Match(b1, "approve"),
               [kind |-> "settle", bill |-> b1, paid |-> 20],
               [kind |-> "settle", bill |-> b1, paid |-> 6]}]
AllLoads == {Payments, InstallmentPayments, Life, ByHand}
PaidBothWays ==
  {[inAll |-> 3, atOnce |-> 1, standing |-> Standing("ACTIVE"),
    inputs |-> {Pay(b1, 12), PayLine(1), PayLine(2)}]}
=============================================================================
