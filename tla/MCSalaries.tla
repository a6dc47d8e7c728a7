----------------------------- MODULE MCSalaries -----------------------------
(* Small instances of Salaries for TLC. *)
EXTENDS Salaries, TLC

CONSTANTS r1, r2, r3, r4, a1, p1, p2

MCOpening == [a \in Accounts |-> 5]

Propose == [kind |-> "propose", amount |-> 2]
Reply(p, action) == [kind |-> "respond", proposal |-> p, action |-> action]
Pay(p) == [kind |-> "pay", proposal |-> p, account |-> a1]

Payments == [inAll |-> 3, atOnce |-> 3, inputs |-> {Pay(p1), Pay(p2)}]
Life ==
  [inAll |-> 4, atOnce |-> 1,
   inputs |-> {Propose, Pay(p1), Pay(p2)}
                \cup {Reply(p, a) : p \in {p1, p2}, a \in {"ACCEPT", "REJECT", "COUNTER"}}]
AllLoads == {Payments, Life}
SymmetricRequests == Permutations(Requests)
=============================================================================
