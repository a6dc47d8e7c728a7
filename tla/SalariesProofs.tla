--------------------------- MODULE SalariesProofs ---------------------------
(***************************************************************************)
(* Theorems about Salaries, for any number of requests, accounts and       *)
(* proposals, and any traffic.                                             *)
(*                                                                         *)
(* That the ledger explains the balances is not inductive: a decrement is  *)
(* written long before it commits.  The invariant says what each phase of  *)
(* a request has written, relative to the rows as they are: the decrement  *)
(* stays right because the row it was made on is locked.  What is promised *)
(* one by one rests on Alone: nobody else is in flight, so what a request  *)
(* has read is what the rows are.                                          *)
(***************************************************************************)
EXTENDS Salaries, Sums

Rows == Accounts \cup Proposals
Writing == {"saving", "updating"}
Pending == {"reading", "saving", "updating", "paying"}

IsRow(x, entity) ==
  /\ x \in Accounts => entity \in Account
  /\ x \in Proposals => entity \in SalaryProposal

Shape ==
  /\ pc \in [Requests -> Phases \cup {"paying", "mailing"}]
  /\ DOMAIN dto = Requests /\ DOMAIN view = Requests /\ DOMAIN todo = Requests
  /\ DOMAIN diff = Requests /\ DOMAIN pending = Requests
  /\ load \in Loads

RowsTyped == DOMAIN rows = Rows /\ \A x \in Rows : IsRow(x, rows[x])

LedgerTyped ==
  /\ IsFiniteSet(ledger)
  /\ \A e \in ledger :
       /\ e.by \in Requests /\ pc[e.by] \in {"mailing"} \cup Ended
       /\ e.account \in Accounts /\ e.proposal \in Proposals /\ e.amount \in Nat
       /\ rows[e.proposal].status # "ABSENT"

(* Row locks: no row is written by two transactions. *)
Exclusive == \A r, s \in Requests : r # s => DOMAIN pending[r] \cap DOMAIN pending[s] = {}

TheAnswer(r) == [view[r][dto[r].proposal] EXCEPT !.status = Answered(dto[r].action)]

(* What a request knows and has written, by its phase. *)
Asked(r) ==
  pc[r] # "idle" =>
    /\ dto[r] \in load.inputs
    /\ dto[r].kind # "propose" => rows[dto[r].proposal].status # "ABSENT"
Knows(r) == \A x \in DOMAIN view[r] : x \in Rows /\ IsRow(x, view[r][x])
Answering(r) ==
  pc[r] \in Writing =>
    /\ dto[r].kind = "respond" /\ dto[r].proposal \in DOMAIN view[r]
    /\ todo[r] \in {<< >>, <<Save(dto[r].proposal, TheAnswer(r), {})>>}
    /\ pc[r] = "updating" => todo[r] # << >> /\ DOMAIN diff[r] = {dto[r].proposal}
    /\ \A x \in DOMAIN pending[r] : x = dto[r].proposal /\ pending[r][x].entity = TheAnswer(r)
Paying(r) ==
  pc[r] = "paying" =>
    /\ dto[r].kind = "pay" /\ dto[r].proposal \in DOMAIN view[r]
    /\ DOMAIN pending[r] \subseteq {dto[r].account, dto[r].proposal}
    /\ dto[r].account \in DOMAIN pending[r] =>
         /\ pending[r][dto[r].account].cols = {"current_balance"}
         /\ pending[r][dto[r].account].entity.current_balance =
              rows[dto[r].account].current_balance - view[r][dto[r].proposal].amount
    /\ dto[r].proposal \in DOMAIN pending[r] =>
         /\ pending[r][dto[r].proposal].cols = {"status", "paid"}
         /\ pending[r][dto[r].proposal].entity.status = "PAID"
         /\ pending[r][dto[r].proposal].entity.paid = TRUE
Resting(r) == pc[r] \notin Writing \cup {"paying"} => DOMAIN pending[r] = {}
Request(r) == Asked(r) /\ Knows(r) /\ Answering(r) /\ Paying(r) /\ Resting(r)

(* A proposal that was read as paid has a ledger entry already. *)
Backed ==
  \A r \in Requests : \A p \in DOMAIN view[r] \cap Proposals :
    view[r][p].paid => \E e \in ledger : e.proposal = p

(* One by one, what a request has read is what there is. *)
Single == IsFiniteSet(InFlight) /\ (OneByOne => \A r, s \in InFlight : r = s)
Fresh(r) ==
  /\ pc[r] = "idle" => DOMAIN view[r] = {}
  /\ pc[r] \in Pending => \A x \in DOMAIN view[r] : view[r][x] = rows[x]
  /\ pc[r] \in Writing => view[r][dto[r].proposal].status = "PENDING"
  /\ pc[r] = "paying" => /\ dto[r].account \in DOMAIN view[r]
                         /\ Payable(view[r][dto[r].proposal], view[r][dto[r].account])
Marked == \A e \in ledger : rows[e.proposal].status = "PAID"
Alone == OneByOne => Marked /\ \A r \in Requests : Fresh(r)

Typed == Shape /\ RowsTyped /\ LedgerTyped /\ Exclusive /\ Single /\ \A r \in Requests : Request(r)
Inv == Typed /\ Backed /\ Alone /\ LedgerExplainsSalaries /\ PaidOnceAndCovered

-----------------------------------------------------------------------------
USE DEF Phases, Ended, Writing, Pending

LEMMA DtoKinds ==
  ASSUME NEW d \in Dto
  PROVE  /\ d.kind \in {"propose", "respond", "pay"}
         /\ d.kind = "propose" => d.amount \in Nat
         /\ d.kind \in {"respond", "pay"} => d.proposal \in Proposals
         /\ d.kind = "respond" => d.action \in {"ACCEPT", "REJECT", "COUNTER"}
         /\ d.kind = "pay" => d.account \in Accounts
BY DEF Dto

(* What a request that has arrived was asked. *)
LEMMA Validated ==
  ASSUME SalariesAssumption, Typed, NEW r \in Requests, pc[r] # "idle"
  PROVE  dto[r] \in Dto
BY DEF SalariesAssumption, Typed, Shape, Request, Asked

LEMMA AnswerTyped ==
  ASSUME SalariesAssumption, Typed, NEW r \in Requests, pc[r] # "idle", dto[r].kind = "respond",
         dto[r].proposal \in DOMAIN view[r]
  PROVE  TheAnswer(r) \in SalaryProposal /\ TheAnswer(r).status \notin {"ABSENT", "PENDING", "PAID"}
<1>1. dto[r] \in Dto
  BY Validated
<1>2. dto[r].proposal \in Proposals /\ dto[r].action \in {"ACCEPT", "REJECT", "COUNTER"}
  BY <1>1, DtoKinds
<1>3. view[r][dto[r].proposal] \in SalaryProposal
  BY <1>2 DEF Typed, Request, Knows, IsRow
<1>4. Answered(dto[r].action) \in {"ACCEPTED", "REJECTED", "COUNTERED"}
  BY <1>2 DEF Answered
<1> QED BY <1>3, <1>4 DEF TheAnswer, SalaryProposal, SalaryProposalStatus

(* A row as a transaction sees it has the columns of its table; an account *)
(* is only changed by a payment, and no proposal becomes absent.           *)
LEMMA SeenTyped ==
  ASSUME SalariesAssumption, Typed, NEW r \in Requests, pc[r] \in Writing \cup {"paying"},
         NEW x \in Rows
  PROVE  /\ IsRow(x, Seen(r, x))
         /\ x \notin DOMAIN pending[r] => Seen(r, x) = rows[x]
         /\ x \in Accounts /\ Seen(r, x) # rows[x] => pc[r] = "paying" /\ x = dto[r].account
         /\ x \in Proposals /\ rows[x].status # "ABSENT" => Seen(r, x).status # "ABSENT"
<1>1. CASE x \notin DOMAIN pending[r]
  BY <1>1 DEF Seen, Typed, RowsTyped
<1>2. CASE x \in DOMAIN pending[r] /\ pc[r] \in Writing
  <2>1. /\ x = dto[r].proposal /\ pending[r][x].entity = TheAnswer(r)
        /\ dto[r].kind = "respond" /\ dto[r].proposal \in DOMAIN view[r]
    BY <1>2 DEF Typed, Request, Answering
  <2>2. TheAnswer(r) \in SalaryProposal /\ TheAnswer(r).status # "ABSENT"
    BY <1>2, <2>1, AnswerTyped
  <2>3. x \in Proposals /\ x \notin Accounts
    BY <1>2, <2>1, Validated, DtoKinds DEF SalariesAssumption
  <2>4. rows[x] \in SalaryProposal
    BY <2>3 DEF Typed, RowsTyped, IsRow
  <2>5. Seen(r, x) = [c \in DOMAIN rows[x] |->
                        IF c \in pending[r][x].cols THEN TheAnswer(r)[c] ELSE rows[x][c]]
    BY <1>2, <2>1 DEF Seen, Merge
  <2>6. Seen(r, x) \in SalaryProposal
    BY <2>2, <2>4, <2>5 DEF SalaryProposal
  <2>7. Seen(r, x).status \in {TheAnswer(r).status, rows[x].status}
    BY <2>4, <2>5 DEF SalaryProposal
  <2> QED BY <1>2, <2>2, <2>3, <2>6, <2>7 DEF IsRow
<1>3. CASE x \in DOMAIN pending[r] /\ pc[r] = "paying" /\ x = dto[r].account
  <2>1. x \in Accounts /\ x \notin Proposals
    BY <1>3, Validated, DtoKinds DEF SalariesAssumption, Typed, Request, Paying
  <2>2. rows[x] \in Account /\ pending[r][x].cols = {"current_balance"}
    BY <1>3, <2>1 DEF Typed, RowsTyped, IsRow, Request, Paying
  <2>3. pending[r][x].entity.current_balance
          = rows[x].current_balance - view[r][dto[r].proposal].amount
    BY <1>3 DEF Typed, Request, Paying
  <2>4. view[r][dto[r].proposal].amount \in Nat
    <3>1. dto[r].proposal \in Proposals /\ dto[r].proposal \in DOMAIN view[r]
      BY <1>3, Validated, DtoKinds DEF Typed, Request, Paying
    <3> QED BY <3>1 DEF Typed, Request, Knows, IsRow, SalaryProposal
  <2>5. Seen(r, x) = [c \in DOMAIN rows[x] |->
                        IF c \in pending[r][x].cols THEN pending[r][x].entity[c] ELSE rows[x][c]]
    BY <1>3 DEF Seen, Merge
  <2>6. Seen(r, x) \in Account
    BY <2>2, <2>3, <2>4, <2>5 DEF Account
  <2> QED BY <1>3, <2>1, <2>6 DEF IsRow
<1>4. CASE x \in DOMAIN pending[r] /\ pc[r] = "paying" /\ x # dto[r].account
  <2>1. x = dto[r].proposal
    BY <1>4 DEF Typed, Request, Paying
  <2>2. x \in Proposals /\ x \notin Accounts
    BY <1>4, <2>1, Validated, DtoKinds DEF SalariesAssumption, Typed, Request, Paying
  <2>3. rows[x] \in SalaryProposal
    BY <2>2 DEF Typed, RowsTyped, IsRow
  <2>4. /\ pending[r][x].cols = {"status", "paid"}
        /\ pending[r][x].entity.status = "PAID" /\ pending[r][x].entity.paid = TRUE
    BY <1>4, <2>1 DEF Typed, Request, Paying
  <2>5. Seen(r, x) = [c \in DOMAIN rows[x] |->
                        IF c \in pending[r][x].cols THEN pending[r][x].entity[c] ELSE rows[x][c]]
    BY <1>4 DEF Seen, Merge
  <2>6. Seen(r, x) \in SalaryProposal /\ Seen(r, x).status = "PAID"
    BY <2>3, <2>4, <2>5 DEF SalaryProposal, SalaryProposalStatus
  <2> QED BY <1>4, <2>2, <2>6 DEF IsRow
<1> QED BY <1>1, <1>2, <1>3, <1>4

(* Whoever is in flight was so before. *)
LEMMA SingleKept ==
  ASSUME Typed, NEW r \in Requests, pc[r] \notin {"idle"} \cup Ended, NEW phase,
         pc' = [pc EXCEPT ![r] = phase], UNCHANGED load
  PROVE  Single'
<1>1. InFlight' \subseteq InFlight
  BY DEF InFlight, Typed, Shape
<1>2. IsFiniteSet(InFlight')
  BY <1>1, FS_Subset DEF Typed, Single
<1>3. OneByOne' => OneByOne
  BY DEF OneByOne
<1> QED BY <1>1, <1>2, <1>3 DEF Typed, Single

(* One at a time, the newcomer finds nobody. *)
LEMMA SingleArrives ==
  ASSUME SalariesAssumption, Typed, NEW r \in Requests, Room(load), pc[r] = "idle",
         pc' = [pc EXCEPT ![r] = "reading"], UNCHANGED load
  PROVE  Single'
<1>1. InFlight' = InFlight \cup {r}
  BY DEF InFlight, Typed, Shape
<1>2. IsFiniteSet(InFlight')
  BY <1>1, FS_AddElement DEF Typed, Single
<1>3. OneByOne => InFlight = {}
  <2>1. Cardinality(InFlight) < load.atOnce /\ IsFiniteSet(InFlight)
    BY DEF Room, Typed, Single
  <2>2. OneByOne => Cardinality(InFlight) < 1
    BY <2>1 DEF OneByOne
  <2> QED BY <2>1, <2>2, FS_CardinalityType, FS_EmptySet
<1> QED BY <1>1, <1>2, <1>3 DEF Single, OneByOne

(* Who does not move, and whose rows nobody else writes, knows what he knew. *)
LEMMA RequestKept ==
  ASSUME SalariesAssumption, Typed, NEW s \in Requests, pc'[s] = pc[s], dto'[s] = dto[s],
         view'[s] = view[s], todo'[s] = todo[s], diff'[s] = diff[s], pending'[s] = pending[s],
         UNCHANGED load,
         \A p \in Proposals : rows[p].status # "ABSENT" => rows'[p].status # "ABSENT",
         \A a \in DOMAIN pending[s] : a \in Accounts => rows'[a] = rows[a]
  PROVE  Request(s)'
<1>1. pc[s] # "idle" =>
        /\ dto[s].kind # "propose" => dto[s].proposal \in Proposals
        /\ dto[s].kind = "pay" => dto[s].account \in Accounts
  <2>1. SUFFICES ASSUME pc[s] # "idle"
        PROVE /\ dto[s].kind # "propose" => dto[s].proposal \in Proposals
              /\ dto[s].kind = "pay" => dto[s].account \in Accounts
    OBVIOUS
  <2> QED BY <2>1, Validated, DtoKinds
<1>2. Asked(s)'
  BY <1>1 DEF Typed, Request, Asked
<1>3. Knows(s)'
  BY DEF Typed, Request, Knows
<1>4. TheAnswer(s)' = TheAnswer(s)
  BY DEF TheAnswer
<1>5. Answering(s)'
  BY <1>4 DEF Typed, Request, Answering
<1>6. Paying(s)'
  <2>1. Paying(s)
    BY DEF Typed, Request
  <2>2. pc[s] = "paying" /\ dto[s].account \in DOMAIN pending[s] =>
          rows'[dto[s].account] = rows[dto[s].account]
    BY <1>1, <2>1 DEF Paying
  <2> QED BY <2>1, <2>2 DEF Paying
<1>7. Resting(s)'
  BY DEF Typed, Request, Resting
<1> QED BY <1>2, <1>3, <1>5, <1>6, <1>7 DEF Request

LEMMA ArriveTyped ==
  ASSUME SalariesAssumption, Typed, NEW r \in Requests, Arrive(r)
  PROVE  Typed'
<1> PICK d \in load.inputs : /\ d.kind # "propose" => rows[d.proposal].status # "ABSENT"
                             /\ Open(r, d, FALSE)
  BY DEF Arrive
<1>1. /\ pc[r] = "idle" /\ pc' = [pc EXCEPT ![r] = "reading"] /\ dto' = [dto EXCEPT ![r] = d]
      /\ UNCHANGED <<rows, view, todo, diff, pending, ledger, load>>
  BY DEF Arrive, Open
<1>2. Shape' /\ RowsTyped' /\ Exclusive'
  BY <1>1 DEF Typed, Shape, RowsTyped, Exclusive
<1>3. LedgerTyped'
  BY <1>1 DEF Typed, Shape, LedgerTyped
<1>4. Single'
  BY <1>1, SingleArrives DEF Arrive
<1>5. ASSUME NEW s \in Requests PROVE Request(s)'
  <2>1. CASE s = r
    BY <1>1, <2>1 DEF Typed, Shape, Request, Asked, Knows, Answering, Paying, Resting
  <2>2. CASE s # r
    <3>1. pc'[s] = pc[s] /\ dto'[s] = dto[s]
      BY <1>1, <2>2 DEF Typed, Shape
    <3> QED BY <1>1, <3>1, RequestKept
  <2> QED BY <2>1, <2>2
<1> QED BY <1>2, <1>3, <1>4, <1>5 DEF Typed

LEMMA FetchTyped ==
  ASSUME SalariesAssumption, Typed, NEW r \in Requests, Fetch(r)
  PROVE  Typed'
<1> PICK n \in 1 .. Len(Reads(dto[r])) : Read(r, {Reads(dto[r])[n]})
  BY DEF Fetch
<1> DEFINE x == Reads(dto[r])[n]
<1>1. /\ pc[r] = "reading" /\ view' = [view EXCEPT ![r] = With(@, {x})]
      /\ UNCHANGED <<rows, pc, dto, todo, diff, pending, ledger, load>>
  BY DEF Fetch, Read
<1>2. x \in Rows
  <2>1. dto[r] \in Dto
    BY <1>1, Validated
  <2>2. dto[r].kind # "propose"
    BY DEF Reads
  <2>3. dto[r].proposal \in Rows /\ (dto[r].kind = "pay" => dto[r].account \in Rows)
    BY <2>1, <2>2, DtoKinds DEF Rows
  <2>4. CASE dto[r].kind = "pay"
    <3>1. Reads(dto[r]) = <<dto[r].proposal, dto[r].account>>
      BY <2>4 DEF Reads
    <3>2. n \in {1, 2}
      BY <3>1
    <3> QED BY <2>3, <2>4, <3>1, <3>2
  <2>5. CASE dto[r].kind = "respond"
    <3>1. Reads(dto[r]) = <<dto[r].proposal>>
      BY <2>5 DEF Reads
    <3>2. n = 1
      BY <3>1
    <3> QED BY <2>3, <3>1, <3>2
  <2> QED BY <2>1, <2>2, <2>4, <2>5, DtoKinds
<1> HIDE DEF x
<1>3. Shape' /\ RowsTyped' /\ Exclusive' /\ LedgerTyped'
  BY <1>1 DEF Typed, Shape, RowsTyped, Exclusive, LedgerTyped
<1>4. Single'
  BY <1>1 DEF Typed, Single, InFlight, OneByOne
<1>5. ASSUME NEW s \in Requests PROVE Request(s)'
  <2>1. CASE s = r
    <3>1. view'[r] = [y \in DOMAIN view[r] \cup {x} |-> IF y \in {x} THEN rows[y] ELSE view[r][y]]
      BY <1>1 DEF With, Typed, Shape
    <3>2. Knows(r)'
      BY <1>1, <1>2, <3>1 DEF Typed, Request, Knows, RowsTyped
    <3> QED BY <1>1, <2>1, <3>2 DEF Typed, Request, Asked, Answering, Paying, Resting
  <2>2. CASE s # r
    <3>1. view'[s] = view[s]
      BY <1>1, <2>2 DEF Typed, Shape
    <3> QED BY <1>1, <3>1, RequestKept
  <2> QED BY <2>1, <2>2
<1> QED BY <1>3, <1>4, <1>5 DEF Typed

(* A request that ends leaves nothing behind. *)
LEMMA EndTyped ==
  ASSUME SalariesAssumption, Typed, NEW r \in Requests, pc[r] \notin {"idle"} \cup Ended, NEW outcome \in Ended,
         End(r, outcome), UNCHANGED <<rows, ledger, load>>
  PROVE  Typed'
<1>1. /\ pc' = [pc EXCEPT ![r] = outcome] /\ view' = [view EXCEPT ![r] = Nothing]
      /\ pending' = [pending EXCEPT ![r] = Nothing] /\ todo' = [todo EXCEPT ![r] = << >>]
      /\ diff' = [diff EXCEPT ![r] = Nothing] /\ UNCHANGED dto
  BY DEF End
<1>2. DOMAIN Nothing = {}
  BY DEF Nothing
<1>3. Shape' /\ RowsTyped'
  BY <1>1 DEF Typed, Shape, RowsTyped
<1>4. LedgerTyped'
  BY <1>1 DEF Typed, Shape, LedgerTyped
<1>5. Exclusive'
  <2>1. \A s \in Requests : DOMAIN pending'[s] \subseteq DOMAIN pending[s]
    BY <1>1, <1>2 DEF Typed, Shape
  <2> QED BY <2>1 DEF Typed, Exclusive
<1>6. Single'
  BY <1>1, SingleKept
<1>7. ASSUME NEW s \in Requests PROVE Request(s)'
  <2>1. CASE s = r
    BY <1>1, <1>2, <2>1 DEF Typed, Shape, Request, Asked, Knows, Answering, Paying, Resting
  <2>2. CASE s # r
    <3>1. pc'[s] = pc[s] /\ view'[s] = view[s] /\ pending'[s] = pending[s]
          /\ todo'[s] = todo[s] /\ diff'[s] = diff[s]
      BY <1>1, <2>2 DEF Typed, Shape
    <3> QED BY <1>1, <3>1, RequestKept
  <2> QED BY <2>1, <2>2
<1> QED BY <1>3, <1>4, <1>5, <1>6, <1>7 DEF Typed

LEMMA SendProposalTyped ==
  ASSUME SalariesAssumption, Typed, NEW r \in Requests, SendProposal(r)
  PROVE  Typed'
<1> PICK p \in Proposals : /\ rows[p].status = "ABSENT"
                           /\ rows' = [rows EXCEPT ![p] = [status |-> "PENDING",
                                         amount |-> dto[r].amount, paid |-> FALSE]]
  BY DEF SendProposal
<1>1. /\ pc[r] = "reading" /\ dto[r].kind = "propose" /\ pc' = [pc EXCEPT ![r] = "mailing"]
      /\ UNCHANGED <<dto, view, todo, diff, pending, ledger, load>>
  BY DEF SendProposal, Handles
<1>2. dto[r].amount \in Nat
  BY <1>1, Validated, DtoKinds
<1>3. p \in Rows /\ p \notin Accounts
  BY DEF Rows, SalariesAssumption
<1>4. /\ DOMAIN rows' = Rows /\ \A x \in Rows : x # p => rows'[x] = rows[x]
      /\ rows'[p] \in SalaryProposal /\ rows'[p].status = "PENDING"
  BY <1>2, <1>3 DEF Typed, RowsTyped, SalaryProposal, SalaryProposalStatus
<1>5. RowsTyped'
  BY <1>3, <1>4 DEF Typed, RowsTyped, IsRow
<1>6. Shape' /\ Exclusive' /\ Single'
  BY <1>1, SingleKept DEF Typed, Shape, Exclusive
<1>7. LedgerTyped'
  BY <1>1, <1>3, <1>4 DEF Typed, Shape, LedgerTyped, Rows
<1>8. ASSUME NEW s \in Requests PROVE Request(s)'
  <2>1. CASE s = r
    BY <1>1, <2>1 DEF Typed, Shape, Request, Asked, Knows, Answering, Paying, Resting
  <2>2. CASE s # r
    <3>1. pc'[s] = pc[s]
      BY <1>1, <2>2 DEF Typed, Shape
    <3>2. /\ \A q \in Proposals : rows[q].status # "ABSENT" => rows'[q].status # "ABSENT"
          /\ \A a \in Accounts : rows'[a] = rows[a]
      BY <1>3, <1>4 DEF Rows
    <3> QED BY <1>1, <3>1, <3>2, RequestKept
  <2> QED BY <2>1, <2>2
<1> QED BY <1>5, <1>6, <1>7, <1>8 DEF Typed

LEMMA RollbackTyped ==
  ASSUME SalariesAssumption, Typed, NEW r \in Requests, pc[r] \notin {"idle"} \cup Ended,
         Rollback(r), UNCHANGED <<ledger, load>>
  PROVE  Typed'
BY EndTyped DEF Rollback

(* A request goes on without a write: only its phase, its saves to make    *)
(* and what they change are other than before.                             *)
LEMMA StepTyped ==
  ASSUME SalariesAssumption, Typed, NEW r \in Requests, pc[r] \notin {"idle"} \cup Ended,
         pc[r] # "mailing", NEW phase \in Pending, pc' = [pc EXCEPT ![r] = phase],
         UNCHANGED <<rows, dto, view, ledger, load>>,
         \A s \in Requests \ {r} : todo'[s] = todo[s] /\ diff'[s] = diff[s] /\ pending'[s] = pending[s],
         Shape', Exclusive', Request(r)'
  PROVE  Typed'
<1>1. RowsTyped' /\ Single'
  BY SingleKept DEF Typed, RowsTyped
<1>2. LedgerTyped'
  BY DEF Typed, Shape, LedgerTyped
<1>3. ASSUME NEW s \in Requests, s # r PROVE Request(s)'
  <2>1. pc'[s] = pc[s] /\ dto'[s] = dto[s] /\ view'[s] = view[s]
    BY <1>3 DEF Typed, Shape
  <2> QED BY <1>3, <2>1, RequestKept
<1> QED BY <1>1, <1>2, <1>3 DEF Typed

LEMMA RespondTyped ==
  ASSUME SalariesAssumption, Typed, NEW r \in Requests, Respond(r)
  PROVE  Typed'
<1> DEFINE p == dto[r].proposal
<1>1. pc[r] = "reading" /\ dto[r].kind = "respond" /\ UNCHANGED <<ledger, load>>
  BY DEF Respond, Handles
<1>2. p \in DOMAIN view[r]
  <2>1. Reads(dto[r]) = <<p>>
    BY <1>1 DEF Reads
  <2>2. Len(Reads(dto[r])) = 1 /\ Reads(dto[r])[1] = p
    BY <2>1
  <2> HIDE DEF p
  <2> QED BY <2>2 DEF Respond, Handles
<1>3. CASE Rollback(r)
  BY <1>1, <1>3, RollbackTyped
<1>4. CASE Proceed(r, <<Save(p, TheAnswer(r), {})>>)
  <2>1. /\ pc' = [pc EXCEPT ![r] = "saving"]
        /\ todo' = [todo EXCEPT ![r] = <<Save(p, TheAnswer(r), {})>>]
        /\ UNCHANGED <<rows, dto, view, diff, pending, ledger, load>>
    BY <1>1, <1>4 DEF Proceed
  <2>2. Shape' /\ Exclusive'
    BY <2>1 DEF Typed, Shape, Exclusive
  <2>3. DOMAIN pending[r] = {}
    BY <1>1 DEF Typed, Request, Resting
  <2>4. /\ pc'[r] = "saving" /\ todo'[r] = <<Save(p, TheAnswer(r), {})>>
        /\ dto'[r] = dto[r] /\ view'[r] = view[r] /\ pending'[r] = pending[r]
    BY <2>1 DEF Typed, Shape
  <2>5. TheAnswer(r)' = TheAnswer(r)
    BY <2>4 DEF TheAnswer
  <2>6. Answering(r)'
    BY <1>1, <1>2, <2>3, <2>4, <2>5 DEF Answering
  <2>7. Request(r)'
    BY <1>1, <2>1, <2>4, <2>6 DEF Typed, Request, Asked, Knows, Paying, Resting
  <2> QED BY <1>1, <2>1, <2>2, <2>7, StepTyped DEF Typed, Shape
<1> QED BY <1>3, <1>4 DEF Respond, TheAnswer

LEMMA ReloadTyped ==
  ASSUME SalariesAssumption, Typed, NEW r \in Requests, Reload(r), UNCHANGED <<ledger, load>>
  PROVE  Typed'
<1> DEFINE p == dto[r].proposal
<1>1. /\ pc[r] = "saving" /\ todo[r] # << >> /\ pc' = [pc EXCEPT ![r] = "updating"]
      /\ diff' = [diff EXCEPT ![r] = [x \in DOMAIN Head(todo[r]).image |->
                    Differing(Head(todo[r]).image[x], Head(todo[r]).decimals, Seen(r, x))]]
      /\ UNCHANGED <<rows, dto, view, todo, pending, ledger, load>>
  BY DEF Reload
<1>2. Answering(r) /\ Asked(r) /\ Knows(r)
  BY DEF Typed, Request
<1>3. todo[r] = <<Save(p, TheAnswer(r), {})>>
  BY <1>1, <1>2 DEF Answering
<1>4. DOMAIN Head(todo[r]).image = {p}
  BY <1>3 DEF Save
<1>5. Shape' /\ Exclusive'
  BY <1>1 DEF Typed, Shape, Exclusive
<1>6. /\ pc'[r] = "updating" /\ DOMAIN diff'[r] = {p} /\ todo'[r] = todo[r]
      /\ dto'[r] = dto[r] /\ view'[r] = view[r] /\ pending'[r] = pending[r]
  BY <1>1, <1>4 DEF Typed, Shape
<1>7. TheAnswer(r)' = TheAnswer(r)
  BY <1>6 DEF TheAnswer
<1>8. Answering(r)'
  BY <1>1, <1>2, <1>6, <1>7 DEF Answering
<1>9. Request(r)'
  BY <1>1, <1>2, <1>6, <1>8 DEF Request, Asked, Knows, Paying, Resting
<1> QED BY <1>1, <1>5, <1>9, StepTyped DEF Typed, Shape

LEMMA UpdateTyped ==
  ASSUME SalariesAssumption, Typed, NEW r \in Requests, Update(r), UNCHANGED <<ledger, load>>
  PROVE  Typed'
<1> DEFINE p == dto[r].proposal
<1>1. /\ pc[r] = "updating" /\ \A x \in Needs(r) : ~LockedByOther(r, x)
      /\ pc' = [pc EXCEPT ![r] = "saving"] /\ todo' = [todo EXCEPT ![r] = Tail(@)]
      /\ diff' = [diff EXCEPT ![r] = Nothing]
      /\ pending' = [pending EXCEPT ![r] =
            [x \in DOMAIN @ \cup Needs(r) |->
               IF x \in Needs(r)
               THEN [entity |-> Head(todo[r]).image[x], cols |-> diff[r][x]] ELSE @[x]]]
      /\ UNCHANGED <<rows, dto, view, ledger, load>>
  BY DEF Update
<1>2. Answering(r) /\ Asked(r) /\ Knows(r)
  BY DEF Typed, Request
<1>3. todo[r] = <<Save(p, TheAnswer(r), {})>> /\ Needs(r) \subseteq {p}
  BY <1>1, <1>2 DEF Answering, Needs
<1>4. Head(todo[r]).image[p] = TheAnswer(r) /\ Tail(todo[r]) = << >>
  BY <1>3 DEF Save
<1>5. /\ pc'[r] = "saving" /\ todo'[r] = << >> /\ dto'[r] = dto[r] /\ view'[r] = view[r]
      /\ DOMAIN pending'[r] = DOMAIN pending[r] \cup Needs(r)
      /\ \A x \in DOMAIN pending'[r] : x = p /\ pending'[r][x].entity = TheAnswer(r)
  BY <1>1, <1>2, <1>3, <1>4 DEF Typed, Shape, Answering
<1>6. Shape'
  BY <1>1 DEF Typed, Shape
<1>7. Exclusive'
  <2>1. \A s \in Requests \ {r} : pending'[s] = pending[s] /\ DOMAIN pending[s] \cap Needs(r) = {}
    BY <1>1 DEF Typed, Shape, LockedByOther
  <2> QED BY <1>5, <2>1 DEF Typed, Exclusive
<1>8. TheAnswer(r)' = TheAnswer(r)
  BY <1>5 DEF TheAnswer
<1>9. Answering(r)'
  BY <1>1, <1>2, <1>5, <1>8 DEF Answering
<1>10. Request(r)'
  BY <1>1, <1>2, <1>5, <1>9 DEF Request, Asked, Knows, Paying, Resting
<1> QED BY <1>1, <1>6, <1>7, <1>10, StepTyped DEF Typed, Shape

(* What the two statements of a payment have in common: one row is locked. *)
LEMMA StatementTyped ==
  ASSUME SalariesAssumption, Typed, NEW r \in Requests, pc[r] = "paying",
         NEW x \in Rows, NEW entity, NEW cols, x \notin DOMAIN pending[r],
         SetColumns(r, x, entity, cols),
         UNCHANGED <<rows, pc, dto, view, todo, diff, ledger, load>>,
         x \in {dto[r].account, dto[r].proposal},
         x = dto[r].account => /\ cols = {"current_balance"}
                               /\ entity.current_balance =
                                    rows[x].current_balance - view[r][dto[r].proposal].amount,
         x = dto[r].proposal => /\ cols = {"status", "paid"}
                                /\ entity.status = "PAID" /\ entity.paid = TRUE
  PROVE  Typed'
<1>1. pending' = [pending EXCEPT ![r] =
                    [y \in DOMAIN pending[r] \cup {x} |->
                       IF y = x THEN [entity |-> entity, cols |-> {} \cup cols] ELSE pending[r][y]]]
  BY DEF SetColumns
<1>2. Shape' /\ RowsTyped' /\ LedgerTyped'
  BY <1>1 DEF Typed, Shape, RowsTyped, LedgerTyped
<1>3. /\ \A s \in Requests \ {r} : pending'[s] = pending[s]
      /\ DOMAIN pending'[r] = DOMAIN pending[r] \cup {x}
      /\ pending'[r][x] = [entity |-> entity, cols |-> {} \cup cols]
      /\ \A y \in DOMAIN pending[r] : pending'[r][y] = pending[r][y]
  BY <1>1 DEF Typed, Shape
<1>4. Exclusive'
  <2>1. \A s \in Requests \ {r} : x \notin DOMAIN pending[s]
    BY DEF SetColumns, LockedByOther
  <2> QED BY <1>3, <2>1 DEF Typed, Exclusive
<1>5. Single'
  BY DEF Typed, Single, InFlight, OneByOne
<1>6. ASSUME NEW s \in Requests PROVE Request(s)'
  <2>1. CASE s = r
    <3>1. Paying(r) /\ Asked(r) /\ Knows(r) /\ Answering(r)
      BY DEF Typed, Request
    <3>2. {} \cup cols = cols
      OBVIOUS
    <3>3. pending'[r][x].entity = entity /\ pending'[r][x].cols = cols
      BY <1>3, <3>2
    <3>4. Paying(r)'
      BY <1>3, <3>1, <3>3 DEF Paying
    <3> QED BY <2>1, <3>1, <3>4 DEF Request, Asked, Knows, Answering, Resting
  <2>2. CASE s # r
    BY <1>3, <2>2, RequestKept
  <2> QED BY <2>1, <2>2
<1> QED BY <1>2, <1>4, <1>5, <1>6 DEF Typed

LEMMA BeginPaymentTyped ==
  ASSUME SalariesAssumption, Typed, NEW r \in Requests, BeginPayment(r)
  PROVE  Typed'
<1>1. pc[r] = "reading" /\ dto[r].kind = "pay" /\ UNCHANGED <<ledger, load>>
  BY DEF BeginPayment, Handles
<1>2. dto[r].proposal \in DOMAIN view[r]
  <2>1. Reads(dto[r]) = <<dto[r].proposal, dto[r].account>>
    BY <1>1 DEF Reads
  <2>2. 1 \in 1 .. Len(Reads(dto[r])) /\ Reads(dto[r])[1] = dto[r].proposal
    BY <2>1
  <2> QED BY <2>2 DEF BeginPayment, Handles
<1>3. CASE Rollback(r)
  BY <1>1, <1>3, RollbackTyped
<1>4. CASE ~Rollback(r)
  <2>1. pc' = [pc EXCEPT ![r] = "paying"] /\ UNCHANGED <<rows, dto, view, todo, diff, pending>>
    BY <1>4 DEF BeginPayment
  <2>2. Shape' /\ Exclusive'
    BY <2>1, <1>1 DEF Typed, Shape, Exclusive
  <2>3. pc'[r] = "paying" /\ DOMAIN pending[r] = {}
    BY <1>1, <2>1 DEF Typed, Shape, Request, Resting
  <2>4. Request(r)'
    BY <1>1, <1>2, <2>1, <2>3 DEF Typed, Request, Asked, Knows, Answering, Paying, Resting
  <2> QED BY <1>1, <2>1, <2>2, <2>4, StepTyped
<1> QED BY <1>3, <1>4

LEMMA DecrementTyped ==
  ASSUME SalariesAssumption, Typed, NEW r \in Requests, Decrement(r)
  PROVE  Typed'
<1> DEFINE a == dto[r].account
           amount == view[r][dto[r].proposal].amount
<1>1. /\ pc[r] = "paying" /\ a \notin DOMAIN pending[r]
      /\ SetColumns(r, a, [current_balance |-> Seen(r, a).current_balance - amount], {"current_balance"})
      /\ UNCHANGED <<rows, pc, dto, view, todo, diff, ledger, load>>
  BY DEF Decrement, Decremented
<1>2. a \in Accounts /\ a \in Rows /\ a # dto[r].proposal
  BY <1>1, Validated, DtoKinds DEF Typed, Request, Paying, Rows, SalariesAssumption
<1>3. Seen(r, a) = rows[a]
  BY <1>1 DEF Seen
<1> HIDE DEF a, amount
<1>4. [current_balance |-> Seen(r, a).current_balance - amount].current_balance
        = rows[a].current_balance - amount
  BY <1>3
<1> QED BY <1>1, <1>2, <1>4, StatementTyped DEF a, amount

LEMMA MarkPaidTyped ==
  ASSUME SalariesAssumption, Typed, NEW r \in Requests, MarkPaid(r)
  PROVE  Typed'
<1> DEFINE p == dto[r].proposal
           marked == [Seen(r, p) EXCEPT !.status = "PAID", !.paid = TRUE]
<1>1. /\ pc[r] = "paying" /\ p \notin DOMAIN pending[r]
      /\ SetColumns(r, p, marked, {"status", "paid"})
      /\ UNCHANGED <<rows, pc, dto, view, todo, diff, ledger, load>>
  BY DEF MarkPaid
<1>2. p \in Proposals /\ p \in Rows /\ p # dto[r].account
  BY <1>1, Validated, DtoKinds DEF Typed, Request, Paying, Rows, SalariesAssumption
<1>3. Seen(r, p) = rows[p] /\ rows[p] \in SalaryProposal
  BY <1>1, <1>2 DEF Seen, Typed, RowsTyped, IsRow
<1>4. marked.status = "PAID" /\ marked.paid = TRUE
  BY <1>3 DEF SalaryProposal
<1> HIDE DEF p, marked
<1> QED BY <1>1, <1>2, <1>4, StatementTyped DEF p

LEMMA EntryTyped ==
  ASSUME SalariesAssumption, Typed, NEW r \in Requests, pc[r] = "paying"
  PROVE  /\ Entry(r).by = r /\ Entry(r).account = dto[r].account
         /\ Entry(r).proposal = dto[r].proposal
         /\ Entry(r).amount = view[r][dto[r].proposal].amount
         /\ dto[r].account \in Accounts /\ dto[r].proposal \in Proposals
         /\ Entry(r).amount \in Nat /\ rows[dto[r].proposal].status # "ABSENT"
         /\ dto[r].proposal \in DOMAIN view[r] /\ dto[r].kind = "pay"
<1>1. dto[r].kind = "pay" /\ dto[r].proposal \in DOMAIN view[r]
  BY DEF Typed, Request, Paying
<1>2. dto[r].account \in Accounts /\ dto[r].proposal \in Proposals
  BY <1>1, Validated, DtoKinds
<1>3. view[r][dto[r].proposal] \in SalaryProposal
  BY <1>1, <1>2 DEF Typed, Request, Knows, IsRow
<1>4. rows[dto[r].proposal].status # "ABSENT"
  BY <1>1 DEF Typed, Request, Asked
<1> QED BY <1>1, <1>2, <1>3, <1>4 DEF Entry, SalaryProposal

(* What a COMMIT does, of an answer or of a payment. *)
Commits(r) ==
  /\ rows' = [x \in DOMAIN rows |-> Seen(r, x)]
  /\ pending' = [pending EXCEPT ![r] = Nothing]
  /\ pc' = [pc EXCEPT ![r] = "mailing"]
  /\ UNCHANGED <<dto, view, todo, diff, load>>

LEMMA CommitTyped ==
  ASSUME SalariesAssumption, Typed, NEW r \in Requests, pc[r] \in Writing \cup {"paying"},
         Commits(r),
         \/ UNCHANGED ledger
         \/ pc[r] = "paying" /\ ledger' = ledger \cup {Entry(r)}
  PROVE  Typed'
<1>1. DOMAIN Nothing = {}
  BY DEF Nothing
<1>2. Shape' /\ Single'
  BY SingleKept DEF Typed, Shape, Commits
<1>3. DOMAIN rows' = Rows /\ \A x \in Rows : rows'[x] = Seen(r, x)
  BY DEF Commits, Typed, RowsTyped
<1>4. RowsTyped'
  <2>1. \A x \in Rows : IsRow(x, rows'[x])
    BY <1>3, SeenTyped
  <2> QED BY <1>3, <2>1 DEF RowsTyped, IsRow
<1>5. \A q \in Proposals : rows[q].status # "ABSENT" => rows'[q].status # "ABSENT"
  <2>1. Proposals \subseteq Rows
    BY DEF Rows
  <2> QED BY <1>3, <2>1, SeenTyped
<1>6. Exclusive'
  <2>1. \A s \in Requests : DOMAIN pending'[s] \subseteq DOMAIN pending[s]
    BY <1>1 DEF Typed, Shape, Commits
  <2> QED BY <2>1 DEF Typed, Exclusive
<1>7. LedgerTyped'
  <2>1. IsFiniteSet(ledger')
    BY FS_AddElement DEF Typed, LedgerTyped
  <2>2. ASSUME NEW e \in ledger
        PROVE /\ e.by \in Requests /\ pc'[e.by] \in {"mailing"} \cup Ended
              /\ e.account \in Accounts /\ e.proposal \in Proposals /\ e.amount \in Nat
              /\ rows'[e.proposal].status # "ABSENT"
    BY <1>5, <2>2 DEF Typed, Shape, LedgerTyped, Commits
  <2>3. CASE pc[r] = "paying" /\ ledger' = ledger \cup {Entry(r)}
    <3>1. /\ Entry(r).by = r /\ pc'[r] = "mailing"
          /\ Entry(r).account \in Accounts /\ Entry(r).proposal \in Proposals
          /\ Entry(r).amount \in Nat /\ rows'[Entry(r).proposal].status # "ABSENT"
      BY <1>5, <2>3, EntryTyped DEF Commits, Typed, Shape
    <3> HIDE DEF Entry
    <3> QED BY <2>1, <2>2, <2>3, <3>1 DEF LedgerTyped
  <2>4. CASE UNCHANGED ledger
    BY <2>1, <2>2, <2>4 DEF LedgerTyped
  <2> QED BY <2>3, <2>4
<1>8. ASSUME NEW s \in Requests PROVE Request(s)'
  <2>1. CASE s = r
    <3>1. pc'[r] = "mailing" /\ DOMAIN pending'[r] = {} /\ dto'[r] = dto[r] /\ view'[r] = view[r]
      BY <1>1 DEF Commits, Typed, Shape
    <3>2. Asked(r)'
      <4>1. dto[r] \in Dto
        BY Validated
      <4>2. dto[r].kind # "propose" => dto[r].proposal \in Proposals
        BY <4>1, DtoKinds
      <4> QED BY <1>5, <3>1, <4>2 DEF Typed, Request, Asked, Commits
    <3>3. Knows(r)'
      BY <3>1 DEF Typed, Request, Knows
    <3> QED BY <2>1, <3>1, <3>2, <3>3 DEF Request, Answering, Paying, Resting
  <2>2. CASE s # r
    <3>1. pc'[s] = pc[s] /\ pending'[s] = pending[s]
      BY <2>2 DEF Commits, Typed, Shape
    <3>2. ASSUME NEW a \in DOMAIN pending[s], a \in Accounts PROVE rows'[a] = rows[a]
      <4>1. a \notin DOMAIN pending[r] /\ a \in Rows
        BY <2>2, <3>2 DEF Typed, Exclusive, Rows
      <4> QED BY <1>3, <4>1, SeenTyped
    <3> QED BY <1>5, <3>1, <3>2, RequestKept DEF Commits
  <2> QED BY <2>1, <2>2
<1> QED BY <1>2, <1>4, <1>6, <1>7, <1>8 DEF Typed

LEMMA TypedStep ==
  ASSUME SalariesAssumption, Typed, [Next]_vars
  PROVE  Typed'
<1>1. CASE UNCHANGED vars
  BY <1>1 DEF vars, sessionVars, Typed, Shape, RowsTyped, LedgerTyped, Exclusive, Single, InFlight,
    OneByOne, Request, Asked, Knows, Answering, Paying, Resting, TheAnswer
<1>2. ASSUME NEW r \in Requests, Arrive(r) \/ Handle(r) \/ Abort(r) PROVE Typed'
  <2>1. CASE Arrive(r)
    BY <2>1, ArriveTyped
  <2>2. CASE Fetch(r)
    BY <2>2, FetchTyped
  <2>3. CASE SendProposal(r)
    BY <2>3, SendProposalTyped
  <2>4. CASE Respond(r)
    BY <2>4, RespondTyped
  <2>5. CASE Write(r)
    BY <2>5, ReloadTyped, UpdateTyped DEF Write
  <2>6. CASE CommitAnswer(r)
    <3>1. pc[r] \in Writing /\ Commits(r) /\ UNCHANGED ledger
      BY <2>6 DEF CommitAnswer, AllSaved, Commits
    <3> QED BY <3>1, CommitTyped
  <2>7. CASE BeginPayment(r)
    BY <2>7, BeginPaymentTyped
  <2>8. CASE Decrement(r)
    BY <2>8, DecrementTyped
  <2>9. CASE MarkPaid(r)
    BY <2>9, MarkPaidTyped
  <2>10. CASE CommitPayment(r)
    <3>1. pc[r] = "paying" /\ Commits(r) /\ ledger' = ledger \cup {Entry(r)}
      BY <2>10 DEF CommitPayment, Commits
    <3> QED BY <3>1, CommitTyped
  <2>11. CASE Mail(r)
    <3>1. pc[r] = "mailing" /\ UNCHANGED <<rows, ledger, load>>
      BY <2>11 DEF Mail
    <3>2. PICK outcome \in Ended : End(r, outcome)
      BY <2>11 DEF Mail
    <3> QED BY <3>1, <3>2, EndTyped
  <2>12. CASE Abort(r)
    BY <2>12, RollbackTyped DEF Abort, InFlight
  <2> QED BY <1>2, <2>1, <2>2, <2>3, <2>4, <2>5, <2>6, <2>7, <2>8, <2>9, <2>10, <2>11, <2>12 DEF Handle
<1> QED BY <1>1, <1>2 DEF Next

-----------------------------------------------------------------------------
(* The sums of the ledger. *)
Drawn(a, entries) ==
  SumFunctionOnSet([e \in entries |-> e.amount], {e \in entries : e.account = a})

LEMMA DrawnMore ==
  ASSUME NEW L, IsFiniteSet(L), NEW new, new \notin L, \A e \in L \cup {new} : e.amount \in Nat,
         NEW a
  PROVE  /\ Drawn(a, L) \in Int
         /\ new.account = a => Drawn(a, L \cup {new}) = Drawn(a, L) + new.amount
         /\ new.account # a => Drawn(a, L \cup {new}) = Drawn(a, L)
<1> DEFINE f == [e \in L |-> e.amount]
           g == [e \in L \cup {new} |-> e.amount]
           S == {e \in L : e.account = a}
<1>1. IsFiniteSet(S) /\ \A e \in S : f[e] \in Int /\ f[e] = g[e]
  BY FS_Subset
<1>2. Drawn(a, L) = SumFunctionOnSet(f, S) /\ Drawn(a, L) \in Int
  BY <1>1, SumType DEF Drawn
<1>3. SumFunctionOnSet(g, S) = SumFunctionOnSet(f, S)
  <2> HIDE DEF f, g, S
  <2> QED BY <1>1, SumOfEqual
<1>4. CASE new.account = a
  <2>1. Drawn(a, L \cup {new}) = SumFunctionOnSet(g, S \cup {new})
    <3>1. {e \in L \cup {new} : e.account = a} = S \cup {new}
      BY <1>4
    <3> QED BY <3>1 DEF Drawn
  <2>2. new \notin S /\ g[new] = new.amount /\ \A e \in S \cup {new} : g[e] \in Int
    OBVIOUS
  <2>3. SumFunctionOnSet(g, S \cup {new}) = SumFunctionOnSet(g, S) + g[new]
    <3> HIDE DEF g, S
    <3> QED BY <1>1, <2>2, SumAdd
  <2> QED BY <1>2, <1>3, <1>4, <2>1, <2>2, <2>3
<1>5. CASE new.account # a
  <2>1. {e \in L \cup {new} : e.account = a} = S
    BY <1>5
  <2> QED BY <1>2, <1>3, <1>5, <2>1 DEF Drawn
<1> QED BY <1>2, <1>4, <1>5

(* Most actions change neither a row nor the ledger. *)
LEMMA QuietExplains ==
  ASSUME LedgerExplainsSalaries, PaidOnceAndCovered, UNCHANGED <<rows, ledger, load>>
  PROVE  (LedgerExplainsSalaries /\ PaidOnceAndCovered)'
BY DEF LedgerExplainsSalaries, PaidOnceAndCovered, AnsweredApart, OneByOne

LEMMA ProposeExplains ==
  ASSUME SalariesAssumption, Inv, NEW r \in Requests, SendProposal(r)
  PROVE  (LedgerExplainsSalaries /\ PaidOnceAndCovered)'
<1> PICK p \in Proposals : /\ rows[p].status = "ABSENT"
                           /\ rows' = [rows EXCEPT ![p] = [status |-> "PENDING",
                                         amount |-> dto[r].amount, paid |-> FALSE]]
  BY DEF SendProposal
<1>1. UNCHANGED <<ledger, load>>
  BY DEF SendProposal
<1>2. /\ \A a \in Accounts : rows'[a] = rows[a]
      /\ \A q \in Proposals : q # p => rows'[q] = rows[q]
      /\ rows'[p].paid = FALSE
  BY DEF Inv, Typed, RowsTyped, Rows, SalariesAssumption
<1>3. \A e \in ledger : e.proposal \in Proposals /\ e.proposal # p
  BY DEF Inv, Typed, LedgerTyped
<1> QED BY <1>1, <1>2, <1>3
        DEF Inv, LedgerExplainsSalaries, PaidOnceAndCovered, AnsweredApart, OneByOne

LEMMA AnswerExplains ==
  ASSUME SalariesAssumption, Inv, NEW r \in Requests, CommitAnswer(r)
  PROVE  (LedgerExplainsSalaries /\ PaidOnceAndCovered /\ (OneByOne => Marked))'
<1> DEFINE p == dto[r].proposal
<1>1. /\ pc[r] = "saving" /\ dto[r].kind = "respond" /\ UNCHANGED <<ledger, load>>
      /\ rows' = [x \in DOMAIN rows |-> Seen(r, x)]
  BY DEF CommitAnswer, AllSaved
<1>2. Answering(r) /\ dto[r] \in load.inputs /\ p \in Proposals /\ p \in DOMAIN view[r]
  BY <1>1, Validated, DtoKinds DEF Inv, Typed, Request, Asked, Answering
<1>3. \A x \in Rows : rows'[x] = Seen(r, x) /\ (x # p => rows'[x] = rows[x])
  <2>1. \A x \in Rows : x # p => x \notin DOMAIN pending[r]
    BY <1>1, <1>2 DEF Answering
  <2> QED BY <1>1, <2>1 DEF Seen, Inv, Typed, RowsTyped
<1>4. \A a \in Accounts : rows'[a] = rows[a]
  BY <1>2, <1>3 DEF Rows, SalariesAssumption
<1>5. rows'[p].paid => rows[p].paid \/ view[r][p].paid
  <2>1. p \in Rows /\ rows[p] \in SalaryProposal /\ view[r][p] \in SalaryProposal
    BY <1>2 DEF Rows, Inv, Typed, RowsTyped, IsRow, Request, Knows
  <2>2. CASE p \in DOMAIN pending[r]
    <3>1. rows'[p] = [c \in DOMAIN rows[p] |->
                        IF c \in pending[r][p].cols THEN TheAnswer(r)[c] ELSE rows[p][c]]
      BY <1>1, <1>2, <1>3, <2>1, <2>2 DEF Seen, Merge, Answering
    <3>2. TheAnswer(r).paid = view[r][p].paid
      BY <2>1 DEF TheAnswer, SalaryProposal
    <3> QED BY <2>1, <3>1, <3>2 DEF SalaryProposal
  <2>3. CASE p \notin DOMAIN pending[r]
    BY <1>3, <2>1, <2>3 DEF Seen
  <2> QED BY <2>2, <2>3
<1>6. \A q \in Proposals : rows'[q].paid => \E e \in ledger : e.proposal = q
  <2>1. \A q \in Proposals : q # p => rows'[q] = rows[q]
    BY <1>3 DEF Rows
  <2> QED BY <1>2, <1>5, <2>1 DEF Inv, LedgerExplainsSalaries, Backed
(* Served one by one, the answered proposal is pending, and so unpaid. *)
<1>7. OneByOne => \A e \in ledger : e.proposal # p
  BY <1>1, <1>2 DEF Inv, Alone, Marked, Fresh
<1>8. OneByOne => \A e \in ledger : rows'[e.proposal] = rows[e.proposal]
  BY <1>3, <1>7 DEF Inv, Typed, LedgerTyped, Rows
<1>9. AnsweredApart => OneByOne
  BY <1>1, <1>2 DEF AnsweredApart
<1>10. OneByOne' = OneByOne /\ AnsweredApart' = AnsweredApart
  BY <1>1 DEF OneByOne, AnsweredApart
<1>11. LedgerExplainsSalaries'
  BY <1>1, <1>4, <1>6, <1>8, <1>9, <1>10 DEF Inv, LedgerExplainsSalaries
<1>12. PaidOnceAndCovered'
  BY <1>1, <1>4, <1>10 DEF Inv, PaidOnceAndCovered
<1>13. OneByOne' => Marked'
  BY <1>1, <1>8, <1>10 DEF Inv, Alone, Marked
<1> QED BY <1>11, <1>12, <1>13

LEMMA PaymentExplains ==
  ASSUME SalariesAssumption, Inv, NEW r \in Requests, CommitPayment(r)
  PROVE  (LedgerExplainsSalaries /\ PaidOnceAndCovered /\ (OneByOne => Marked))'
<1> DEFINE p == dto[r].proposal
           a == dto[r].account
           amount == view[r][p].amount
<1>1. /\ pc[r] = "paying" /\ a \in DOMAIN pending[r] /\ p \in DOMAIN pending[r]
      /\ ledger' = ledger \cup {Entry(r)} /\ UNCHANGED load
      /\ rows' = [x \in DOMAIN rows |-> Seen(r, x)]
  BY DEF CommitPayment, Settled
<1>2. /\ Entry(r).by = r /\ Entry(r).account = a /\ Entry(r).proposal = p
      /\ Entry(r).amount = amount /\ amount \in Nat /\ a \in Accounts /\ p \in Proposals
      /\ a \in Rows /\ p \in Rows /\ a # p /\ p \in DOMAIN view[r]
  BY <1>1, EntryTyped DEF Inv, Rows, SalariesAssumption
<1>3. /\ DOMAIN pending[r] \subseteq {a, p}
      /\ pending[r][a].cols = {"current_balance"}
      /\ pending[r][a].entity.current_balance = rows[a].current_balance - amount
      /\ pending[r][p].cols = {"status", "paid"}
      /\ pending[r][p].entity.status = "PAID" /\ pending[r][p].entity.paid = TRUE
  BY <1>1 DEF Inv, Typed, Request, Paying
<1>4. \A x \in Rows : x \notin {a, p} => rows'[x] = rows[x]
  BY <1>1, <1>3 DEF Seen, Inv, Typed, RowsTyped
<1>5. rows[a] \in Account /\ rows'[a].current_balance = rows[a].current_balance - amount
  <2>1. rows[a] \in Account
    BY <1>2 DEF Inv, Typed, RowsTyped, IsRow
  <2>2. rows'[a] = [c \in DOMAIN rows[a] |->
                      IF c \in pending[r][a].cols THEN pending[r][a].entity[c] ELSE rows[a][c]]
    BY <1>1, <1>2 DEF Seen, Merge, Inv, Typed, RowsTyped
  <2> QED BY <1>3, <2>1, <2>2 DEF Account
<1>6. rows'[p].paid = TRUE /\ rows'[p].status = "PAID"
  <2>1. rows[p] \in SalaryProposal
    BY <1>2 DEF Inv, Typed, RowsTyped, IsRow
  <2>2. rows'[p] = [c \in DOMAIN rows[p] |->
                      IF c \in pending[r][p].cols THEN pending[r][p].entity[c] ELSE rows[p][c]]
    BY <1>1, <1>2 DEF Seen, Merge, Inv, Typed, RowsTyped
  <2> QED BY <1>3, <2>1, <2>2 DEF SalaryProposal
<1>7. /\ \A b \in Accounts : b # a => rows'[b] = rows[b]
      /\ \A q \in Proposals : q # p => rows'[q] = rows[q]
  BY <1>2, <1>4 DEF Rows, SalariesAssumption
<1>8. /\ Entry(r) \notin ledger /\ IsFiniteSet(ledger)
      /\ \A e \in ledger \cup {Entry(r)} : e.amount \in Nat
  BY <1>1, <1>2 DEF Inv, Typed, LedgerTyped
<1> HIDE DEF p, a, amount
<1>9. OneByOne' = OneByOne /\ AnsweredApart' = AnsweredApart
  BY <1>1 DEF OneByOne, AnsweredApart
<1>10. ASSUME NEW b \in Accounts
       PROVE rows'[b].current_balance = Opening[b] - Drawn(b, ledger')
  <2>1. rows[b].current_balance = Opening[b] - Drawn(b, ledger) /\ Opening[b] \in Int
    BY DEF Inv, LedgerExplainsSalaries, Drawn, SalariesAssumption
  <2>2. /\ Drawn(b, ledger) \in Int
        /\ b = a => Drawn(b, ledger') = Drawn(b, ledger) + amount
        /\ b # a => Drawn(b, ledger') = Drawn(b, ledger)
    <3> HIDE DEF Entry
    <3> QED BY <1>1, <1>2, <1>8, DrawnMore
  <2>3. CASE b = a
    BY <1>2, <1>5, <2>1, <2>2, <2>3
  <2>4. CASE b # a
    BY <1>7, <2>1, <2>2, <2>4
  <2> QED BY <2>3, <2>4
<1>11. \A q \in Proposals : rows'[q].paid => \E e \in ledger' : e.proposal = q
  BY <1>1, <1>2, <1>7 DEF Inv, LedgerExplainsSalaries
<1>12. AnsweredApart => \A e \in ledger' : rows'[e.proposal].paid
  <2>1. \A e \in ledger : e.proposal \in Proposals
    BY DEF Inv, Typed, LedgerTyped
  <2> QED BY <1>1, <1>2, <1>6, <1>7, <2>1 DEF Inv, LedgerExplainsSalaries
<1>13. LedgerExplainsSalaries'
  BY <1>9, <1>10, <1>11, <1>12 DEF LedgerExplainsSalaries, Drawn
(* One by one, the proposal is accepted and covered as the rows are now. *)
<1>14. OneByOne => /\ rows[p].status = "ACCEPTED" /\ amount <= rows[a].current_balance
  <2>1. SUFFICES ASSUME OneByOne
        PROVE rows[p].status = "ACCEPTED" /\ amount <= rows[a].current_balance
    OBVIOUS
  <2>2. /\ a \in DOMAIN view[r] /\ Payable(view[r][p], view[r][a])
        /\ view[r][p] = rows[p] /\ view[r][a] = rows[a]
    BY <1>1, <1>2, <2>1 DEF Inv, Alone, Fresh, p, a
  <2>3. rows[a].current_balance \in Int
    BY <1>5 DEF Account
  <2> QED BY <1>2, <2>2, <2>3 DEF Payable, amount
<1>15. OneByOne => \A e \in ledger : e.proposal # p
  BY <1>14 DEF Inv, Alone, Marked
<1>16. PaidOnceAndCovered'
  <2>1. SUFFICES ASSUME OneByOne
        PROVE /\ \A d, e \in ledger' : d.proposal = e.proposal => d = e
              /\ \A b \in Accounts : rows'[b].current_balance >= 0
    BY <1>9 DEF PaidOnceAndCovered
  <2>2. \A d, e \in ledger' : d.proposal = e.proposal => d = e
    BY <1>1, <1>2, <1>15, <2>1 DEF Inv, PaidOnceAndCovered
  <2>3. ASSUME NEW b \in Accounts PROVE rows'[b].current_balance >= 0
    <3>1. CASE b = a
      BY <1>2, <1>5, <1>14, <2>1, <3>1 DEF Account
    <3>2. CASE b # a
      BY <1>7, <2>1, <3>2 DEF Inv, PaidOnceAndCovered
    <3> QED BY <3>1, <3>2
  <2> QED BY <2>2, <2>3
<1>17. OneByOne' => Marked'
  <2>1. \A e \in ledger : e.proposal \in Proposals
    BY DEF Inv, Typed, LedgerTyped
  <2> QED BY <1>1, <1>2, <1>6, <1>7, <1>9, <2>1 DEF Inv, Alone, Marked
<1> QED BY <1>13, <1>16, <1>17

-----------------------------------------------------------------------------
(* What was read as paid stays in the ledger. *)
LEMMA BackedStep ==
  ASSUME SalariesAssumption, Inv, NEW r \in Requests, Arrive(r) \/ Handle(r) \/ Abort(r)
  PROVE  Backed'
<1>1. ledger \subseteq ledger'
  BY DEF Arrive, Handle, Abort, Fetch, SendProposal, Respond, Write, CommitAnswer, BeginPayment,
    Decrement, MarkPaid, CommitPayment, Mail
<1>2. \A p \in Proposals : rows[p].paid => \E e \in ledger' : e.proposal = p
  BY <1>1 DEF Inv, LedgerExplainsSalaries
<1>3. \/ UNCHANGED view
      \/ view' = [view EXCEPT ![r] = Nothing]
      \/ \E X : view' = [view EXCEPT ![r] = With(@, X)]
  BY DEF Arrive, Open, Handle, Abort, Fetch, Read, SendProposal, Respond, Proceed, Write, Reload,
    Update, CommitAnswer, BeginPayment, Decrement, MarkPaid, CommitPayment, Mail, Rollback, End
<1>4. DOMAIN view = Requests /\ DOMAIN Nothing = {}
  BY DEF Inv, Typed, Shape, Nothing
<1>5. \A s \in Requests : \A x \in DOMAIN view'[s] :
        view'[s][x] = rows[x] \/ (x \in DOMAIN view[s] /\ view'[s][x] = view[s][x])
  <2>1. CASE UNCHANGED view
    BY <2>1
  <2>2. CASE view' = [view EXCEPT ![r] = Nothing]
    BY <1>4, <2>2
  <2>3. ASSUME NEW X, view' = [view EXCEPT ![r] = With(@, X)]
        PROVE \A s \in Requests : \A x \in DOMAIN view'[s] :
                view'[s][x] = rows[x] \/ (x \in DOMAIN view[s] /\ view'[s][x] = view[s][x])
    BY <1>4, <2>3 DEF With
  <2> QED BY <1>3, <2>1, <2>2, <2>3
<1> QED BY <1>1, <1>2, <1>5 DEF Inv, Backed

(* One by one: who acts is alone, and what it has read stays so. *)
LEMMA OthersFresh ==
  ASSUME Inv, OneByOne, NEW r \in Requests, NEW s \in Requests \ {r},
         pc'[s] = pc[s], dto'[s] = dto[s], view'[s] = view[s],
         UNCHANGED rows \/ pc[r] \notin {"idle"} \cup Ended
  PROVE  Fresh(s)'
<1>1. CASE UNCHANGED rows
  BY <1>1 DEF Inv, Alone, Fresh
<1>2. CASE pc[r] \notin {"idle"} \cup Ended
  <2>1. pc[s] \in {"idle"} \cup Ended
    BY <1>2 DEF Inv, Typed, Single, InFlight
  <2> QED BY <2>1 DEF Inv, Alone, Fresh
<1> QED BY <1>1, <1>2

LEMMA FreshStep ==
  ASSUME SalariesAssumption, Inv, OneByOne, NEW r \in Requests, Arrive(r) \/ Handle(r) \/ Abort(r)
  PROVE  \A s \in Requests : Fresh(s)'
<1>1. ASSUME NEW s \in Requests \ {r}
      PROVE /\ pc'[s] = pc[s] /\ dto'[s] = dto[s] /\ view'[s] = view[s]
            /\ UNCHANGED rows \/ pc[r] \notin {"idle"} \cup Ended
  BY DEF Inv, Typed, Shape, Arrive, Open, Handle, Handles, AllSaved, Abort, Fetch, Read,
    SendProposal, Respond, Proceed, Write, Reload, Update, CommitAnswer, BeginPayment,
    Decrement, MarkPaid, CommitPayment, Mail, Rollback, End
<1>2. Fresh(r)'
  <2> USE DEF Inv, Typed, Shape
  <2>1. CASE Arrive(r)
    BY <2>1 DEF Arrive, Open, Alone, Fresh
  <2>2. CASE Fetch(r)
    <3>1. PICK X : view' = [view EXCEPT ![r] = With(@, X)] /\ UNCHANGED <<rows, pc>>
      BY <2>2 DEF Fetch, Read
    <3>2. view'[r] = [x \in DOMAIN view[r] \cup X |-> IF x \in X THEN rows[x] ELSE view[r][x]]
      BY <3>1 DEF With
    <3> QED BY <2>2, <3>1, <3>2 DEF Fetch, Alone, Fresh
  <2>3. CASE pc'[r] \in {"mailing"} \cup Ended
    BY <2>3 DEF Fresh
  <2>4. CASE SendProposal(r) \/ CommitAnswer(r) \/ CommitPayment(r)
    BY <2>3, <2>4 DEF SendProposal, CommitAnswer, CommitPayment
  <2>5. CASE Mail(r) \/ Abort(r)
    BY <2>3, <2>5 DEF Mail, Abort, Rollback, End
  <2>6. CASE Respond(r)
    <3>1. CASE Rollback(r)
      BY <2>3, <3>1 DEF Rollback, End
    <3>2. CASE ~Rollback(r)
      <4>1. /\ pc[r] = "reading" /\ pc'[r] = "saving" /\ UNCHANGED <<rows, dto, view>>
            /\ view[r][dto[r].proposal].status = "PENDING"
        BY <2>6, <3>2 DEF Respond, Handles, Proceed, Unanswered
      <4> QED BY <4>1 DEF Alone, Fresh
    <3> QED BY <3>1, <3>2
  <2>7. CASE Write(r)
    BY <2>7 DEF Write, Reload, Update, Alone, Fresh
  <2>8. CASE BeginPayment(r)
    <3>1. CASE Rollback(r)
      BY <2>3, <3>1 DEF Rollback, End
    <3>2. CASE ~Rollback(r)
      <4>1. /\ pc[r] = "reading" /\ pc'[r] = "paying" /\ UNCHANGED <<rows, dto, view>>
            /\ Payable(view[r][dto[r].proposal], view[r][dto[r].account])
            /\ dto[r].kind = "pay"
        BY <2>8, <3>2 DEF BeginPayment, Handles
      <4>2. Reads(dto[r]) = <<dto[r].proposal, dto[r].account>>
        BY <4>1 DEF Reads
      <4>3. 2 \in 1 .. Len(Reads(dto[r])) /\ Reads(dto[r])[2] = dto[r].account
        BY <4>2
      <4>4. dto[r].account \in DOMAIN view[r]
        BY <2>8, <4>3 DEF BeginPayment, Handles
      <4> QED BY <4>1, <4>4 DEF Alone, Fresh
    <3> QED BY <3>1, <3>2
  <2>9. CASE Decrement(r) \/ MarkPaid(r)
    BY <2>9 DEF Decrement, MarkPaid, Alone, Fresh
  <2> QED BY <2>1, <2>2, <2>4, <2>5, <2>6, <2>7, <2>8, <2>9 DEF Handle
<1> QED BY <1>1, <1>2, OthersFresh

LEMMA InvStep ==
  ASSUME SalariesAssumption, Inv, [Next]_vars
  PROVE  Inv'
<1>1. Typed'
  BY TypedStep DEF Inv
<1>2. CASE UNCHANGED vars
  <2>1. Backed' /\ Alone' /\ (LedgerExplainsSalaries /\ PaidOnceAndCovered)'
    BY <1>2, QuietExplains
       DEF vars, sessionVars, Inv, Backed, Alone, Marked, Fresh, OneByOne
  <2> QED BY <1>1, <2>1 DEF Inv
<1>3. ASSUME NEW r \in Requests, Arrive(r) \/ Handle(r) \/ Abort(r) PROVE Inv'
  <2>1. Backed'
    BY <1>3, BackedStep
  <2>2. UNCHANGED load
    BY <1>3 DEF Arrive, Handle, Abort, Fetch, SendProposal, Respond, Write, CommitAnswer,
      BeginPayment, Decrement, MarkPaid, CommitPayment, Mail
  <2>3. (LedgerExplainsSalaries /\ PaidOnceAndCovered /\ (OneByOne => Marked))'
    <3>1. CASE SendProposal(r)
      <4>1. (OneByOne => Marked)'
        <5>1. PICK p \in Proposals : /\ rows[p].status = "ABSENT"
                                     /\ \E row : rows' = [rows EXCEPT ![p] = row]
          BY <3>1 DEF SendProposal
        <5>2. \A e \in ledger : rows'[e.proposal] = rows[e.proposal]
          BY <5>1 DEF Inv, Typed, LedgerTyped
        <5> QED BY <3>1, <5>2 DEF SendProposal, Inv, Alone, Marked, OneByOne
      <4> QED BY <3>1, <4>1, ProposeExplains
    <3>2. CASE CommitAnswer(r)
      BY <3>2, AnswerExplains
    <3>3. CASE CommitPayment(r)
      BY <3>3, PaymentExplains
    <3>4. CASE ~(SendProposal(r) \/ CommitAnswer(r) \/ CommitPayment(r))
      <4>1. UNCHANGED <<rows, ledger, load>>
        BY <1>3, <3>4 DEF Arrive, Open, Handle, Abort, Fetch, Read, Respond, Proceed, Write, Reload,
          Update, BeginPayment, Decrement, MarkPaid, Mail, Rollback
      <4> QED BY <4>1, QuietExplains DEF Inv, Alone, Marked, OneByOne
    <3> QED BY <3>1, <3>2, <3>3, <3>4
  <2>4. Alone'
    BY <1>3, <2>2, <2>3, FreshStep DEF Alone, OneByOne
  <2> QED BY <1>1, <2>1, <2>3, <2>4 DEF Inv
<1> QED BY <1>2, <1>3 DEF Next

LEMMA InvInit ==
  ASSUME SalariesAssumption, Init
  PROVE  Inv
<1> PICK start \in {"PENDING", "ACCEPTED"}, standing \in SUBSET Proposals :
      rows = [x \in Accounts \cup Proposals |->
         IF x \in Accounts THEN [current_balance |-> Opening[x]]
         ELSE [status |-> IF x \in standing THEN start ELSE "ABSENT",
               amount |-> IF x \in standing THEN 3 ELSE 0, paid |-> FALSE]]
  BY DEF Init
<1>1. /\ pc = [r \in Requests |-> "idle"] /\ dto = [r \in Requests |-> Nothing]
      /\ view = [r \in Requests |-> Nothing] /\ todo = [r \in Requests |-> << >>]
      /\ diff = [r \in Requests |-> Nothing] /\ pending = [r \in Requests |-> Nothing]
      /\ ledger = {} /\ load \in Loads /\ DOMAIN Nothing = {}
  BY DEF Init, SessionsInit, Nothing
<1>2. /\ \A a \in Accounts : rows[a] = [current_balance |-> Opening[a]] /\ Opening[a] \in Nat
      /\ \A p \in Proposals : /\ rows[p].paid = FALSE
                              /\ rows[p] \in SalaryProposal
  BY DEF SalariesAssumption, SalaryProposal, SalaryProposalStatus
<1>3. RowsTyped
  BY <1>2 DEF RowsTyped, Rows, IsRow, Account, SalariesAssumption
<1>4. InFlight = {}
  BY <1>1 DEF InFlight
<1>5. Typed
  BY <1>1, <1>3, <1>4, FS_EmptySet DEF Typed, Shape, LedgerTyped, Exclusive, Single, Request,
    Asked, Knows, Answering, Paying, Resting
<1>6. Backed /\ Alone
  BY <1>1 DEF Backed, Alone, Marked, Fresh
<1>7. LedgerExplainsSalaries
  <2>1. ASSUME NEW a \in Accounts
        PROVE rows[a].current_balance = Opening[a] -
                SumFunctionOnSet([e \in ledger |-> e.amount], {e \in ledger : e.account = a})
    <3>1. {e \in ledger : e.account = a} = {}
      BY <1>1
    <3>2. SumFunctionOnSet([e \in ledger |-> e.amount], {e \in ledger : e.account = a}) = 0
      BY <3>1, SumEmpty
    <3> QED BY <1>2, <3>2
  <2> QED BY <1>1, <1>2, <2>1 DEF LedgerExplainsSalaries
<1>8. PaidOnceAndCovered
  BY <1>1, <1>2 DEF PaidOnceAndCovered
<1> QED BY <1>5, <1>6, <1>7, <1>8 DEF Inv

(* Every behaviour of Salaries, whatever traffic it serves, keeps the      *)
(* invariant: rows have the columns of their tables, no row is written by  *)
(* two transactions, and a decrement stays what its row makes it.          *)
THEOREM SalariesInvariant == SalariesAssumption => (Spec => []Inv)
<1> SUFFICES ASSUME SalariesAssumption PROVE Spec => []Inv
  OBVIOUS
<1>1. Init => Inv
  BY InvInit
<1>2. Inv /\ [Next]_vars => Inv'
  BY InvStep
<1> QED BY <1>1, <1>2, PTL DEF Spec

(* paySalary moves a balance by what its ledger row says, however payments *)
(* overlap; a proposal is marked paid only with a salary in the ledger,    *)
(* and keeps the mark unless an answer is saved beside the payment.        *)
THEOREM SalariesExplained == SalariesAssumption => (Spec => []LedgerExplainsSalaries)
<1> SUFFICES ASSUME SalariesAssumption PROVE Spec => []LedgerExplainsSalaries
  OBVIOUS
<1>1. Inv => LedgerExplainsSalaries
  BY DEF Inv
<1> QED BY <1>1, SalariesInvariant, PTL

(* Served one by one, no proposal is paid twice and no salary overdraws an *)
(* account, whatever requests, answers and lost connections come between.  *)
THEOREM SalariesPaidOnce == SalariesAssumption => (Spec => []PaidOnceAndCovered)
<1> SUFFICES ASSUME SalariesAssumption PROVE Spec => []PaidOnceAndCovered
  OBVIOUS
<1>1. Inv => PaidOnceAndCovered
  BY DEF Inv
<1> QED BY <1>1, SalariesInvariant, PTL
=============================================================================
