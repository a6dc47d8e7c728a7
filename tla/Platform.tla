------------------------------ MODULE Platform ------------------------------
(***************************************************************************)
(* The platform that the tenants rent: registration and its approval, the  *)
(* subscription and what pays for it (a card through Stripe, whose webhook *)
(* may come late or twice; a transfer that an administrator verifies), the *)
(* ways to lock a tenant out and let it in again, the export that a        *)
(* deletion requires, the morning jobs and the support tickets.  Nothing   *)
(* here is one transaction but the first half of a registration: each      *)
(* handler is a sequence of commits, listed in its job as what is to do.   *)
(***************************************************************************)
EXTENDS Jobs

CONSTANTS
  Tenants,       \* bound: identities of tenants, each with one business
  Persons,       \* bound: identities of users, each a member of one business
  Plans, FreePlan,   \* the plans, and the free one among them
  Payments, Intents, Exports, Tickets,   \* bounds: identities of rows
  Trial, Period, \* the ticks of a free trial and of a paid period
  LastTick,      \* bound: the ticks the behaviour lasts
  MaxExports     \* bound: exports of one tenant, and one deletion more

ASSUME PlatformAssumption ==
  FreePlan \in Plans /\ Trial \in Nat \ {0} /\ Period \in Nat \ {0} /\ LastTick \in Nat /\ MaxExports \in Nat
  /\ IsFiniteSet(Exports)

VARIABLES
  tenant,         \* the rows of tenants, each with the state of its business
  approval, subscription,     \* one row at most of a tenant
  plans,          \* which plans are active
  people,         \* the users with their membership
  payments,       \* the rows of subscription_payments
  intents,        \* the payment intents Stripe keeps
  exports,        \* the export tokens
  tickets,
  now,            \* the tick: two a day, the even one from 9 h to 6 h, the odd one from 6 h to 9 h
  duty,           \* the job of this tick that has yet to run
  given,          \* tenants whose subscription an administrator set by hand
  lockedBy,       \* per tenant, the ways it was locked out and not yet let in again
  exported, deletions    \* per tenant, how many exports were made and deletions begun

rowVars == <<tenant, approval, subscription, plans, people, payments, intents, exports, tickets>>
clockVars == <<now, duty>>
ghostVars == <<given, lockedBy, exported, deletions>>
platformVars == <<rowVars, clockVars, ghostVars>>

SubscriptionStatus ==
  {"PENDING_PAYMENT", "PAYMENT_SUBMITTED", "TRIAL", "ACTIVE", "OVERDUE", "SUSPENDED", "CANCELLED", "EXPIRED"}
Subscription == [status : SubscriptionStatus, plan : Plans, ends : Nat]
Payment == [tenant : Tenants, intent : Intents \cup {"none"},
            status : {"PENDING_VERIFICATION", "VERIFIED", "REJECTED"}]
Intent == [tenant : Tenants, status : {"created", "succeeded"}]
Tenant == [status : {"active", "suspended"}, business : {"open", "suspended", "gone"}]
Person == [tenant : Tenants, owner : BOOLEAN, member : {"active", "inactive", "none"}, suspended : BOOLEAN]
Approval == [status : {"PENDING", "APPROVED", "REJECTED"}]
Ticket == [tenant : Tenants, status : {"OPEN", "IN_PROGRESS", "RESOLVED", "CLOSED"}]
ExportToken == [tenant : Tenants, expired : BOOLEAN]

Members(t) == {p \in Rows(people) : people[p].tenant = t /\ people[p].member # "none"}
PaymentsOf(t) == {p \in Rows(payments) : payments[p].tenant = t}
OwnerOf(t) == {p \in Rows(people) : people[p].tenant = t /\ people[p].owner}

-----------------------------------------------------------------------------
(* What a handler has left to do, one commit after the other. *)
Todo(w, step) == ~Free(w) /\ job[w].todo # << >> /\ Head(job[w].todo) = step
GoOn(w) == Continue(w, [job[w] EXCEPT !.todo = Tail(@)])

(* The whole entity as the handler read it, with what it changes.          *)
WithImage(op, t, todo, image) == [op |-> op, tenant |-> t, todo |-> todo, image |-> image]

Done(w) ==
  /\ ~Free(w) /\ job[w].todo = << >>
  /\ Finish(w)
  /\ UNCHANGED platformVars

SaveSubscription(w) ==
  /\ Todo(w, "subscription")
  /\ subscription' = [subscription EXCEPT ![job[w].tenant] = job[w].image]
  /\ GoOn(w)
  /\ UNCHANGED <<tenant, approval, plans, people, payments, intents, exports, tickets, clockVars, ghostVars>>

-----------------------------------------------------------------------------
(* AuthService.register: the user, the tenant, the business and the        *)
(* membership in one transaction, then the approval, then the subscription *)
(* when the plan is active.                                                *)
RegisterTenant(w) ==
  /\ CanInsert(tenant) /\ CanInsert(people)
  /\ LET t == Fresh(tenant) IN
     /\ tenant' = [tenant EXCEPT ![t] = [status |-> "active", business |-> "open"]]
     /\ people' = [people EXCEPT ![Fresh(people)] =
                     [tenant |-> t, owner |-> TRUE, member |-> "active", suspended |-> FALSE]]
     /\ \E plan \in Plans :
          Begin(w, [op |-> "register", tenant |-> t, todo |-> <<"approval", "firstSubscription">>, plan |-> plan])
  /\ UNCHANGED <<approval, subscription, plans, payments, intents, exports, tickets, clockVars, ghostVars>>

AskApproval(w) ==
  /\ Todo(w, "approval")
  /\ approval' = [approval EXCEPT ![job[w].tenant] = [status |-> "PENDING"]]
  /\ GoOn(w)
  /\ UNCHANGED <<tenant, subscription, plans, people, payments, intents, exports, tickets, clockVars, ghostVars>>

Length(plan) == IF plan = FreePlan THEN Trial ELSE Period

FirstSubscription(w) ==
  /\ Todo(w, "firstSubscription")
  /\ subscription' =
       IF plans[job[w].plan]
       THEN [subscription EXCEPT ![job[w].tenant] =
               [status |-> "PENDING_PAYMENT", plan |-> job[w].plan, ends |-> now + Length(job[w].plan)]]
       ELSE subscription
  /\ GoOn(w)
  /\ UNCHANGED <<tenant, approval, plans, people, payments, intents, exports, tickets, clockVars, ghostVars>>

(* A member of the business, by an invitation that was accepted. *)
Join(w) ==
  /\ CanInsert(people)
  /\ \E t \in Rows(tenant) :
       /\ tenant[t].business = "open"
       /\ people' = [people EXCEPT ![Fresh(people)] =
                       [tenant |-> t, owner |-> FALSE, member |-> "active", suspended |-> FALSE]]
  /\ AtOnce(w, "join")
  /\ UNCHANGED <<tenant, approval, subscription, plans, payments, intents, exports, tickets, clockVars, ghostVars>>

(* approveTenant refuses what is approved already; rejectTenant nothing. *)
Review(w) ==
  /\ \E t \in Rows(tenant), verdict \in {"APPROVED", "REJECTED"} :
       /\ Exists(approval, t)
       /\ verdict = "APPROVED" => approval[t].status # "APPROVED"
       /\ approval' = [approval EXCEPT ![t].status = verdict]
  /\ AtOnce(w, "review")
  /\ UNCHANGED <<tenant, subscription, plans, people, payments, intents, exports, tickets, clockVars, ghostVars>>

(* checkTenantLoginPermission, asked when an owner logs in. *)
CanLogin(t) ==
  /\ Exists(approval, t) /\ approval[t].status = "APPROVED"
  /\ Exists(subscription, t)
  /\ subscription[t].status \notin {"SUSPENDED", "CANCELLED", "PENDING_PAYMENT", "PAYMENT_SUBMITTED"}

(* What a request brings with it: the user is looked up again each time.   *)
Admitted(p) ==
  /\ ~people[p].suspended
  /\ people[p].member # "inactive"
  /\ people[p].owner /\ Exists(subscription, people[p].tenant) =>
       subscription[people[p].tenant].status # "EXPIRED"

-----------------------------------------------------------------------------
(* Paying.  The link of a subscription stays good for ever. *)
Activated(row) == [row EXCEPT !.status = "ACTIVE", !.ends = now + Period]
CardPaid(op, t, i) ==
  [op |-> op, tenant |-> t, todo |-> <<"subscription", "cardPayment">>,
   image |-> Activated(subscription[t]), intent |-> i]

CreateIntent(w) ==
  /\ CanInsert(intents)
  /\ \E t \in Rows(subscription) :
       /\ subscription[t].status = "PENDING_PAYMENT"
       /\ intents' = [intents EXCEPT ![Fresh(intents)] = [tenant |-> t, status |-> "created"]]
  /\ AtOnce(w, "intent")
  /\ UNCHANGED <<tenant, approval, subscription, plans, people, payments, exports, tickets, clockVars, ghostVars>>

(* The customer pays at Stripe. *)
Charge(i) ==
  /\ Exists(intents, i) /\ intents[i].status = "created"
  /\ intents' = [intents EXCEPT ![i].status = "succeeded"]
  /\ UNCHANGED <<jobVars, tenant, approval, subscription, plans, people, payments, exports, tickets, clockVars, ghostVars>>

(* confirmPayment: whatever the status but ACTIVE; the intent must have    *)
(* succeeded and carry the link of this subscription.  A free plan never   *)
(* passes: its price comes from the database as the text "0.00", and the   *)
(* handler asks that it be the number 0.                                   *)
Created(i, t) == Exists(intents, i) /\ intents[i].tenant = t
Succeeded(i, t) == Created(i, t) /\ intents[i].status = "succeeded"

ConfirmPayment(w) ==
  /\ \E t \in Rows(subscription), i \in Rows(intents) :
       /\ subscription[t].status # "ACTIVE" /\ subscription[t].plan # FreePlan
       /\ Succeeded(i, t)
       /\ Begin(w, CardPaid("confirm", t, i))
  /\ UNCHANGED platformVars

(* The webhook, as often as Stripe sends it. *)
Webhook(w) ==
  /\ \E t \in Rows(subscription), i \in Rows(intents) :
       /\ Succeeded(i, t) /\ subscription[t].status = "PENDING_PAYMENT"
       /\ Begin(w, CardPaid("webhook", t, i))
  /\ UNCHANGED platformVars

CardPayment(w) ==
  /\ Todo(w, "cardPayment") /\ CanInsert(payments)
  /\ payments' = [payments EXCEPT ![Fresh(payments)] =
                    [tenant |-> job[w].tenant, intent |-> job[w].intent, status |-> "VERIFIED"]]
  /\ GoOn(w)
  /\ UNCHANGED <<tenant, approval, subscription, plans, people, intents, exports, tickets, clockVars, ghostVars>>

(* submitPayment: a transfer announced through the link. *)
SubmitPayment(w) ==
  /\ CanInsert(payments)
  /\ \E t \in Rows(subscription) :
       /\ subscription[t].status = "PENDING_PAYMENT"
       /\ payments' = [payments EXCEPT ![Fresh(payments)] =
                         [tenant |-> t, intent |-> "none", status |-> "PENDING_VERIFICATION"]]
       /\ Begin(w, WithImage("submit", t, <<"subscription">>,
                             [subscription[t] EXCEPT !.status = "PAYMENT_SUBMITTED"]))
  /\ UNCHANGED <<tenant, approval, subscription, plans, people, intents, exports, tickets, clockVars, ghostVars>>

(* verifyPayment and rejectPayment: the payment, then the subscription,    *)
(* whatever has become of it meanwhile.                                    *)
Judge(w) ==
  /\ \E p \in Rows(payments), verdict \in {"VERIFIED", "REJECTED"} :
       /\ payments[p].status = "PENDING_VERIFICATION"
       /\ LET t == payments[p].tenant  row == subscription[t]
              image == IF verdict = "VERIFIED" THEN Activated(row)
                                               ELSE [row EXCEPT !.status = "PENDING_PAYMENT"] IN
          Begin(w, [op |-> "judge", tenant |-> t, todo |-> <<"verdict", "subscription">>, image |-> image,
                    payment |-> p, verdict |-> verdict])
  /\ UNCHANGED platformVars

SaveVerdict(w) ==
  /\ Todo(w, "verdict")
  /\ payments' = [payments EXCEPT ![job[w].payment].status = job[w].verdict]
  /\ GoOn(w)
  /\ UNCHANGED <<tenant, approval, subscription, plans, people, intents, exports, tickets, clockVars, ghostVars>>

-----------------------------------------------------------------------------
(* By hand: markAsPaid, and updateSubscription with any status, any active *)
(* plan and any date.                                                      *)
SetByHand(w) ==
  /\ \E t \in Rows(subscription) :
       /\ \/ Begin(w, WithImage("markAsPaid", t, <<"subscription">>, Activated(subscription[t])))
          \/ \E status \in SubscriptionStatus, plan \in {p \in Plans : plans[p]} :
               Begin(w, WithImage("updateSubscription", t, <<"subscription">>,
                                  [subscription[t] EXCEPT !.status = status, !.plan = plan]))
       /\ given' = given \cup {t}
  /\ UNCHANGED <<rowVars, clockVars, lockedBy, exported, deletions>>

(* The two ways to lock a tenant out and to let it in: through its         *)
(* subscription, and as a tenant.  What each commits after the other.      *)
Lock ==
  [cancelSubscription |-> <<"subscription", "tenantStatus", "members">>,
   suspendSubscription |-> <<"subscription", "tenantStatus", "members">>,
   suspendTenant |-> <<"subscription", "business", "members", "users">>]
Unlock ==
  [reactivateSubscription |-> <<"subscription", "tenantStatus", "members">>,
   unsuspendSubscription |-> <<"subscription", "tenantStatus", "members">>,
   unsuspendTenant |-> <<"subscription", "business", "members", "users">>]

Way(op) == IF op \in {"suspendTenant", "unsuspendTenant"} THEN "tenant" ELSE "subscription"

Lockable(op, status) ==
  \/ op = "cancelSubscription" /\ status # "CANCELLED"
  \/ op = "suspendSubscription" /\ status \notin {"SUSPENDED", "CANCELLED"}
  \/ op = "suspendTenant"
Unlockable(op, status) ==
  \/ op = "reactivateSubscription" /\ status \in {"CANCELLED", "SUSPENDED"}
  \/ op = "unsuspendSubscription" /\ status = "SUSPENDED"
  \/ op = "unsuspendTenant"

LockOut(w) ==
  /\ \E t \in Rows(subscription), op \in DOMAIN Lock :
       /\ Lockable(op, subscription[t].status)
       /\ Begin(w, WithImage(op, t, Lock[op],
                     [subscription[t] EXCEPT !.status =
                        IF op = "cancelSubscription" THEN "CANCELLED" ELSE "SUSPENDED"]))
       /\ lockedBy' = [lockedBy EXCEPT ![t] = @ \cup {Way(op)}]
  /\ UNCHANGED <<rowVars, clockVars, given, exported, deletions>>

LetIn(w) ==
  /\ \E t \in Rows(subscription), op \in DOMAIN Unlock :
       /\ Unlockable(op, subscription[t].status)
       /\ Begin(w, WithImage(op, t, Unlock[op],
                     IF op = "reactivateSubscription" THEN Activated(subscription[t])
                     ELSE [subscription[t] EXCEPT !.status = "ACTIVE"]))
       /\ lockedBy' = [lockedBy EXCEPT ![t] = @ \ {Way(op)}]
       /\ given' = given \cup {t}
  /\ UNCHANGED <<rowVars, clockVars, exported, deletions>>

Opens(w) == job[w].op \in DOMAIN Unlock

SetTenantStatus(w) ==
  /\ Todo(w, "tenantStatus")
  /\ tenant' = [tenant EXCEPT ![job[w].tenant].status = IF Opens(w) THEN "active" ELSE "suspended"]
  /\ GoOn(w)
  /\ UNCHANGED <<approval, subscription, plans, people, payments, intents, exports, tickets, clockVars, ghostVars>>

SetBusiness(w) ==
  /\ Todo(w, "business")
  /\ tenant' = [tenant EXCEPT ![job[w].tenant].business =
                  CASE @ = "gone" -> @ [] Opens(w) -> "open" [] OTHER -> "suspended"]
  /\ GoOn(w)
  /\ UNCHANGED <<approval, subscription, plans, people, payments, intents, exports, tickets, clockVars, ghostVars>>

SetMembers(w) ==
  /\ Todo(w, "members")
  /\ people' = [p \in Persons |->
                  IF p \in Members(job[w].tenant)
                  THEN [people[p] EXCEPT !.member = IF Opens(w) THEN "active" ELSE "inactive"]
                  ELSE people[p]]
  /\ GoOn(w)
  /\ UNCHANGED <<tenant, approval, subscription, plans, payments, intents, exports, tickets, clockVars, ghostVars>>

(* Nobody; and the users who are members of its businesses. *)
Untouched(w) == {}
Touched(w) == Members(job[w].tenant)

SetUsers(w) ==
  /\ Todo(w, "users")
  /\ people' = [p \in Persons |->
                  IF p \in (IF Opens(w) THEN Touched(w) ELSE Members(job[w].tenant))
                  THEN [people[p] EXCEPT !.suspended = ~Opens(w)] ELSE people[p]]
  /\ GoOn(w)
  /\ UNCHANGED <<tenant, approval, subscription, plans, payments, intents, exports, tickets, clockVars, ghostVars>>

-----------------------------------------------------------------------------
(* exportTenantData leaves a token that is good for a while; a deletion    *)
(* needs one, and spends it before it begins.                              *)
Export(w) ==
  /\ CanInsert(exports)
  /\ \E t \in Rows(tenant) :
       /\ exported[t] < MaxExports
       /\ exports' = [x \in Exports |->
                        CASE x = Fresh(exports) -> [tenant |-> t, expired |-> FALSE]
                          [] Exists(exports, x) /\ exports[x].expired -> Absent
                          [] OTHER -> exports[x]]
       /\ exported' = [exported EXCEPT ![t] = @ + 1]
  /\ AtOnce(w, "export")
  /\ UNCHANGED <<tenant, approval, subscription, plans, people, payments, intents, tickets, clockVars, given, lockedBy, deletions>>

ExpireExport(x) ==
  /\ Exists(exports, x) /\ ~exports[x].expired
  /\ exports' = [exports EXCEPT ![x].expired = TRUE]
  /\ UNCHANGED <<jobVars, tenant, approval, subscription, plans, people, payments, intents, tickets, clockVars, ghostVars>>

Unspent ==
  <<"deleteMembers", "deleteUsers", "deleteBusiness", "deleteApproval", "deleteSubscription",
    "deleteTickets", "deleteTenant", "deleteOwner">>
DeletionSteps == <<"spend">> \o Unspent

StartDeletion(w) ==
  /\ \E t \in Rows(tenant), x \in Rows(exports) :
       /\ exports[x] = [tenant |-> t, expired |-> FALSE] /\ deletions[t] <= MaxExports
       /\ Begin(w, [op |-> "delete", tenant |-> t, todo |-> DeletionSteps, token |-> x, users |-> Members(t)])
       /\ deletions' = [deletions EXCEPT ![t] = @ + 1]
  /\ UNCHANGED <<rowVars, clockVars, given, lockedBy, exported>>

SpendExport(w) ==
  /\ Todo(w, "spend")
  /\ exports' = [exports EXCEPT ![job[w].token] = Absent]
  /\ GoOn(w)
  /\ UNCHANGED <<tenant, approval, subscription, plans, people, payments, intents, tickets, clockVars, ghostVars>>

(* A DELETE that a row still refers to is refused, and the handler ends:   *)
(* the owner while the tenant is there, the subscription while it has      *)
(* payments.  What was committed before stays so.                          *)
Refused(w, step) ==
  \/ step = "deleteUsers" /\ job[w].users \cap OwnerOf(job[w].tenant) # {}
  \/ step = "deleteSubscription" /\ PaymentsOf(job[w].tenant) # {}
  \/ /\ step = "deleteTenant"
     /\ \/ Exists(approval, job[w].tenant) \/ Exists(subscription, job[w].tenant)
        \/ \E k \in Rows(tickets) : tickets[k].tenant = job[w].tenant

RefuseDeletion(w) ==
  /\ \E step \in {"deleteUsers", "deleteSubscription", "deleteTenant"} : Todo(w, step) /\ Refused(w, step)
  /\ Finish(w)
  /\ UNCHANGED platformVars

Delete(w, step) ==
  /\ Todo(w, step) /\ ~Refused(w, step)
  /\ GoOn(w)

DeleteMembers(w) ==
  /\ Delete(w, "deleteMembers")
  /\ people' = [p \in Persons |-> IF p \in Members(job[w].tenant) THEN [people[p] EXCEPT !.member = "none"]
                                 ELSE people[p]]
  /\ UNCHANGED <<tenant, approval, subscription, plans, payments, intents, exports, tickets, clockVars, ghostVars>>

DeleteUsers(w) ==
  /\ Delete(w, "deleteUsers") \/ Delete(w, "deleteOwner")
  /\ people' = [p \in Persons |->
                  IF p \in (IF Todo(w, "deleteUsers") THEN job[w].users ELSE OwnerOf(job[w].tenant))
                  THEN Absent ELSE people[p]]
  /\ UNCHANGED <<tenant, approval, subscription, plans, payments, intents, exports, tickets, clockVars, ghostVars>>

DeleteTenantBusiness(w) ==
  /\ Delete(w, "deleteBusiness")
  /\ tenant' = [tenant EXCEPT ![job[w].tenant].business = "gone"]
  /\ UNCHANGED <<approval, subscription, plans, people, payments, intents, exports, tickets, clockVars, ghostVars>>

DeleteRow(w) ==
  LET t == job[w].tenant  Gone(table) == [table EXCEPT ![t] = Absent] IN
  /\ \/ Delete(w, "deleteApproval") /\ approval' = Gone(approval) /\ UNCHANGED <<tenant, subscription, tickets>>
     \/ Delete(w, "deleteSubscription") /\ subscription' = Gone(subscription) /\ UNCHANGED <<tenant, approval, tickets>>
     \/ /\ Delete(w, "deleteTickets")
        /\ tickets' = [k \in Tickets |->
                         IF Exists(tickets, k) /\ tickets[k].tenant = t THEN Absent ELSE tickets[k]]
        /\ UNCHANGED <<tenant, approval, subscription>>
     \/ Delete(w, "deleteTenant") /\ tenant' = Gone(tenant) /\ UNCHANGED <<approval, subscription, tickets>>
  /\ UNCHANGED <<plans, people, payments, intents, exports, clockVars, ghostVars>>

-----------------------------------------------------------------------------
(* The morning jobs: free trials at 6 h, everything else at 9 h, each over *)
(* a list read at its start.                                               *)
LapsedSince(row) == row.status = "ACTIVE" /\ row.ends + 1 < now
Lapsed(row) == row.status = "ACTIVE" /\ row.ends < now

NextTick ==
  /\ now < LastTick
  /\ now' = now + 1
  /\ duty' = IF now' % 2 = 1 THEN "expire" ELSE "overdue"
  /\ marred' = IF duty = "none" /\ AllFree THEN marred ELSE marred \cup {"overlap"}
  /\ UNCHANGED <<job, mix, rowVars, ghostVars>>

JobFinds(op) ==
  {t \in Rows(subscription) : Lapsed(subscription[t]) /\ (op = "expire" => subscription[t].plan = FreePlan)}

StartMorning(w) ==
  /\ duty # "none"
  /\ Begin(w, [op |-> duty, tenant |-> "many", todo |-> <<"list">>,
               list |-> JobFinds(duty), copies |-> subscription])
  /\ duty' = "none"
  /\ UNCHANGED <<rowVars, now, ghostVars>>

(* The 6 h job saves the entity it read, the 9 h job updates the status.   *)
MorningEntry(w) ==
  /\ Todo(w, "list")
  /\ \E t \in job[w].list :
       /\ subscription' =
            IF Doing(w, "expire") THEN [subscription EXCEPT ![t] = [job[w].copies[t] EXCEPT !.status = "EXPIRED"]]
            ELSE IF Exists(subscription, t) THEN [subscription EXCEPT ![t].status = "OVERDUE"]
            ELSE subscription
       /\ Continue(w, [job[w] EXCEPT !.list = @ \ {t}])
  /\ UNCHANGED <<tenant, approval, plans, people, payments, intents, exports, tickets, clockVars, ghostVars>>

EndMorning(w) ==
  /\ Todo(w, "list") /\ job[w].list = {}
  /\ GoOn(w)
  /\ UNCHANGED platformVars

-----------------------------------------------------------------------------
(* Plans are switched on and off; tickets are opened, set and answered. *)
SwitchPlan(w) ==
  /\ \E plan \in Plans, on \in BOOLEAN : plans' = [plans EXCEPT ![plan] = on]
  /\ AtOnce(w, "plan")
  /\ UNCHANGED <<tenant, approval, subscription, people, payments, intents, exports, tickets, clockVars, ghostVars>>

OpenTicket(w) ==
  /\ CanInsert(tickets)
  /\ \E t \in Rows(tenant) : tickets' = [tickets EXCEPT ![Fresh(tickets)] = [tenant |-> t, status |-> "OPEN"]]
  /\ AtOnce(w, "ticket")
  /\ UNCHANGED <<tenant, approval, subscription, plans, people, payments, intents, exports, clockVars, ghostVars>>

UpdateTicket(w) ==
  /\ \E k \in Rows(tickets), status \in {"OPEN", "IN_PROGRESS", "RESOLVED", "CLOSED"} :
       tickets' = [tickets EXCEPT ![k].status = status]
  /\ AtOnce(w, "ticket")
  /\ UNCHANGED <<tenant, approval, subscription, plans, people, payments, intents, exports, clockVars, ghostVars>>

ReplyToTicket(w) ==
  /\ \E k \in Rows(tickets) :
       tickets' = [tickets EXCEPT ![k].status = IF @ = "OPEN" THEN "IN_PROGRESS" ELSE @]
  /\ AtOnce(w, "ticket")
  /\ UNCHANGED <<tenant, approval, subscription, plans, people, payments, intents, exports, clockVars, ghostVars>>

-----------------------------------------------------------------------------
PlatformInit ==
  /\ JobsInit
  /\ tenant = [t \in Tenants |-> Absent]
  /\ approval = [t \in Tenants |-> Absent]
  /\ subscription = [t \in Tenants |-> Absent]
  /\ plans = [plan \in Plans |-> TRUE]
  /\ people = [p \in Persons |-> Absent]
  /\ payments = [p \in Payments |-> Absent]
  /\ intents = [i \in Intents |-> Absent]
  /\ exports = [x \in Exports |-> Absent]
  /\ tickets = [k \in Tickets |-> Absent]
  /\ now = 0 /\ duty = "none"
  /\ given = {}
  /\ lockedBy = [t \in Tenants |-> {}]
  /\ exported = [t \in Tenants |-> 0]
  /\ deletions = [t \in Tenants |-> 0]

Deleting(w) ==
  \/ Export(w) \/ StartDeletion(w) \/ SpendExport(w) \/ RefuseDeletion(w) \/ DeleteMembers(w)
  \/ DeleteUsers(w) \/ DeleteTenantBusiness(w) \/ DeleteRow(w)
Paying(w) ==
  \/ CreateIntent(w) \/ ConfirmPayment(w) \/ Webhook(w) \/ CardPayment(w)
  \/ SubmitPayment(w) \/ Judge(w) \/ SaveVerdict(w)
Locking(w) == LockOut(w) \/ LetIn(w) \/ SetTenantStatus(w) \/ SetBusiness(w) \/ SetMembers(w) \/ SetUsers(w)

PlatformNext ==
  \/ \E w \in Workers :
       \/ RegisterTenant(w) \/ AskApproval(w) \/ FirstSubscription(w) \/ Join(w) \/ Review(w)
       \/ SaveSubscription(w) \/ SetByHand(w) \/ Done(w)
       \/ Paying(w) \/ Locking(w) \/ Deleting(w)
       \/ StartMorning(w) \/ MorningEntry(w) \/ EndMorning(w)
       \/ SwitchPlan(w) \/ OpenTicket(w) \/ UpdateTicket(w) \/ ReplyToTicket(w)
       \/ Fail(w) /\ UNCHANGED platformVars
  \/ "intent" \in mix /\ \E i \in Intents : Charge(i)
  \/ "delete" \in mix /\ \E x \in Exports : ExpireExport(x)
  \/ {"expire", "overdue"} \subseteq mix /\ NextTick

PlatformSpec == PlatformInit /\ [][PlatformNext]_<<jobVars, platformVars>>

PlatformTypeOK ==
  /\ tenant \in [Tenants -> Tenant \cup {Absent}]
  /\ approval \in [Tenants -> Approval \cup {Absent}]
  /\ subscription \in [Tenants -> Subscription \cup {Absent}]
  /\ plans \in [Plans -> BOOLEAN]
  /\ people \in [Persons -> Person \cup {Absent}]
  /\ payments \in [Payments -> Payment \cup {Absent}]
  /\ intents \in [Intents -> Intent \cup {Absent}]
  /\ exports \in [Exports -> ExportToken \cup {Absent}]
  /\ tickets \in [Tickets -> Ticket \cup {Absent}]
  /\ now \in Nat /\ duty \in {"none", "expire", "overdue"}
  /\ given \subseteq Tenants
  /\ lockedBy \in [Tenants -> SUBSET {"subscription", "tenant"}]
  /\ exported \in [Tenants -> Nat] /\ deletions \in [Tenants -> Nat]

(* An active paid subscription that no administrator set by hand has been  *)
(* paid: a transfer that was verified, or a card payment whose intent      *)
(* succeeded, whatever links, webhooks and verdicts came in which order.   *)
ActiveIsPaidFor ==
  Settled =>
    \A t \in Rows(subscription) \ given :
      subscription[t].status = "ACTIVE" /\ subscription[t].plan # FreePlan =>
        \E p \in PaymentsOf(t) :
          /\ payments[p].status = "VERIFIED"
          /\ payments[p].intent # "none" => intents[payments[p].intent].status = "succeeded"

(* A tenant locked out in one way, or in both, and let in again in the     *)
(* same ways is as open as before: its owner may log in, its people are    *)
(* admitted, its business is not suspended.  Where a counterpart is refused*)
(* (after suspendSubscription, suspendTenant and unsuspendTenant the       *)
(* subscription is active, and unsuspendSubscription wants a suspended one)*)
(* the tenant stays locked in that way and nothing is said of it; nor of   *)
(* users an administrator suspends one by one.                             *)
OpenTo(t) ==
  /\ CanLogin(t)
  /\ \A p \in Rows(people) : people[p].tenant = t => Admitted(p)
  /\ tenant[t] = [status |-> "active", business |-> "open"]

OpenedAsItWasLocked ==
  Settled =>
    \A t \in {u \in Rows(subscription) : lockedBy[u] = {} /\ deletions[u] = 0} :
      subscription[t].status = "ACTIVE" /\ approval[t].status = "APPROVED" => OpenTo(t)

(* A free trial becomes EXPIRED, never OVERDUE, but when it ended between  *)
(* 6 h and 9 h: then the 9 h job is the first to find it.                  *)
OverdueTrialsEndedAtDawn ==
  Settled =>
    \A t \in Rows(subscription) \ given :
      subscription[t].plan = FreePlan /\ subscription[t].status = "OVERDUE" => subscription[t].ends % 2 = 1

(* Each deletion had an export of its own: those included that the foreign *)
(* keys stop half way, after the token is spent and before the tenant goes,*)
(* and that an administrator starts again.                                 *)
ExportedAnew == Settled => \A t \in Tenants : deletions[t] <= exported[t]
=============================================================================
