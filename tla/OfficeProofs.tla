------------------------------ MODULE OfficeProofs ------------------------------
(***************************************************************************)
(* What accounts, members, the workspace and the platform keep, for any    *)
(* number of rows and of handlers.  Most of it is promised as long as      *)
(* handlers run one by one: then only one of them holds rows in memory,    *)
(* and they are what is in the tables.  Each invariant says so of the      *)
(* tables and of the handler in the middle of its statements;              *)
(* RepliesCounted needs no such condition, and adds the handlers up        *)
(* instead.  A handler of the platform also has a list of statements left. *)
(***************************************************************************)
EXTENDS Office, Platform, Sums

(* No two handlers have overlapped; at most one is not idle. *)
OneByOne == "overlap" \notin marred

JobsShape ==
  /\ DOMAIN job = Workers
  /\ \A w \in Workers : "op" \in DOMAIN job[w]
  /\ OneByOne => \A v, w \in Workers : ~Free(v) /\ ~Free(w) => v = w

(* What every step of a worker leaves to the others, and what it is then
   about. *)
Acts(w) ==
  /\ DOMAIN job' = Workers /\ mix' = mix
  /\ \A v \in Workers \ {w} : job'[v] = job[v]
  /\ "op" \in DOMAIN job'[w]
  /\ marred \subseteq marred'
  /\ OneByOne' => \A v \in Workers \ {w} : Free(v)
Goes(w, ops) == Acts(w) /\ {job[w].op, job'[w].op} \subseteq ops \cup {"idle"}
Fails(w) == Acts(w) /\ job'[w] = Idle /\ "failure" \in marred'

MemberOps ==
  {"changeRole", "roleSaved", "changePermissions", "seed", "invite", "look", "accept", "acceptNew", "answer",
   "reject", "found", "founded", "createRate", "updateRate"}
AccountOps ==
  {"oauth", "oauthBusiness", "oauthRates", "oauthMember", "refresh", "refreshed", "follow", "spend",
   "lockMembers", "lockUsers"} \cup Edits \cup Lockings
WorkspaceOps ==
  {"createTask", "updateTask", "moveTask", "log", "updateSubtask", "markComplete", "reply", "replied"}

LEMMA BeginActs ==
  ASSUME JobsShape, NEW w \in Workers, Overlapped(w), mix' = mix, DOMAIN job' = Workers,
         \A v \in Workers \ {w} : job'[v] = job[v], "op" \in DOMAIN job'[w]
  PROVE  Acts(w)
BY DEF JobsShape, Acts, Overlapped, Alone, Free, OneByOne

LEMMA AtOnceActs ==
  ASSUME JobsShape, NEW w \in Workers, NEW op, AtOnce(w, op)
  PROVE  Acts(w) /\ job'[w] = Idle /\ job' = job /\ Free(w)
BY DEF JobsShape, Acts, AtOnce, Overlapped, Alone, Free, OneByOne

LEMMA ContinueActs ==
  ASSUME JobsShape, NEW w \in Workers, ~Free(w), NEW j, "op" \in DOMAIN j, Continue(w, j)
  PROVE  Acts(w) /\ job'[w] = j
BY DEF JobsShape, Acts, Continue, Free, OneByOne

LEMMA FinishActs ==
  ASSUME JobsShape, NEW w \in Workers, ~Free(w), Finish(w)
  PROVE  Acts(w) /\ job'[w] = Idle
BY DEF JobsShape, Acts, Finish, Free, OneByOne, Idle

LEMMA FailActs ==
  ASSUME JobsShape, NEW w \in Workers, Fail(w)
  PROVE  Fails(w)
BY DEF JobsShape, Acts, Fails, Fail, Free, OneByOne, Idle

LEMMA ActsShape ==
  ASSUME JobsShape, NEW w \in Workers, Acts(w)
  PROVE  JobsShape'
BY DEF JobsShape, Acts, OneByOne, Free

LEMMA Busy ==
  ASSUME NEW w, job[w].op # "idle"
  PROVE  ~Free(w)
BY DEF Free, Idle

LEMMA MembersGo ==
  ASSUME JobsShape, NEW w \in Workers, MembersNext(w)
  PROVE  Goes(w, MemberOps)
<1> USE BeginActs, AtOnceActs, ContinueActs, FinishActs, Busy
<1> USE DEF Goes, MemberOps, Doing, Asked, Free, Idle, Begin, JobsShape
<1>1. ASSUME NEW b \in Businesses, NEW p \in People,
             \/ AddMember(w, b, p) \/ RemoveMember(w, b, p)
             \/ ChangeRole(w, b, p) \/ ChangePermissions(w, b, p) \/ SendInvitation(w, b, p)
      PROVE  Goes(w, MemberOps)
  <2>1. CASE AddMember(w, b, p) \/ RemoveMember(w, b, p)
    BY <2>1 DEF AddMember, RemoveMember
  <2>2. CASE ChangeRole(w, b, p)
    BY <2>2 DEF ChangeRole
  <2>3. CASE ChangePermissions(w, b, p)
    BY <2>3 DEF ChangePermissions
  <2>4. CASE SendInvitation(w, b, p)
    BY <2>4 DEF SendInvitation
  <2> QED BY <1>1, <2>1, <2>2, <2>3, <2>4
<1>2. ASSUME NEW p \in People, CreateBusiness(w, p) PROVE Goes(w, MemberOps)
  BY <1>2 DEF CreateBusiness
<1>3. ASSUME NEW b \in Businesses, DeleteBusiness(w, b) \/ CreateTaxRate(w, b) PROVE Goes(w, MemberOps)
  BY <1>3 DEF DeleteBusiness, CreateTaxRate
<1>4. ASSUME NEW r \in Rates, DeleteTaxRate(w, r) \/ \E b \in Businesses : UpdateTaxRate(w, b, r)
      PROVE  Goes(w, MemberOps)
  BY <1>4 DEF DeleteTaxRate, UpdateTaxRate
<1>5. ASSUME NEW i \in Invitations,
             \/ InvitationAges(w, i) \/ LookAtInvitation(w, i) \/ CancelInvitation(w, i)
             \/ AcceptWithRegistration(w, i) \/ RejectInvitation(w, i)
      PROVE  Goes(w, MemberOps)
  BY <1>5 DEF InvitationAges, LookAtInvitation, CancelInvitation, AcceptWithRegistration, RejectInvitation
<1>6. CASE RoleSaved(w) \/ UserRoleUpdated(w) \/ PermissionsSaved(w)
  BY <1>6 DEF RoleSaved, UserRoleUpdated, PermissionsSaved
<1>7. CASE SeedPermissions(w) \/ SeededOne(w) \/ SeedEnds(w)
  <2>1. CASE SeedPermissions(w) \/ SeedEnds(w)
    BY <2>1 DEF SeedPermissions, SeedEnds
  <2>2. CASE SeededOne(w)
    BY <2>2 DEF SeededOne
  <2> QED BY <1>7, <2>1, <2>2
<1>8. CASE InvitationSaved(w) \/ CleanupExpired(w) \/ InvitedUserSaved(w)
  BY <1>8 DEF InvitationSaved, CleanupExpired, InvitedUserSaved, JobsShape
<1>9. CASE MemberJoins(w) \/ JoinRefused(w) \/ AnswerSaved(w)
  <2>1. CASE MemberJoins(w)
    BY <2>1 DEF MemberJoins
  <2>2. CASE JoinRefused(w)
    BY <2>2 DEF JoinRefused
  <2>3. CASE AnswerSaved(w)
    BY <2>3 DEF AnswerSaved
  <2> QED BY <1>9, <2>1, <2>2, <2>3
<1>10. CASE BusinessSaved(w) \/ FounderJoins(w) \/ TaxRateSaved(w) \/ TaxRateUpdated(w)
  BY <1>10 DEF BusinessSaved, FounderJoins, TaxRateSaved, TaxRateUpdated
<1> QED BY <1>1, <1>2, <1>3, <1>4, <1>5, <1>6, <1>7, <1>8, <1>9, <1>10 DEF MembersNext

LEMMA AccountsGo ==
  ASSUME JobsShape, NEW w \in Workers, AccountsNext(w)
  PROVE  Goes(w, AccountOps)
<1> USE BeginActs, AtOnceActs, ContinueActs, FinishActs, Busy
<1> USE DEF Goes, AccountOps, Edits, Lockings, Doing, Asked, Free, Idle, Begin, JobsShape
<1>1. ASSUME NEW p \in People,
             Register(w, p) \/ Login(w, p) \/ OAuthLogin(w, p) \/ ForgotPassword(w, p) \/ DeleteUser(w, p)
      PROVE  Goes(w, AccountOps)
  <2>1. CASE Register(w, p)
    BY <2>1 DEF Register
  <2>2. CASE Login(w, p) \/ ForgotPassword(w, p) \/ DeleteUser(w, p)
    BY <2>2 DEF Login, ForgotPassword, DeleteUser
  <2>3. CASE OAuthLogin(w, p)
    BY <2>3 DEF OAuthLogin
  <2> QED BY <1>1, <2>1, <2>2, <2>3
<1>2. ASSUME NEW p \in People, NEW op \in Edits, EditUser(w, op, p) PROVE Goes(w, AccountOps)
  BY <1>2 DEF EditUser
<1>3. ASSUME NEW t \in Tokens, Refresh(w, t) \/ Logout(w, t) PROVE Goes(w, AccountOps)
  BY <1>3 DEF Refresh, Logout
<1>4. ASSUME NEW l \in Links, FollowLink(w, l) PROVE Goes(w, AccountOps)
  BY <1>4 DEF FollowLink
<1>5. CASE OAuthTenant(w) \/ OAuthBusiness(w) \/ OAuthRates(w) \/ OAuthMember(w)
  <2>1. CASE OAuthTenant(w)
    BY <2>1 DEF OAuthTenant
  <2>2. CASE OAuthBusiness(w)
    BY <2>2 DEF OAuthBusiness
  <2>3. CASE OAuthRates(w)
    BY <2>3 DEF OAuthRates
  <2>4. CASE OAuthMember(w)
    BY <2>4 DEF OAuthMember
  <2> QED BY <1>5, <2>1, <2>2, <2>3, <2>4
<1>6. CASE TokenRevoked(w) \/ TokenReplaced(w) \/ UserWritten(w) \/ LinkSpent(w) \/ UserSaved(w)
  BY <1>6 DEF TokenRevoked, TokenReplaced, UserWritten, LinkSpent, UserSaved, JobsShape
<1>7. ASSUME NEW p \in People,
             (\E op \in Lockings : LockTenant(w, op, p)) \/ ExpireFreeTrial(w, p) \/ PaySubscription(w, p)
      PROVE  Goes(w, AccountOps)
  BY <1>7 DEF LockTenant, ExpireFreeTrial, PaySubscription
<1>8. CASE SubscriptionSaved(w) \/ MembersLocked(w) \/ UsersLocked(w)
  <2>1. CASE SubscriptionSaved(w)
    BY <2>1 DEF SubscriptionSaved
  <2>2. CASE MembersLocked(w)
    BY <2>2 DEF MembersLocked
  <2>3. CASE UsersLocked(w)
    BY <2>3 DEF UsersLocked
  <2> QED BY <1>8, <2>1, <2>2, <2>3
<1> QED BY <1>1, <1>2, <1>3, <1>4, <1>5, <1>6, <1>7, <1>8 DEF AccountsNext

LEMMA WorkspaceGoes ==
  ASSUME JobsShape, NEW w \in Workers, WorkspaceNext(w)
  PROVE  Goes(w, WorkspaceOps)
<1> USE BeginActs, AtOnceActs, ContinueActs, FinishActs, Busy
<1> USE DEF Goes, WorkspaceOps, Doing, Asked, Free, Idle, Begin, JobsShape
<1>1. ASSUME NEW p \in People, NEW b \in Businesses, CreateTask(w, p, b) \/ CreateCheckin(w, p, b)
      PROVE  Goes(w, WorkspaceOps)
  BY <1>1 DEF CreateTask, CreateCheckin
<1>2. ASSUME NEW p \in People, NEW t \in Tasks,
             UpdateTask(w, p, t) \/ MoveTask(w, p, t) \/ RemoveTask(w, p, t) \/ CreateSubtask(w, p, t)
      PROVE  Goes(w, WorkspaceOps)
  <2>1. CASE UpdateTask(w, p, t)
    BY <2>1 DEF UpdateTask
  <2>2. CASE MoveTask(w, p, t)
    BY <2>2 DEF MoveTask
  <2>3. CASE RemoveTask(w, p, t) \/ CreateSubtask(w, p, t)
    BY <2>3 DEF RemoveTask, CreateSubtask
  <2> QED BY <1>2, <2>1, <2>2, <2>3
<1>3. ASSUME NEW p \in People, NEW s \in Subtasks,
             UpdateSubtask(w, p, s) \/ MarkComplete(w, p, s) \/ RemoveSubtask(w, p, s)
      PROVE  Goes(w, WorkspaceOps)
  BY <1>3 DEF UpdateSubtask, MarkComplete, RemoveSubtask
<1>4. ASSUME NEW p \in People, NEW s \in Sockets, NEW b \in Businesses, Connect(w, s, p, b)
      PROVE  Goes(w, WorkspaceOps)
  BY <1>4 DEF Connect
<1>5. ASSUME NEW t \in Tasks, PostMessage(w, t) PROVE Goes(w, WorkspaceOps)
  BY <1>5 DEF PostMessage
<1>6. ASSUME NEW m \in Messages, NEW t \in Tasks, Reply(w, m, t) PROVE Goes(w, WorkspaceOps)
  BY <1>6 DEF Reply
<1>7. ASSUME NEW s \in Sockets, Disconnect(w, s) PROVE Goes(w, WorkspaceOps)
  BY <1>7 DEF Disconnect
<1>8. CASE TaskSaved(w) \/ TaskUpdated(w) \/ TaskMoved(w) \/ ActivityLogged(w) \/ SubtaskSaved(w)
  BY <1>8 DEF TaskSaved, TaskUpdated, TaskMoved, ActivityLogged, SubtaskSaved
<1>9. CASE ReplyCounted(w) \/ ReplySaved(w) \/ NextDay(w) \/ Restart(w)
  BY <1>9 DEF ReplyCounted, ReplySaved, NextDay, Restart, JobsShape
<1> QED BY <1>1, <1>2, <1>3, <1>4, <1>5, <1>6, <1>7, <1>8, <1>9 DEF WorkspaceNext

LEMMA ServingWork == ASSUME JobsAssumption PROVE Serving \subseteq Workers
BY DEF JobsAssumption, Serving

(* A step of the office, and whose it is. *)
LEMMA OfficeStep ==
  ASSUME JobsAssumption, JobsShape, [OfficeNext]_officeVars
  PROVE  \/ UNCHANGED officeVars
         \/ \E w \in Serving :
              \/ AccountsNext(w) /\ Goes(w, AccountOps) /\ UNCHANGED workspaceVars
              \/ MembersNext(w) /\ Goes(w, MemberOps) /\ UNCHANGED <<accountVars, workspaceVars>>
              \/ WorkspaceNext(w) /\ Goes(w, WorkspaceOps) /\ UNCHANGED accountVars
              \/ Fail(w) /\ Fails(w) /\ UNCHANGED <<memberVars, accountVars, workspaceVars>>
<1>1. ASSUME NEW w \in Serving, Fail(w) PROVE Fails(w)
  BY <1>1, ServingWork, FailActs
<1> QED BY <1>1, ServingWork, AccountsGo, MembersGo, WorkspaceGoes DEF OfficeNext

LEMMA ShapeStays ==
  ASSUME JobsAssumption, JobsShape, [OfficeNext]_officeVars
  PROVE  JobsShape'
<1>1. CASE UNCHANGED officeVars
  BY <1>1 DEF officeVars, jobVars, JobsShape, OneByOne, Free
<1>2. ASSUME NEW w \in Serving, Acts(w) PROVE JobsShape'
  BY <1>2, ServingWork, ActsShape
<1> QED BY <1>1, <1>2, OfficeStep DEF Goes, Fails

LEMMA ShapeInit == ASSUME Init PROVE JobsShape
BY DEF Init, JobsInit, JobsShape, Free, Idle

LEMMA FreshRow ==
  ASSUME NEW table, CanInsert(table)
  PROVE  Fresh(table) \in DOMAIN table /\ ~Exists(table, Fresh(table))
BY DEF CanInsert, Fresh

----
(* Presence: whoever is shown has a connection in the business shown. *)
PresenceInv ==
  /\ DOMAIN sockets = Sockets /\ DOMAIN presence = People
  /\ \A s \in Sockets : Exists(sockets, s) => sockets[s].user \in People
  /\ \A p \in People : Exists(presence, p) => \E s \in Opened(p) : sockets[s].business = presence[p].business
  /\ "tabs" \notin mix =>
       \A s \in Sockets : Exists(sockets, s) =>
         /\ Exists(presence, sockets[s].user)
         /\ \A t \in Sockets : Exists(sockets, t) /\ sockets[t].user = sockets[s].user => s = t

LEMMA PresenceUnchanged ==
  ASSUME PresenceInv, mix' = mix, UNCHANGED <<sockets, presence>>
  PROVE  PresenceInv'
BY DEF PresenceInv, Exists, Opened

LEMMA WorkspaceKeepsPresence ==
  ASSUME JobsShape, PresenceInv, NEW w \in Workers, WorkspaceNext(w), Acts(w)
  PROVE  PresenceInv'
<1>0. mix' = mix BY DEF Acts
<1> USE PresenceUnchanged, <1>0 DEF workspaceVars
<1>1. ASSUME NEW p \in People, NEW b \in Businesses, CreateTask(w, p, b) \/ CreateCheckin(w, p, b) PROVE PresenceInv'
  BY <1>1 DEF CreateTask, CreateCheckin
<1>2. ASSUME NEW p \in People, NEW t \in Tasks,
             UpdateTask(w, p, t) \/ MoveTask(w, p, t) \/ RemoveTask(w, p, t) \/ CreateSubtask(w, p, t)
      PROVE  PresenceInv'
  BY <1>2 DEF UpdateTask, MoveTask, RemoveTask, CreateSubtask
<1>3. ASSUME NEW p \in People, NEW s \in Subtasks,
             UpdateSubtask(w, p, s) \/ MarkComplete(w, p, s) \/ RemoveSubtask(w, p, s)
      PROVE  PresenceInv'
  BY <1>3 DEF UpdateSubtask, MarkComplete, RemoveSubtask
<1>4. ASSUME NEW p \in People, NEW s \in Sockets, NEW b \in Businesses, Connect(w, s, p, b) PROVE PresenceInv'
  BY <1>4 DEF Connect, PresenceInv, Exists, Opened, Absent
<1>5. ASSUME NEW t \in Tasks, PostMessage(w, t) PROVE PresenceInv'
  BY <1>5 DEF PostMessage
<1>6. ASSUME NEW m \in Messages, NEW t \in Tasks, Reply(w, m, t) PROVE PresenceInv'
  BY <1>6 DEF Reply
<1>7. ASSUME NEW s \in Sockets, Disconnect(w, s) PROVE PresenceInv'
  BY <1>7 DEF Disconnect, PresenceInv, Exists, Opened, Absent
<1>8. CASE TaskSaved(w) \/ TaskUpdated(w) \/ TaskMoved(w) \/ ActivityLogged(w) \/ SubtaskSaved(w)
  BY <1>8 DEF TaskSaved, TaskUpdated, TaskMoved, ActivityLogged, SubtaskSaved
<1>9. CASE ReplyCounted(w) \/ ReplySaved(w) \/ NextDay(w)
  BY <1>9 DEF ReplyCounted, ReplySaved, NextDay
<1>10. CASE Restart(w)
  BY <1>10 DEF Restart, PresenceInv, Exists, Opened, Absent
<1> QED BY <1>1, <1>2, <1>3, <1>4, <1>5, <1>6, <1>7, <1>8, <1>9, <1>10 DEF WorkspaceNext

LEMMA PresenceStep ==
  ASSUME JobsAssumption, JobsShape, PresenceInv, [OfficeNext]_officeVars
  PROVE  PresenceInv'
<1>1. CASE UNCHANGED officeVars
  BY <1>1, PresenceUnchanged DEF officeVars, jobVars, workspaceVars
<1>2. ASSUME NEW w \in Serving, Acts(w), UNCHANGED workspaceVars PROVE PresenceInv'
  BY <1>2, PresenceUnchanged DEF Acts, workspaceVars
<1>3. ASSUME NEW w \in Serving, Acts(w), WorkspaceNext(w) PROVE PresenceInv'
  BY <1>3, ServingWork, WorkspaceKeepsPresence
<1> QED BY <1>1, <1>2, <1>3, OfficeStep DEF Goes, Fails

(* PresenceIsTrue, for any number of people, connections and businesses
   and any traffic: presence.gateway shows online only who is connected. *)
THEOREM PresenceAlwaysTrue == ASSUME JobsAssumption PROVE OfficeSpec => []PresenceIsTrue
<1>1. Init => JobsShape /\ PresenceInv
  BY ShapeInit DEF Init, WorkspaceInit, PresenceInv, Exists
<1>2. JobsShape /\ PresenceInv /\ [OfficeNext]_officeVars => (JobsShape /\ PresenceInv)'
  BY ShapeStays, PresenceStep
<1>3. PresenceInv => PresenceIsTrue
  BY DEF PresenceInv, PresenceIsTrue, OnlineUsersForBusiness, Opened, Exists
<1> QED BY <1>1, <1>2, <1>3, PTL DEF OfficeSpec

----
(* Tax rates: while handlers run one by one and each rate is updated under
   its own business, what has unset the old default of that business is
   still alone when it writes the new one. *)
InPlace == OneByOne /\ "astray" \notin mix
TaxRate == [status : {"HERE"}, business : Businesses, default : BOOLEAN]
NoDefault(b) == \A r \in Rates : Exists(rates, r) /\ rates[r].business = b => ~rates[r].default
RateRows ==
  /\ \A r \in Rates : Exists(rates, r) => rates[r] \in TaxRate /\ Exists(businesses, rates[r].business)
  /\ \A r, s \in Rates :
       Exists(rates, r) /\ Exists(rates, s) /\ rates[r].default /\ rates[s].default
         /\ rates[r].business = rates[s].business => r = s
RateJob(w) ==
  /\ Doing(w, "createRate") =>
       /\ job[w].row \in TaxRate /\ Exists(businesses, job[w].row.business)
       /\ job[w].row.default => NoDefault(job[w].row.business)
  /\ Doing(w, "updateRate") =>
       /\ job[w].at \in Rates /\ job[w].default \in BOOLEAN
       /\ Exists(rates, job[w].at) /\ job[w].default => NoDefault(rates[job[w].at].business)
  /\ Doing(w, "oauthRates") =>
       /\ job[w].business \in Businesses /\ Exists(businesses, job[w].business)
       /\ NoDefault(job[w].business)
RatesInv ==
  /\ DOMAIN rates = Rates /\ DOMAIN businesses = Businesses
  /\ InPlace => RateRows /\ \A w \in Workers : RateJob(w)

(* One worker acts: the others are idle, or nothing is promised. *)
LEMMA RatesBy ==
  ASSUME JobsShape, NEW w \in Workers, Acts(w), DOMAIN rates' = Rates, DOMAIN businesses' = Businesses,
         InPlace' => RateRows' /\ RateJob(w)'
  PROVE  RatesInv'
<1>1. ASSUME InPlace', NEW v \in Workers PROVE RateJob(v)'
  <2>1. CASE v = w
    BY <1>1, <2>1
  <2>2. CASE v # w
    BY <1>1, <2>2 DEF Acts, InPlace, RateJob, Doing, Free, Idle
  <2> QED BY <2>1, <2>2
<1> QED BY <1>1 DEF RatesInv

LEMMA RatesUntouched ==
  ASSUME JobsShape, RatesInv, NEW w \in Workers, Acts(w), UNCHANGED rates, DOMAIN businesses' = Businesses,
         InPlace' => \A b \in Businesses : Exists(businesses, b) => Exists(businesses', b),
         job'[w].op \notin {"createRate", "updateRate", "oauthRates"}
  PROVE  RatesInv'
<1>1. ASSUME InPlace' PROVE RateRows' /\ RateJob(w)'
  <2>1. InPlace BY <1>1 DEF Acts, OneByOne, InPlace
  <2> QED BY <1>1, <2>1 DEF RatesInv, RateRows, RateJob, Doing, TaxRate, Exists
<1> QED BY <1>1, RatesBy DEF RatesInv

LEMMA UnsetRates ==
  ASSUME NEW b, DOMAIN rates = Rates, \A r \in Rates : Exists(rates, r) => rates[r] \in TaxRate,
         Unset(b)
  PROVE  /\ DOMAIN rates' = Rates
         /\ \A r \in Rates :
              /\ Exists(rates, r) <=> Exists(rates', r)
              /\ Exists(rates, r) => /\ rates'[r] \in TaxRate /\ rates'[r].business = rates[r].business
                                    /\ (rates'[r].default => rates[r].default)
<1>1. DOMAIN rates' = Rates BY DEF Unset
<1>2. ASSUME NEW r \in Rates, Exists(rates, r), rates[r].business = b
      PROVE  /\ Exists(rates', r) /\ rates'[r] \in TaxRate /\ rates'[r].business = rates[r].business
             /\ rates'[r].default = FALSE
  <2>1. rates'[r] = [rates[r] EXCEPT !.default = FALSE]
    BY <1>2 DEF Unset
  <2>2. rates[r] \in TaxRate BY <1>2
  <2> QED BY <2>1, <2>2 DEF TaxRate, Exists, Absent
<1>3. ASSUME NEW r \in Rates, ~(Exists(rates, r) /\ rates[r].business = b) PROVE rates'[r] = rates[r]
  BY <1>3 DEF Unset
<1> QED BY <1>1, <1>2, <1>3 DEF Exists

LEMMA MembersKeepRates ==
  ASSUME JobsShape, RatesInv, NEW w \in Workers, MembersNext(w), Acts(w)
  PROVE  RatesInv'
<1> SUFFICES ASSUME DOMAIN rates = Rates, DOMAIN businesses = Businesses PROVE RatesInv'
  BY DEF RatesInv
<1>0. ASSUME InPlace' PROVE InPlace /\ RateRows /\ RateJob(w)
  BY <1>0 DEF Acts, OneByOne, InPlace, RatesInv
<1> USE BeginActs, AtOnceActs, ContinueActs, FinishActs, Busy
<1> USE DEF JobsShape, Doing, RateRows, Exists
<1>1. ASSUME NEW b \in Businesses, NEW p \in People,
             \/ AddMember(w, b, p) \/ RemoveMember(w, b, p)
             \/ ChangeRole(w, b, p) \/ ChangePermissions(w, b, p) \/ SendInvitation(w, b, p)
      PROVE  RatesInv'
  <2>1. UNCHANGED <<rates, businesses>>
    BY <1>1 DEF AddMember, RemoveMember, ChangeRole, ChangePermissions, SendInvitation, memberVars
  <2>2. job'[w].op \notin {"createRate", "updateRate", "oauthRates"}
    <3>1. CASE AddMember(w, b, p) \/ RemoveMember(w, b, p) \/ SendInvitation(w, b, p)
      BY <3>1 DEF AddMember, RemoveMember, SendInvitation, Begin, Idle
    <3>2. CASE ChangeRole(w, b, p)
      BY <3>2 DEF ChangeRole, Begin
    <3>3. CASE ChangePermissions(w, b, p)
      BY <3>3 DEF ChangePermissions, Begin
    <3> QED BY <1>1, <3>1, <3>2, <3>3
  <2> QED BY <2>1, <2>2, RatesUntouched
<1>2. ASSUME NEW p \in People, CreateBusiness(w, p) PROVE RatesInv'
  BY <1>2, RatesUntouched DEF CreateBusiness, memberVars, Begin
<1>3. ASSUME NEW b \in Businesses, DeleteBusiness(w, b) PROVE RatesInv'
  <2>1. ASSUME InPlace' PROVE RateRows' /\ RateJob(w)'
    BY <1>0, <1>3, <2>1 DEF DeleteBusiness, RateJob, TaxRate, Idle, Absent
  <2>2. DOMAIN rates' = Rates /\ DOMAIN businesses' = Businesses
    BY <1>3 DEF DeleteBusiness
  <2> QED BY <2>1, <2>2, RatesBy
<1>4. ASSUME NEW b \in Businesses, CreateTaxRate(w, b) PROVE RatesInv'
  <2>1. PICK default \in BOOLEAN :
          /\ IF default THEN Unset(b) ELSE UNCHANGED rates
          /\ job'[w] = [op |-> "createRate", row |-> Rate(b, default)]
    BY <1>4 DEF CreateTaxRate, Begin
  <2>2. Exists(businesses, b) /\ UNCHANGED businesses
    BY <1>4 DEF CreateTaxRate, ByHeads, Serves
  <2>3. DOMAIN rates' = Rates BY <2>1 DEF Unset
  <2>4. ASSUME InPlace' PROVE RateRows' /\ RateJob(w)'
    <3>1. RateRows'
      <4>1. CASE default
        <5>1. Unset(b) /\ \A q \in Rates : Exists(rates, q) => rates[q] \in TaxRate
          BY <1>0, <2>1, <2>4, <4>1
        <5>2. \A q \in Rates :
                /\ Exists(rates, q) <=> Exists(rates', q)
                /\ Exists(rates, q) => /\ rates'[q] \in TaxRate /\ rates'[q].business = rates[q].business
                                      /\ (rates'[q].default => rates[q].default)
          BY <5>1, UnsetRates
        <5> QED BY <1>0, <2>2, <2>4, <5>2
      <4>2. CASE ~default
        BY <1>0, <2>1, <2>2, <2>4, <4>2
      <4> QED BY <4>1, <4>2
    <3>2. default => NoDefault(b)'
      BY <1>0, <2>1, <2>2, <2>4 DEF Unset, TaxRate, Absent, NoDefault
    <3> QED BY <1>0, <2>1, <2>2, <2>4, <3>1, <3>2 DEF RateJob, TaxRate, Rate
  <2> QED BY <2>2, <2>3, <2>4, RatesBy
<1>5. ASSUME NEW b \in Businesses, NEW r \in Rates, UpdateTaxRate(w, b, r) PROVE RatesInv'
  <2>1. PICK default \in BOOLEAN :
          /\ IF default THEN Unset(b) ELSE UNCHANGED rates
          /\ job'[w] = [op |-> "updateRate", at |-> r, default |-> default]
    BY <1>5 DEF UpdateTaxRate, Begin
  <2>2. UNCHANGED businesses BY <1>5 DEF UpdateTaxRate
  <2>3. DOMAIN rates' = Rates BY <2>1 DEF Unset
  <2>4. ASSUME InPlace' PROVE RateRows' /\ RateJob(w)'
    <3>1. \A q \in Rates :
            /\ Exists(rates, q) <=> Exists(rates', q)
            /\ Exists(rates, q) => /\ rates'[q] \in TaxRate /\ rates'[q].business = rates[q].business
                                  /\ (rates'[q].default => rates[q].default)
      <4>1. CASE default
        BY <1>0, <2>1, <2>4, <4>1, UnsetRates
      <4>2. CASE ~default
        BY <1>0, <2>1, <2>4, <4>2
      <4> QED BY <4>1, <4>2
    <3>2. RateRows' BY <1>0, <2>2, <2>4, <3>1
    <3>3. default => NoDefault(b)'
      BY <1>0, <2>1, <2>2, <2>4 DEF Unset, TaxRate, Absent, NoDefault
    <3>4. Exists(rates, r) => rates[r].business = b
      BY <1>0, <1>5, <2>4 DEF UpdateTaxRate, InPlace
    <3> QED BY <2>1, <3>1, <3>2, <3>3, <3>4 DEF RateJob, NoDefault
  <2> QED BY <2>2, <2>3, <2>4, RatesBy
<1>6. ASSUME NEW r \in Rates, DeleteTaxRate(w, r) PROVE RatesInv'
  <2>1. ASSUME InPlace' PROVE RateRows' /\ RateJob(w)'
    BY <1>0, <1>6, <2>1 DEF DeleteTaxRate, RateJob, TaxRate, Idle, Absent
  <2> QED BY <1>6, <2>1, RatesBy DEF DeleteTaxRate
<1>7. ASSUME NEW i \in Invitations,
             \/ InvitationAges(w, i) \/ LookAtInvitation(w, i) \/ CancelInvitation(w, i)
             \/ AcceptWithRegistration(w, i) \/ RejectInvitation(w, i)
      PROVE  RatesInv'
  <2>1. UNCHANGED <<rates, businesses>> BY <1>7
        DEF InvitationAges, LookAtInvitation, CancelInvitation, AcceptWithRegistration, RejectInvitation, memberVars
  <2>2. job'[w].op \notin {"createRate", "updateRate", "oauthRates"}
    BY <1>7
        DEF InvitationAges, LookAtInvitation, CancelInvitation, AcceptWithRegistration, RejectInvitation, Begin, Idle
  <2> QED BY <2>1, <2>2, RatesUntouched
<1>8. CASE RoleSaved(w) \/ UserRoleUpdated(w) \/ PermissionsSaved(w) \/ SeedPermissions(w) \/ SeedEnds(w)
  BY <1>8, RatesUntouched
        DEF RoleSaved, UserRoleUpdated, PermissionsSaved, SeedPermissions, SeedEnds, memberVars, Begin, Idle
<1>9. CASE SeededOne(w)
  BY <1>9, RatesUntouched DEF SeededOne
<1>10. CASE InvitationSaved(w) \/ CleanupExpired(w) \/ InvitedUserSaved(w)
  BY <1>10, RatesUntouched DEF InvitationSaved, CleanupExpired, InvitedUserSaved, Idle
<1>11. CASE MemberJoins(w)
  BY <1>11, RatesUntouched DEF MemberJoins
<1>12. CASE JoinRefused(w) \/ AnswerSaved(w)
  BY <1>12, RatesUntouched DEF JoinRefused, AnswerSaved, memberVars, Idle
<1>13. CASE BusinessSaved(w)
  BY <1>13, RatesUntouched DEF BusinessSaved, Business, Absent
<1>14. CASE FounderJoins(w)
  BY <1>14, RatesUntouched DEF FounderJoins, Idle
<1>15. CASE TaxRateSaved(w)
  <2>1. Fresh(rates) \in Rates /\ ~Exists(rates, Fresh(rates))
    BY <1>15, FreshRow DEF TaxRateSaved
  <2>2. rates' = [rates EXCEPT ![Fresh(rates)] = job[w].row] /\ job'[w] = Idle /\ UNCHANGED businesses
    BY <1>15 DEF TaxRateSaved
  <2>3. ASSUME InPlace' PROVE RateRows' /\ RateJob(w)'
    BY <1>0, <1>15, <2>1, <2>2, <2>3 DEF TaxRateSaved, RateJob, TaxRate, Idle, NoDefault
  <2> QED BY <2>2, <2>3, RatesBy
<1>16. CASE TaxRateUpdated(w)
  <2>1. job'[w] = Idle /\ UNCHANGED businesses
    BY <1>16 DEF TaxRateUpdated
  <2>2. ASSUME InPlace' PROVE RateRows' /\ RateJob(w)'
    BY <1>0, <1>16, <2>1, <2>2 DEF TaxRateUpdated, RateJob, TaxRate, Idle, NoDefault, Absent
  <2> QED BY <1>16, <2>1, <2>2, RatesBy DEF TaxRateUpdated
<1> QED BY <1>1, <1>2, <1>3, <1>4, <1>5, <1>6, <1>7, <1>8, <1>9, <1>10, <1>11, <1>12, <1>13, <1>14, <1>15, <1>16
        DEF MembersNext

LEMMA AccountsKeepRates ==
  ASSUME JobsShape, RatesInv, NEW w \in Workers, AccountsNext(w), Acts(w)
  PROVE  RatesInv'
<1> SUFFICES ASSUME DOMAIN rates = Rates, DOMAIN businesses = Businesses PROVE RatesInv'
  BY DEF RatesInv
<1>0. ASSUME InPlace' PROVE InPlace /\ RateRows /\ RateJob(w)
  BY <1>0 DEF Acts, OneByOne, InPlace, RatesInv
<1> USE BeginActs, AtOnceActs, ContinueActs, FinishActs, Busy
<1> USE DEF JobsShape
<1>1. ASSUME NEW p \in People, Register(w, p) PROVE RatesInv'
  <2> DEFINE b == Fresh(businesses)
  <2>1. /\ b \in Businesses /\ ~Exists(businesses, b)
        /\ Fresh(rates) \in Rates /\ ~Exists(rates, Fresh(rates))
    BY <1>1, FreshRow DEF Register
  <2>2. PICK default \in BOOLEAN : rates' = [rates EXCEPT ![Fresh(rates)] = Rate(b, default)]
    BY <1>1 DEF Register
  <2>3. businesses' = [businesses EXCEPT ![b] = Business(p)] /\ job'[w] = Idle
    BY <1>1 DEF Register
  <2> HIDE DEF b
  <2>4. ASSUME InPlace' PROVE RateRows' /\ RateJob(w)'
    BY <1>0, <2>1, <2>2, <2>3, <2>4 DEF RateRows, RateJob, Doing, TaxRate, Exists, Idle, Rate, Business, Absent
  <2> QED BY <2>2, <2>3, <2>4, RatesBy
<1>2. ASSUME NEW p \in People, Login(w, p) \/ ForgotPassword(w, p) \/ DeleteUser(w, p) PROVE RatesInv'
  BY <1>2, RatesUntouched DEF Login, ForgotPassword, DeleteUser, memberVars, Idle
<1>3. ASSUME NEW p \in People, OAuthLogin(w, p) PROVE RatesInv'
  BY <1>3, RatesUntouched DEF OAuthLogin, Begin, Idle
<1>4. ASSUME NEW p \in People, NEW op \in Edits, EditUser(w, op, p) PROVE RatesInv'
  BY <1>4, RatesUntouched DEF EditUser, memberVars, Begin, Edits
<1>5. ASSUME NEW t \in Tokens, Refresh(w, t) \/ Logout(w, t) PROVE RatesInv'
  BY <1>5, RatesUntouched DEF Refresh, Logout, memberVars, Begin, Idle
<1>6. ASSUME NEW l \in Links, FollowLink(w, l) PROVE RatesInv'
  BY <1>6, RatesUntouched DEF FollowLink, memberVars, Begin
<1>7. CASE OAuthTenant(w)
  BY <1>7, RatesUntouched DEF OAuthTenant, Doing
<1>8. CASE OAuthBusiness(w)
  <2> DEFINE b == Fresh(businesses)
  <2>1. b \in Businesses /\ ~Exists(businesses, b)
    BY <1>8, FreshRow DEF OAuthBusiness
  <2>2. /\ businesses' = [businesses EXCEPT ![b] = Business(job[w].user)] /\ UNCHANGED rates
        /\ job'[w] = [op |-> "oauthRates", user |-> job[w].user, business |-> b]
    BY <1>8 DEF OAuthBusiness, Doing
  <2> HIDE DEF b
  <2>3. ASSUME InPlace' PROVE RateRows' /\ RateJob(w)'
    BY <1>0, <2>1, <2>2, <2>3 DEF RateRows, RateJob, Doing, TaxRate, Exists, NoDefault, Business, Absent
  <2> QED BY <2>2, <2>3, RatesBy
<1>9. CASE OAuthRates(w)
  <2>1. Fresh(rates) \in Rates /\ ~Exists(rates, Fresh(rates))
    BY <1>9, FreshRow DEF OAuthRates
  <2>2. /\ rates' = [rates EXCEPT ![Fresh(rates)] = Rate(job[w].business, TRUE)] /\ UNCHANGED businesses
        /\ job'[w].op = "oauthMember"
    BY <1>9 DEF OAuthRates, Doing
  <2>3. ASSUME InPlace' PROVE RateRows' /\ RateJob(w)'
    BY <1>0, <1>9, <2>1, <2>2, <2>3 DEF OAuthRates, RateRows, RateJob, Doing, TaxRate, Exists, NoDefault, Rate, Absent
  <2> QED BY <2>2, <2>3, RatesBy
<1>10. CASE OAuthMember(w)
  BY <1>10, RatesUntouched DEF OAuthMember, Doing, Idle
<1>11. CASE TokenRevoked(w)
  BY <1>11, RatesUntouched DEF TokenRevoked, memberVars, Doing
<1>12. CASE TokenReplaced(w) \/ LinkSpent(w)
  BY <1>12, RatesUntouched DEF TokenReplaced, LinkSpent, memberVars, Doing, Idle
<1>13. CASE UserWritten(w)
  BY <1>13, RatesUntouched DEF UserWritten, Doing
<1>14. CASE UserSaved(w)
  BY <1>14, RatesUntouched DEF UserSaved, Edits, Idle
<1>15. ASSUME NEW p \in People,
              (\E op \in Lockings : LockTenant(w, op, p)) \/ ExpireFreeTrial(w, p) \/ PaySubscription(w, p)
       PROVE  RatesInv'
  BY <1>15, RatesUntouched DEF LockTenant, ExpireFreeTrial, PaySubscription, memberVars, Begin, Lockings, Idle
<1>16. CASE SubscriptionSaved(w) \/ UsersLocked(w)
  BY <1>16, RatesUntouched DEF SubscriptionSaved, UsersLocked, Lockings, Doing, Idle
<1>17. CASE MembersLocked(w)
  BY <1>17, RatesUntouched DEF MembersLocked, Doing, Idle
<1> QED
  BY <1>1, <1>2, <1>3, <1>4, <1>5, <1>6, <1>7, <1>8, <1>9, <1>10, <1>11, <1>12, <1>13, <1>14, <1>15, <1>16, <1>17
        DEF AccountsNext

LEMMA WorkspaceLeaves ==
  ASSUME NEW w, WorkspaceNext(w)
  PROVE  UNCHANGED memberVars
<1>1. ASSUME NEW p \in People, NEW b \in Businesses, CreateTask(w, p, b) \/ CreateCheckin(w, p, b)
      PROVE  UNCHANGED memberVars
  BY <1>1 DEF CreateTask, CreateCheckin
<1>2. ASSUME NEW p \in People, NEW t \in Tasks,
             UpdateTask(w, p, t) \/ MoveTask(w, p, t) \/ RemoveTask(w, p, t) \/ CreateSubtask(w, p, t)
      PROVE  UNCHANGED memberVars
  BY <1>2 DEF UpdateTask, MoveTask, RemoveTask, CreateSubtask
<1>3. ASSUME NEW p \in People, NEW s \in Subtasks,
             UpdateSubtask(w, p, s) \/ MarkComplete(w, p, s) \/ RemoveSubtask(w, p, s)
      PROVE  UNCHANGED memberVars
  BY <1>3 DEF UpdateSubtask, MarkComplete, RemoveSubtask
<1>4. ASSUME NEW p \in People, NEW s \in Sockets, NEW b \in Businesses, Connect(w, s, p, b) PROVE UNCHANGED memberVars
  BY <1>4 DEF Connect
<1>5. ASSUME NEW t \in Tasks, PostMessage(w, t) PROVE UNCHANGED memberVars
  BY <1>5 DEF PostMessage
<1>6. ASSUME NEW m \in Messages, NEW t \in Tasks, Reply(w, m, t) PROVE UNCHANGED memberVars
  BY <1>6 DEF Reply
<1>7. ASSUME NEW s \in Sockets, Disconnect(w, s) PROVE UNCHANGED memberVars
  BY <1>7 DEF Disconnect
<1>8. CASE TaskSaved(w) \/ TaskUpdated(w) \/ TaskMoved(w) \/ ActivityLogged(w) \/ SubtaskSaved(w)
  BY <1>8 DEF TaskSaved, TaskUpdated, TaskMoved, ActivityLogged, SubtaskSaved
<1>9. CASE ReplyCounted(w) \/ ReplySaved(w) \/ NextDay(w) \/ Restart(w)
  BY <1>9 DEF ReplyCounted, ReplySaved, NextDay, Restart
<1> QED BY <1>1, <1>2, <1>3, <1>4, <1>5, <1>6, <1>7, <1>8, <1>9 DEF WorkspaceNext

LEMMA RatesStep ==
  ASSUME JobsAssumption, JobsShape, RatesInv, [OfficeNext]_officeVars
  PROVE  RatesInv'
<1>1. CASE UNCHANGED officeVars
  BY <1>1 DEF officeVars, jobVars, memberVars, RatesInv, RateRows, RateJob, NoDefault, Doing, OneByOne, InPlace, Exists
<1>2. ASSUME NEW w \in Serving, UNCHANGED memberVars,
             Goes(w, WorkspaceOps) \/ Fails(w)
      PROVE  RatesInv'
  BY <1>2, ServingWork, RatesUntouched DEF Goes, Fails, Idle, WorkspaceOps, memberVars, RatesInv
<1>3. ASSUME NEW w \in Serving, MembersNext(w), Goes(w, MemberOps) PROVE RatesInv'
  BY <1>3, ServingWork, MembersKeepRates DEF Goes
<1>4. ASSUME NEW w \in Serving, AccountsNext(w), Goes(w, AccountOps) PROVE RatesInv'
  BY <1>4, ServingWork, AccountsKeepRates DEF Goes
<1> QED BY <1>1, <1>2, <1>3, <1>4, OfficeStep, WorkspaceLeaves

(* OneDefaultRate, for any number of workers, businesses and rates: where
   each rate is updated under its own business, the statement that unsets
   the old default and the one that writes the new one leave two defaults
   only to handlers that overlap, and none to a failure between them. *)
THEOREM OneDefaultRateAlways == ASSUME JobsAssumption PROVE OfficeSpec => []OneDefaultRate
<1>1. Init => JobsShape /\ RatesInv
  <2> SUFFICES ASSUME Init PROVE RatesInv
    BY ShapeInit
  <2>1. \A w \in Workers : RateJob(w)
    BY DEF Init, JobsInit, RateJob, Doing, Idle
  <2>2. MembersInit BY DEF Init
  <2>3. \E p \in People, b \in Businesses, r \in Rates :
          /\ businesses = [x \in Businesses |-> IF x = b THEN Business(p) ELSE Absent]
          /\ rates = [x \in Rates |-> IF x = r THEN Rate(b, TRUE) ELSE Absent]
    BY <2>2, ZenonT(30) DEF MembersInit
  <2>4. PICK p \in People, b \in Businesses, r \in Rates :
          /\ businesses = [x \in Businesses |-> IF x = b THEN Business(p) ELSE Absent]
          /\ rates = [x \in Rates |-> IF x = r THEN Rate(b, TRUE) ELSE Absent]
    BY <2>3
  <2>5. Rate(b, TRUE) \in TaxRate /\ Rate(b, TRUE).business = b /\ Exists(businesses, b)
    BY <2>4 DEF Rate, TaxRate, Exists, Business, Absent
  <2>6. \A x \in Rates : Exists(rates, x) => x = r /\ rates[x] = Rate(b, TRUE)
    BY <2>4 DEF Exists
  <2>7. RateRows BY <2>5, <2>6 DEF RateRows
  <2> QED BY <2>1, <2>4, <2>7 DEF RatesInv
<1>2. JobsShape /\ RatesInv /\ [OfficeNext]_officeVars => (JobsShape /\ RatesInv)'
  BY ShapeStays, RatesStep
<1>3. RatesInv => OneDefaultRate
  BY DEF RatesInv, RateRows, OneDefaultRate, OneDefault, Apart, OneByOne, InPlace, Rows
<1> QED BY <1>1, <1>2, <1>3, PTL DEF OfficeSpec

----
(* Sessions: a session is the row of its first token, and while handlers
   run one by one at most one token of a session is live, none once it has
   been logged out, and none between the statement that revokes a token
   and the one that writes its successor. *)
TokenShape(row) ==
  DOMAIN row = {"status", "user", "session"} /\ row.status \in {"LIVE", "REVOKED"} /\ row.session \in Tokens
Live(t) == Exists(tokens, t) /\ tokens[t].status = "LIVE"
TokenRows ==
  /\ \A t \in Tokens : Exists(tokens, t) =>
       /\ TokenShape(tokens[t])
       /\ Exists(tokens, tokens[t].session) /\ tokens[tokens[t].session].user = tokens[t].user
  /\ \A t \in closed : t \in Tokens /\ Exists(tokens, t)
  /\ \A t \in Tokens : Live(t) =>
       /\ tokens[t].session \notin closed
       /\ \A u \in Tokens : Live(u) /\ tokens[u].session = tokens[t].session => u = t
Unused(session) == session \notin closed /\ \A t \in Tokens : Live(t) => tokens[t].session # session
TokenJob(w) ==
  /\ Doing(w, "refresh") =>
       /\ DOMAIN job[w] = {"op", "at", "row"}
       /\ job[w].at \in Tokens /\ Live(job[w].at) /\ job[w].row = tokens[job[w].at]
  /\ Doing(w, "refreshed") =>
       LET row == job[w].row
       IN /\ row.session \in Tokens /\ Exists(tokens, row.session) /\ tokens[row.session].user = row.user
          /\ Unused(row.session)
TokensInv ==
  /\ DOMAIN tokens = Tokens
  /\ OneByOne => TokenRows /\ \A w \in Workers : TokenJob(w)

LEMMA TokensBy ==
  ASSUME JobsShape, NEW w \in Workers, Acts(w), DOMAIN tokens' = Tokens, OneByOne' => TokenRows' /\ TokenJob(w)'
  PROVE  TokensInv'
<1>1. ASSUME OneByOne', NEW v \in Workers PROVE TokenJob(v)'
  <2>1. CASE v = w
    BY <1>1, <2>1
  <2>2. CASE v # w
    BY <1>1, <2>2 DEF Acts, TokenJob, Doing, Free, Idle
  <2> QED BY <2>1, <2>2
<1> QED BY <1>1 DEF TokensInv

LEMMA TokensUntouched ==
  ASSUME JobsShape, TokensInv, NEW w \in Workers, Acts(w), UNCHANGED <<tokens, closed>>,
         job'[w].op \notin {"refresh", "refreshed"}
  PROVE  TokensInv'
<1>1. ASSUME OneByOne' PROVE TokenRows' /\ TokenJob(w)'
  <2>1. OneByOne BY <1>1 DEF Acts, OneByOne
  <2> QED BY <1>1, <2>1 DEF TokensInv, TokenRows, TokenJob, Doing, Live, Exists
<1> QED BY <1>1, TokensBy DEF TokensInv

(* A fresh row, of a new session or of one that has no live token. *)
LEMMA TokenWritten ==
  ASSUME DOMAIN tokens = Tokens, TokenRows, UNCHANGED closed,
         NEW n \in Tokens, ~Exists(tokens, n), NEW p, NEW s \in Tokens,
         tokens' = [tokens EXCEPT ![n] = Token(p, s)],
         s = n \/ (Exists(tokens, s) /\ tokens[s].user = p /\ Unused(s))
  PROVE  TokenRows'
<1>1. tokens'[n] = Token(p, s) /\ TokenShape(Token(p, s)) /\ Token(p, s).user = p /\ Token(p, s).session = s
  BY DEF Token, TokenShape
<1>2. \A t \in Tokens \ {n} : tokens'[t] = tokens[t] OBVIOUS
<1>3. Exists(tokens', n) BY <1>1 DEF Exists, Token, Absent
<1>4. ASSUME NEW t \in Tokens, Exists(tokens', t)
      PROVE  /\ TokenShape(tokens'[t])
             /\ Exists(tokens', tokens'[t].session) /\ tokens'[tokens'[t].session].user = tokens'[t].user
  <2>1. CASE t = n
    BY <1>1, <1>2, <1>3, <2>1 DEF Exists
  <2>2. CASE t # n
    BY <1>2, <1>4, <2>2 DEF Exists, TokenRows, TokenShape
  <2> QED BY <2>1, <2>2
<1>5. \A t \in Tokens : Exists(tokens, t) => t # n OBVIOUS
<1>6. n \notin closed /\ s \notin closed
  BY DEF TokenRows, Unused
<1>7. ASSUME NEW t \in Tokens, Live(t), t # n PROVE tokens[t].session # s
  BY <1>7 DEF TokenRows, Unused, Live, TokenShape
<1> QED BY <1>1, <1>2, <1>3, <1>4, <1>5, <1>6, <1>7 DEF TokenRows, Live, Exists

LEMMA SessionStartsWell ==
  ASSUME DOMAIN tokens = Tokens, TokenRows, UNCHANGED closed, NEW p, SessionStarts(p)
  PROVE  TokenRows'
<1> DEFINE n == Fresh(tokens)
<1>1. n \in Tokens /\ ~Exists(tokens, n)
  BY FreshRow DEF SessionStarts
<1>2. tokens' = [tokens EXCEPT ![n] = Token(p, n)]
  BY DEF SessionStarts
<1> HIDE DEF n
<1> QED BY <1>1, <1>2, TokenWritten

LEMMA TokenRevokedWell ==
  ASSUME DOMAIN tokens = Tokens, TokenRows, NEW t \in Tokens, Live(t), tokens' = Revoked(t),
         closed' \in {closed, closed \cup {tokens[t].session}}
  PROVE  /\ TokenRows'
         /\ closed' = closed => \A u \in Tokens : Live(u)' => tokens'[u].session # tokens[t].session
<1>1. /\ DOMAIN tokens' = Tokens
      /\ tokens'[t].status = "REVOKED" /\ TokenShape(tokens'[t])
      /\ tokens'[t].user = tokens[t].user /\ tokens'[t].session = tokens[t].session
  BY DEF Revoked, Live, TokenRows, TokenShape
<1>2. \A u \in Tokens \ {t} : tokens'[u] = tokens[u]
  BY DEF Revoked
<1>3. Exists(tokens', t) BY <1>1 DEF Exists, Absent
<1>4. ASSUME NEW u \in Tokens, Exists(tokens', u)
      PROVE  /\ TokenShape(tokens'[u]) /\ Exists(tokens, u) /\ tokens'[u].session = tokens[u].session
             /\ Exists(tokens', tokens'[u].session) /\ tokens'[tokens'[u].session].user = tokens'[u].user
  <2>1. Exists(tokens, u) /\ tokens'[u].session = tokens[u].session /\ tokens'[u].user = tokens[u].user
    BY <1>1, <1>2, <1>4 DEF Exists, Live
  <2>2. tokens[u].session \in Tokens /\ Exists(tokens, tokens[u].session)
        /\ tokens[tokens[u].session].user = tokens[u].user /\ TokenShape(tokens[u])
    BY <2>1 DEF TokenRows, TokenShape
  <2> QED BY <1>1, <1>2, <1>3, <2>1, <2>2 DEF Exists
<1>5. \A u \in Tokens : Live(u)' => Live(u) /\ u # t
  BY <1>1, <1>2 DEF Live, Exists
<1>6. \A u \in closed' : u \in Tokens /\ Exists(tokens, u)
  BY DEF TokenRows, Live, TokenShape
<1>7. \A u \in Tokens : Exists(tokens, u) => Exists(tokens', u)
  BY <1>2, <1>3 DEF Exists
<1>8. ASSUME NEW u \in Tokens, Live(u)' PROVE tokens'[u].session \notin closed' /\ tokens'[u].session # tokens[t].session
  BY <1>1, <1>2, <1>5, <1>8 DEF TokenRows
<1>10. TokenRows'
  BY <1>2, <1>4, <1>5, <1>6, <1>7, <1>8 DEF TokenRows
<1> QED BY <1>8, <1>10

LEMMA AccountsKeepTokens ==
  ASSUME JobsShape, TokensInv, NEW w \in Workers, AccountsNext(w), Acts(w)
  PROVE  TokensInv'
<1> SUFFICES ASSUME DOMAIN tokens = Tokens PROVE TokensInv'
  BY DEF TokensInv
<1>0. ASSUME OneByOne' PROVE OneByOne /\ TokenRows /\ TokenJob(w)
  BY <1>0 DEF Acts, OneByOne, TokensInv
<1> USE BeginActs, AtOnceActs, ContinueActs, FinishActs, Busy
<1> USE DEF accountVars, JobsShape, Doing
<1>1. ASSUME NEW p \in People, Register(w, p) PROVE TokensInv'
  BY <1>1, TokensUntouched DEF Register, Idle
<1>2. ASSUME NEW p, SessionStarts(p), UNCHANGED closed, job'[w] = Idle PROVE TokensInv'
  <2>1. DOMAIN tokens' = Tokens BY <1>2 DEF SessionStarts
  <2> QED BY <1>0, <1>2, <2>1, SessionStartsWell, TokensBy DEF TokenJob, Idle
<1>3. ASSUME NEW p \in People, Login(w, p) PROVE TokensInv'
  BY <1>2, <1>3 DEF Login
<1>4. ASSUME NEW p \in People, OAuthLogin(w, p) PROVE TokensInv'
  <2>1. CASE Exists(users, p)
    BY <1>2, <1>4, <2>1 DEF OAuthLogin
  <2>2. CASE ~Exists(users, p)
    BY <1>4, <2>2, TokensUntouched DEF OAuthLogin, Begin
  <2> QED BY <2>1, <2>2
<1>5. ASSUME NEW p \in People, ForgotPassword(w, p) PROVE TokensInv'
  BY <1>5, TokensUntouched DEF ForgotPassword, Idle
<1>6. ASSUME NEW p \in People, DeleteUser(w, p) PROVE TokensInv'
  <2>1. /\ DOMAIN tokens' = Tokens /\ job'[w] = Idle
        /\ \A t \in Tokens : tokens'[t] = IF Exists(tokens, t) /\ tokens[t].user = p THEN Absent ELSE tokens[t]
        /\ closed' = {t \in closed : tokens'[t] # Absent}
    BY <1>6 DEF DeleteUser
  <2>2. \A t \in Tokens : Exists(tokens', t) => Exists(tokens, t) /\ tokens'[t] = tokens[t] /\ tokens[t].user # p
    BY <2>1 DEF Exists
  <2>3. \A t \in Tokens : Exists(tokens, t) /\ tokens[t].user # p => Exists(tokens', t) /\ tokens'[t] = tokens[t]
    BY <2>1 DEF Exists
  <2>4. ASSUME OneByOne' PROVE TokenRows'
    <3>1. TokenRows BY <1>0, <2>4
    <3>2. \A t \in closed' : t \in Tokens /\ Exists(tokens', t) /\ t \in closed
      BY <2>1, <3>1 DEF TokenRows, Exists
    <3>3. ASSUME NEW t \in Tokens, Exists(tokens', t)
          PROVE  /\ TokenShape(tokens'[t])
                 /\ Exists(tokens', tokens'[t].session) /\ tokens'[tokens'[t].session].user = tokens'[t].user
      <4>1. tokens'[t] = tokens[t] /\ Exists(tokens, t) /\ tokens[t].user # p
        BY <2>2, <3>3
      <4>2. /\ TokenShape(tokens[t]) /\ tokens[t].session \in Tokens
            /\ Exists(tokens, tokens[t].session) /\ tokens[tokens[t].session].user = tokens[t].user
        BY <3>1, <4>1 DEF TokenRows, TokenShape
      <4> QED BY <2>3, <4>1, <4>2
    <3>4. \A t \in Tokens : Live(t)' => Live(t) /\ tokens'[t] = tokens[t]
      BY <2>2 DEF Live
    <3> QED BY <3>1, <3>2, <3>3, <3>4 DEF TokenRows
  <2> QED BY <2>1, <2>4, TokensBy DEF TokenJob, Idle
<1>7. ASSUME NEW p \in People, NEW op \in Edits, EditUser(w, op, p) PROVE TokensInv'
  BY <1>7, TokensUntouched DEF EditUser, Begin, Edits
<1>8. ASSUME NEW t \in Tokens, Refresh(w, t) PROVE TokensInv'
  <2>1. UNCHANGED <<tokens, closed>> /\ job'[w] = [op |-> "refresh", at |-> t, row |-> tokens[t]] /\ Live(t)
    BY <1>8 DEF Refresh, Begin, Live
  <2>2. ASSUME OneByOne' PROVE TokenRows' /\ TokenJob(w)'
    BY <1>0, <2>1, <2>2 DEF TokenRows, TokenJob, Live, Exists
  <2> QED BY <2>1, <2>2, TokensBy
<1>9. ASSUME NEW t \in Tokens, Logout(w, t) PROVE TokensInv'
  <2>1. job'[w] = Idle /\ Live(t) BY <1>9 DEF Logout, Live
  <2>2. CASE UNCHANGED <<tokens, closed>>
    BY <2>1, <2>2, TokensUntouched DEF Idle
  <2>3. CASE tokens' = Revoked(t) /\ closed' = closed \cup {tokens[t].session}
    <3>1. DOMAIN tokens' = Tokens BY <2>3 DEF Revoked
    <3>2. ASSUME OneByOne' PROVE TokenRows' /\ TokenJob(w)'
      BY <1>0, <2>1, <2>3, <3>2, TokenRevokedWell DEF TokenJob, Idle
    <3> QED BY <3>1, <3>2, TokensBy
  <2> QED BY <1>9, <2>2, <2>3 DEF Logout
<1>10. ASSUME NEW l \in Links, FollowLink(w, l) PROVE TokensInv'
  BY <1>10, TokensUntouched DEF FollowLink, Begin
<1>11. CASE OAuthTenant(w)
  BY <1>11, TokensUntouched DEF OAuthTenant
<1>12. CASE OAuthBusiness(w)
  BY <1>12, TokensUntouched DEF OAuthBusiness
<1>13. CASE OAuthRates(w)
  BY <1>13, TokensUntouched DEF OAuthRates
<1>14. CASE OAuthMember(w)
  BY <1>2, <1>14 DEF OAuthMember
<1>15. CASE TokenRevoked(w)
  <2>1. /\ tokens' = Revoked(job[w].at) /\ UNCHANGED closed
        /\ Continue(w, [job[w] EXCEPT !.op = "refreshed"]) /\ Doing(w, "refresh")
    BY <1>15 DEF TokenRevoked
  <2>2. DOMAIN tokens' = Tokens BY <2>1 DEF Revoked
  <2>3. ASSUME OneByOne' PROVE TokenRows' /\ TokenJob(w)'
    <3> DEFINE t == job[w].at
    <3>1. TokenRows /\ t \in Tokens /\ Live(t) /\ job[w].row = tokens[t] /\ DOMAIN job[w] = {"op", "at", "row"}
      BY <1>0, <2>1, <2>3 DEF TokenJob
    <3>2. job'[w].op = "refreshed" /\ job'[w].row = tokens[t]
      BY <2>1, <3>1 DEF Continue
    <3>3. TokenRows' /\ \A u \in Tokens : Live(u)' => tokens'[u].session # tokens[t].session
      <4> HIDE DEF t
      <4> QED BY <2>1, <3>1, TokenRevokedWell DEF t
    <3>4. /\ tokens[t].session \notin closed
          /\ tokens[t].session \in Tokens /\ Exists(tokens, tokens[t].session)
          /\ tokens[tokens[t].session].user = tokens[t].user
      BY <3>1 DEF TokenRows, TokenShape, Live
    <3>5. Exists(tokens', tokens[t].session) /\ tokens'[tokens[t].session].user = tokens[t].user
      <4> HIDE DEF t
      <4>1. CASE tokens[t].session = t
        BY <2>1, <3>1, <4>1 DEF Revoked, Live, Exists, Absent, TokenRows, TokenShape, t
      <4>2. CASE tokens[t].session # t
        BY <2>1, <3>1, <3>4, <4>2 DEF Revoked, Live, Exists, t
      <4> QED BY <4>1, <4>2
    <3>6. job'[w].row.session = tokens[t].session /\ job'[w].row.user = tokens[t].user /\ ~Doing(w, "refresh")'
      BY <3>2
    <3>7. Unused(job[w].row.session)'
      BY <2>1, <3>3, <3>4, <3>6 DEF Unused
    <3> HIDE DEF t
    <3> QED BY <3>3, <3>4, <3>5, <3>6, <3>7 DEF TokenJob
  <2> QED BY <2>2, <2>3, TokensBy
<1>16. CASE TokenReplaced(w)
  <2> DEFINE n == Fresh(tokens)
             row == job[w].row
  <2>1. /\ tokens' = [tokens EXCEPT ![n] = Token(row.user, row.session)] /\ UNCHANGED closed
        /\ job'[w] = Idle /\ Doing(w, "refreshed")
    BY <1>16 DEF TokenReplaced
  <2>2. n \in Tokens /\ ~Exists(tokens, n)
    BY <1>16, FreshRow DEF TokenReplaced
  <2>3. ASSUME OneByOne' PROVE TokenRows'
    <3>1. /\ TokenRows /\ row.session \in Tokens /\ Exists(tokens, row.session)
          /\ tokens[row.session].user = row.user /\ Unused(row.session)
      BY <1>0, <2>1, <2>3 DEF TokenJob
    <3> HIDE DEF n, row
    <3> QED BY <2>1, <2>2, <3>1, TokenWritten
  <2>4. DOMAIN tokens' = Tokens BY <2>1
  <2> QED BY <2>1, <2>3, <2>4, TokensBy DEF TokenJob, Idle
<1>17. CASE UserWritten(w)
  BY <1>17, TokensUntouched DEF UserWritten
<1>18. CASE LinkSpent(w)
  BY <1>18, TokensUntouched DEF LinkSpent, Idle
<1>19. CASE UserSaved(w)
  BY <1>19, TokensUntouched DEF UserSaved, Edits, Idle
<1>20. ASSUME NEW p \in People,
              (\E op \in Lockings : LockTenant(w, op, p)) \/ ExpireFreeTrial(w, p) \/ PaySubscription(w, p)
       PROVE  TokensInv'
  BY <1>20, TokensUntouched
        DEF LockTenant, ExpireFreeTrial, PaySubscription, Begin, Lockings, Idle
<1>21. CASE SubscriptionSaved(w) \/ UsersLocked(w)
  BY <1>21, TokensUntouched DEF SubscriptionSaved, UsersLocked, Lockings, Idle
<1>22. CASE MembersLocked(w)
  BY <1>22, TokensUntouched DEF MembersLocked, Idle
<1> QED
  BY <1>1, <1>3, <1>4, <1>5, <1>6, <1>7, <1>8, <1>9, <1>10, <1>11, <1>12, <1>13, <1>14, <1>15, <1>16, <1>17, <1>18,
     <1>19, <1>20, <1>21, <1>22 DEF AccountsNext

LEMMA TokensStep ==
  ASSUME JobsAssumption, JobsShape, TokensInv, [OfficeNext]_officeVars
  PROVE  TokensInv'
<1>1. CASE UNCHANGED officeVars
  BY <1>1 DEF officeVars, jobVars, accountVars, TokensInv, TokenRows, TokenJob, Unused, Live, Doing, OneByOne, Exists
<1>2. ASSUME NEW w \in Serving, UNCHANGED accountVars,
             Goes(w, WorkspaceOps) \/ Goes(w, MemberOps) \/ Fails(w)
      PROVE  TokensInv'
  <2>1. Acts(w) /\ job'[w].op \notin {"refresh", "refreshed"} /\ UNCHANGED <<tokens, closed>>
    BY <1>2 DEF Goes, Fails, Idle, WorkspaceOps, MemberOps, accountVars
  <2> QED BY <2>1, ServingWork, TokensUntouched
<1>3. ASSUME NEW w \in Serving, AccountsNext(w), Goes(w, AccountOps) PROVE TokensInv'
  BY <1>3, ServingWork, AccountsKeepTokens DEF Goes
<1> QED BY <1>1, <1>2, <1>3, OfficeStep

(* LoggedOutStaysOut, for any number of accounts, sessions and handlers: a
   refresh cut off between its three statements leaves a session without a
   live token, never with two, and none comes back after a logout that was
   sent the token. *)
THEOREM LoggedOutAlways == ASSUME JobsAssumption PROVE OfficeSpec => []LoggedOutStaysOut
<1>1. Init => JobsShape /\ TokensInv
  <2> SUFFICES ASSUME Init PROVE TokensInv
    BY ShapeInit
  <2>1. \A w \in Workers : TokenJob(w)
    BY DEF Init, JobsInit, TokenJob, Doing, Idle
  <2> QED BY <2>1 DEF Init, AccountsInit, TokensInv, TokenRows, Live, Exists
<1>2. JobsShape /\ TokensInv /\ [OfficeNext]_officeVars => (JobsShape /\ TokensInv)'
  BY ShapeStays, TokensStep
<1>3. TokensInv => LoggedOutStaysOut
  BY DEF TokensInv, TokenRows, LoggedOutStaysOut, Apart, OneByOne, Rows, Live
<1> QED BY <1>1, <1>2, <1>3, PTL DEF OfficeSpec

----
(* Suspensions: while handlers run one by one, what a handler holds of a
   user is still the row, but for what it has come to change. *)
UserShape(row) == DOMAIN row = {"status", "role", "suspended", "verified"} /\ row.status = "HERE"
UserRows ==
  /\ \A p \in People : Exists(users, p) => UserShape(users[p])
  /\ \A p \in barred : p \in People /\ Exists(users, p) /\ users[p].suspended
UserJob(w) ==
  LET p == job[w].user
      row == job[w].row
  IN /\ Doing(w, "follow") /\ p \in People => Exists(users, p) /\ row = users[p]
     /\ job[w].op \in Edits =>
          /\ p \in People /\ Exists(users, p) /\ UserShape(row)
          /\ Doing(w, "suspendUser") => row.suspended
          /\ job[w].op \notin {"suspendUser", "activateUser"} => (users[p].suspended => row.suspended)
UsersInv ==
  /\ DOMAIN users = People
  /\ OneByOne => UserRows /\ \A w \in Workers : UserJob(w)

LEMMA UsersBy ==
  ASSUME JobsShape, NEW w \in Workers, Acts(w), DOMAIN users' = People, OneByOne' => UserRows' /\ UserJob(w)'
  PROVE  UsersInv'
<1>1. ASSUME OneByOne', NEW v \in Workers PROVE UserJob(v)'
  <2>1. CASE v = w
    BY <1>1, <2>1
  <2>2. CASE v # w
    BY <1>1, <2>2 DEF Acts, UserJob, Doing, Free, Idle, Edits
  <2> QED BY <2>1, <2>2
<1> QED BY <1>1 DEF UsersInv

LEMMA UsersUntouched ==
  ASSUME JobsShape, UsersInv, NEW w \in Workers, Acts(w), UNCHANGED <<users, barred>>,
         job'[w].op \notin {"follow"} \cup Edits
  PROVE  UsersInv'
<1>1. ASSUME OneByOne' PROVE UserRows' /\ UserJob(w)'
  <2>1. OneByOne BY <1>1 DEF Acts, OneByOne
  <2> QED BY <1>1, <2>1 DEF UsersInv, UserRows, UserJob, Doing, Exists
<1> QED BY <1>1, UsersBy DEF UsersInv

(* A statement that matches no row. *)
LEMMA NobodyWritten ==
  ASSUME UserRows, UNCHANGED barred, \A p \in People : users'[p] = users[p]
  PROVE  UserRows'
BY DEF UserRows, Exists

(* One row is written, and as suspended as it was; or the user is new. *)
LEMMA UserWrittenWell ==
  ASSUME DOMAIN users = People, UserRows, UNCHANGED barred, NEW p \in People, NEW row, UserShape(row),
         users' = [users EXCEPT ![p] = row],
         Exists(users, p) => (users[p].suspended => row.suspended)
  PROVE  UserRows'
<1>1. row # Absent BY DEF UserShape, Absent
<1> QED BY <1>1 DEF UserRows, Exists

LEMMA NewUserWell ==
  ASSUME NEW role
  PROVE  UserShape(User(role)) /\ UserShape([User(role) EXCEPT !.verified = TRUE])
BY DEF User, UserShape

LEMMA MembersKeepUsers ==
  ASSUME JobsShape, UsersInv, NEW w \in Workers, MembersNext(w), Goes(w, MemberOps), UNCHANGED accountVars
  PROVE  UsersInv'
<1> SUFFICES ASSUME DOMAIN users = People PROVE UsersInv'
  BY DEF UsersInv
<1>0. Acts(w) /\ job'[w].op \notin {"follow"} \cup Edits /\ UNCHANGED barred
  BY DEF Goes, MemberOps, Edits, accountVars
<1>1. ASSUME OneByOne' PROVE UserRows
  BY <1>0, <1>1 DEF Acts, OneByOne, UsersInv
<1>2. ASSUME UNCHANGED users PROVE UsersInv'
  BY <1>0, <1>2, UsersUntouched
<1>3. ASSUME DOMAIN users' = People, OneByOne' => UserRows' PROVE UsersInv'
  BY <1>0, <1>3, UsersBy DEF UserJob, Doing
<1>4. ASSUME NEW b \in Businesses, NEW p \in People,
             \/ AddMember(w, b, p) \/ RemoveMember(w, b, p)
             \/ ChangeRole(w, b, p) \/ ChangePermissions(w, b, p) \/ SendInvitation(w, b, p)
      PROVE  UsersInv'
  BY <1>2, <1>4 DEF AddMember, RemoveMember, ChangeRole, ChangePermissions, SendInvitation, memberVars
<1>5. ASSUME NEW p \in People, CreateBusiness(w, p) PROVE UsersInv'
  BY <1>2, <1>5 DEF CreateBusiness, memberVars
<1>6. ASSUME NEW b \in Businesses, DeleteBusiness(w, b) \/ CreateTaxRate(w, b) PROVE UsersInv'
  BY <1>2, <1>6 DEF DeleteBusiness, CreateTaxRate
<1>7. ASSUME NEW r \in Rates, DeleteTaxRate(w, r) \/ \E b \in Businesses : UpdateTaxRate(w, b, r) PROVE UsersInv'
  BY <1>2, <1>7 DEF UpdateTaxRate, DeleteTaxRate
<1>8. ASSUME NEW i \in Invitations,
             \/ InvitationAges(w, i) \/ LookAtInvitation(w, i) \/ CancelInvitation(w, i)
             \/ AcceptWithRegistration(w, i) \/ RejectInvitation(w, i)
      PROVE  UsersInv'
  BY <1>2, <1>8 DEF InvitationAges, LookAtInvitation, CancelInvitation, AcceptWithRegistration, RejectInvitation,
                    memberVars
<1>9. CASE UserRoleUpdated(w)
  <2> DEFINE p == job[w].user
             role == job[w].role
  <2>1. users' = IF Exists(users, p) THEN [users EXCEPT ![p].role = role] ELSE users
    BY <1>9 DEF UserRoleUpdated
  <2> HIDE DEF p, role
  <2>2. DOMAIN users' = People BY <2>1
  <2>3. CASE Exists(users, p) /\ p \in People
    <3>1. users' = [users EXCEPT ![p] = [users[p] EXCEPT !.role = role]]
      BY <2>1, <2>3
    <3>2. ASSUME OneByOne' PROVE UserRows'
      <4>1. UserShape([users[p] EXCEPT !.role = role])
            /\ [users[p] EXCEPT !.role = role].suspended = users[p].suspended
        BY <1>1, <2>3, <3>2 DEF UserRows, UserShape
      <4> QED BY <1>0, <1>1, <2>3, <3>1, <3>2, <4>1, UserWrittenWell
    <3> QED BY <1>3, <2>2, <3>2
  <2>4. CASE ~(Exists(users, p) /\ p \in People)
    <3>1. \A x \in People : users'[x] = users[x]
      BY <2>1, <2>4
    <3> QED BY <1>0, <1>1, <1>3, <2>2, <3>1, NobodyWritten
  <2> QED BY <2>3, <2>4
<1>10. CASE InvitedUserSaved(w)
  <2> DEFINE p == job[w].row.email
             row == [User(job[w].row.role) EXCEPT !.verified = TRUE]
  <2>1. users' = [users EXCEPT ![p] = row] /\ ~Exists(users, p) /\ UserShape(row)
    BY <1>10, NewUserWell DEF InvitedUserSaved
  <2> HIDE DEF p, row
  <2>2. DOMAIN users' = People BY <2>1
  <2>3. CASE p \in People
    BY <1>0, <1>1, <1>3, <2>1, <2>2, <2>3, UserWrittenWell
  <2>4. CASE p \notin People
    <3>1. \A x \in People : users'[x] = users[x]
      BY <2>1, <2>4
    <3> QED BY <1>0, <1>1, <1>3, <2>2, <3>1, NobodyWritten
  <2> QED BY <2>3, <2>4
<1>11. CASE RoleSaved(w) \/ PermissionsSaved(w) \/ SeedPermissions(w) \/ SeededOne(w) \/ SeedEnds(w)
  BY <1>2, <1>11 DEF RoleSaved, PermissionsSaved, SeedPermissions, SeededOne, SeedEnds, memberVars
<1>12. CASE InvitationSaved(w) \/ CleanupExpired(w) \/ MemberJoins(w) \/ JoinRefused(w) \/ AnswerSaved(w)
  BY <1>2, <1>12 DEF InvitationSaved, CleanupExpired, MemberJoins, JoinRefused, AnswerSaved, memberVars
<1>13. CASE BusinessSaved(w) \/ FounderJoins(w) \/ TaxRateSaved(w) \/ TaxRateUpdated(w)
  BY <1>2, <1>13 DEF BusinessSaved, FounderJoins, TaxRateSaved, TaxRateUpdated
<1> QED BY <1>4, <1>5, <1>6, <1>7, <1>8, <1>9, <1>10, <1>11, <1>12, <1>13 DEF MembersNext

LEMMA EditedWell ==
  ASSUME NEW op \in Edits, NEW row, UserShape(row), NEW new \in Edited(op, row)
  PROVE  /\ UserShape(new)
         /\ op = "suspendUser" => new.suspended
         /\ op \notin {"suspendUser", "activateUser"} => (row.suspended => new.suspended)
<1>1. CASE op = "suspendUser"
  BY <1>1 DEF Edited, UserShape
<1>2. CASE op = "activateUser"
  BY <1>2 DEF Edited, UserShape
<1>3. CASE op = "updateRole"
  BY <1>3 DEF Edited, UserShape
<1>4. CASE op = "updateProfile"
  BY <1>4 DEF Edited, UserShape
<1>5. CASE op = "changeEmail"
  BY <1>5 DEF Edited, UserShape
<1> QED BY <1>1, <1>2, <1>3, <1>4, <1>5 DEF Edits

LEMMA AccountsKeepUsers ==
  ASSUME JobsShape, UsersInv, NEW w \in Workers, AccountsNext(w), Acts(w)
  PROVE  UsersInv'
<1> SUFFICES ASSUME DOMAIN users = People PROVE UsersInv'
  BY DEF UsersInv
<1>0. ASSUME OneByOne' PROVE OneByOne /\ UserRows /\ UserJob(w)
  BY <1>0 DEF Acts, OneByOne, UsersInv
<1> USE BeginActs, AtOnceActs, ContinueActs, FinishActs, Busy
<1> USE DEF Edits, Doing, accountVars, JobsShape
<1>1. ASSUME NEW p \in People, NEW row, UserShape(row), users' = [users EXCEPT ![p] = row], UNCHANGED barred,
             OneByOne' /\ Exists(users, p) => (users[p].suspended => row.suspended),
             job'[w].op \notin {"follow"} \cup Edits
      PROVE  UsersInv'
  BY <1>0, <1>1, UserWrittenWell, UsersBy DEF UserJob
<1>2. ASSUME NEW p \in People, Register(w, p) PROVE UsersInv'
  <2>1. users' = [users EXCEPT ![p] = User("BUSINESS_OWNER")] /\ ~Exists(users, p) /\ UNCHANGED barred
        /\ job'[w] = Idle
    BY <1>2 DEF Register
  <2>2. UserShape(User("BUSINESS_OWNER")) BY NewUserWell
  <2>3. job'[w].op \notin {"follow"} \cup Edits
    BY <2>1 DEF Idle
  <2> QED BY <1>1, <2>1, <2>2, <2>3
<1>3. ASSUME NEW p \in People, Login(w, p) \/ ForgotPassword(w, p) PROVE UsersInv'
  BY <1>3, UsersUntouched DEF Login, ForgotPassword, memberVars, Idle
<1>4. ASSUME NEW p \in People, OAuthLogin(w, p) PROVE UsersInv'
  <2>1. CASE Exists(users, p)
    BY <1>4, <2>1, UsersUntouched DEF OAuthLogin, Idle
  <2>2. CASE ~Exists(users, p)
    <3>1. /\ users' = [users EXCEPT ![p] = [User("BUSINESS_OWNER") EXCEPT !.verified = TRUE]]
          /\ UNCHANGED barred /\ job'[w].op = "oauth"
      BY <1>4, <2>2 DEF OAuthLogin, Begin
    <3> QED BY <1>1, <2>2, <3>1, NewUserWell
  <2> QED BY <2>1, <2>2
<1>5. ASSUME NEW p \in People, DeleteUser(w, p) PROVE UsersInv'
  <2>1. users' = [users EXCEPT ![p] = Absent] /\ barred' = barred \ {p} /\ job'[w] = Idle
    BY <1>5 DEF DeleteUser
  <2>2. ASSUME OneByOne' PROVE UserRows'
    BY <1>0, <2>1, <2>2 DEF UserRows, Exists
  <2> QED BY <2>1, <2>2, UsersBy DEF UserJob, Idle
<1>6. ASSUME NEW p \in People, NEW op \in Edits, EditUser(w, op, p) PROVE UsersInv'
  <2>1. PICK row \in Edited(op, users[p]) : job'[w] = [op |-> op, user |-> p, row |-> row]
    BY <1>6 DEF EditUser, Begin
  <2>2. UNCHANGED <<users, barred>> /\ Exists(users, p)
    BY <1>6 DEF EditUser, memberVars
  <2>3. ASSUME OneByOne' PROVE UserRows' /\ UserJob(w)'
    <3>1. UserRows /\ UserShape(users[p])
      BY <1>0, <2>2, <2>3 DEF UserRows
    <3>2. /\ UserShape(row)
          /\ op = "suspendUser" => row.suspended
          /\ op \notin {"suspendUser", "activateUser"} => (users[p].suspended => row.suspended)
      BY <2>1, <3>1, EditedWell
    <3> QED BY <2>1, <2>2, <3>1, <3>2 DEF UserRows, UserJob, Exists
  <2> QED BY <2>2, <2>3, UsersBy
<1>7. ASSUME NEW t \in Tokens, Refresh(w, t) \/ Logout(w, t) PROVE UsersInv'
  BY <1>7, UsersUntouched DEF Refresh, Logout, memberVars, Begin, Idle
<1>8. ASSUME NEW l \in Links, FollowLink(w, l) PROVE UsersInv'
  <2>1. job'[w] = [op |-> "follow", at |-> l, type |-> links[l].type, user |-> links[l].user,
                   row |-> users[links[l].user]]
    BY <1>8 DEF FollowLink, Begin
  <2>2. UNCHANGED <<users, barred>> /\ Exists(users, links[l].user)
    BY <1>8 DEF FollowLink, memberVars
  <2>3. ASSUME OneByOne' PROVE UserRows' /\ UserJob(w)'
    BY <1>0, <2>1, <2>2, <2>3 DEF UserRows, UserJob, Exists
  <2> QED BY <2>2, <2>3, UsersBy
<1>9. CASE OAuthTenant(w)
  BY <1>9, UsersUntouched DEF OAuthTenant
<1>10. CASE OAuthBusiness(w)
  BY <1>10, UsersUntouched DEF OAuthBusiness
<1>11. CASE OAuthRates(w)
  BY <1>11, UsersUntouched DEF OAuthRates
<1>12. CASE OAuthMember(w)
  BY <1>12, UsersUntouched DEF OAuthMember, Idle
<1>13. CASE TokenRevoked(w)
  BY <1>13, UsersUntouched DEF TokenRevoked, memberVars
<1>14. CASE TokenReplaced(w) \/ LinkSpent(w)
  BY <1>14, UsersUntouched DEF TokenReplaced, LinkSpent, memberVars, Idle
<1>15. CASE UserWritten(w)
  <2> DEFINE p == job[w].user
  <2>1. /\ users' = IF Exists(users, p) THEN VerifiedOrReset(w) ELSE users
        /\ UNCHANGED barred /\ job'[w].op = "spend" /\ Doing(w, "follow")
    BY <1>15 DEF UserWritten
  <2>2. DOMAIN users' = People BY <2>1 DEF VerifiedOrReset
  <2>3. ASSUME OneByOne', p \notin People PROVE UserRows'
    <3>1. \A x \in People : users'[x] = users[x]
      BY <2>1, <2>3 DEF VerifiedOrReset
    <3> QED BY <1>0, <2>1, <2>3, <3>1, NobodyWritten
  <2>4. ASSUME OneByOne', p \in People PROVE UserRows'
    <3>1. UserRows /\ p \in People /\ Exists(users, p) /\ job[w].row = users[p] /\ UserShape(users[p])
      BY <1>0, <2>1, <2>4 DEF UserJob, UserRows
    <3>2. \/ users' = [users EXCEPT ![p] = users[p]]
          \/ users' = [users EXCEPT ![p] = [users[p] EXCEPT !.verified = TRUE]]
      BY <2>1, <3>1 DEF VerifiedOrReset
    <3>3. UserShape([users[p] EXCEPT !.verified = TRUE])
          /\ [users[p] EXCEPT !.verified = TRUE].suspended = users[p].suspended
      BY <3>1 DEF UserShape
    <3> HIDE DEF p
    <3> QED BY <2>1, <3>1, <3>2, <3>3, UserWrittenWell
  <2> QED BY <2>1, <2>2, <2>3, <2>4, UsersBy DEF UserJob
<1>16. CASE UserSaved(w)
  <2> DEFINE p == job[w].user
             row == job[w].row
  <2>1. /\ job[w].op \in Edits /\ users' = [users EXCEPT ![p] = row] /\ job'[w] = Idle
        /\ Doing(w, "suspendUser") => barred' = barred \cup {p}
        /\ Doing(w, "activateUser") => barred' = barred \ {p}
        /\ job[w].op \notin {"suspendUser", "activateUser"} => barred' = barred
    BY <1>16 DEF UserSaved, Idle
  <2>2. ASSUME OneByOne' PROVE UserRows'
    <3>1. /\ UserRows /\ p \in People /\ Exists(users, p) /\ UserShape(row)
          /\ Doing(w, "suspendUser") => row.suspended
          /\ job[w].op \notin {"suspendUser", "activateUser"} => (users[p].suspended => row.suspended)
      BY <1>0, <2>1, <2>2 DEF UserJob
    <3>2. row # Absent BY <3>1 DEF UserShape, Absent
    <3> HIDE DEF p, row
    <3>3. \A x \in People \ {p} : users'[x] = users[x]
      BY <2>1
    <3>4. users'[p] = row BY <2>1, <3>1
    <3>5. \A x \in barred' \ {p} : x \in barred BY <2>1
    <3>6. p \in barred' => row.suspended
      BY <2>1, <3>1 DEF UserRows
    <3> QED BY <3>1, <3>2, <3>3, <3>4, <3>5, <3>6 DEF UserRows, Exists
  <2>3. DOMAIN users' = People BY <2>1
  <2> QED BY <2>1, <2>2, <2>3, UsersBy DEF UserJob, Idle
<1>17. ASSUME NEW p \in People,
              (\E op \in Lockings : LockTenant(w, op, p)) \/ ExpireFreeTrial(w, p) \/ PaySubscription(w, p)
       PROVE  UsersInv'
  BY <1>17, UsersUntouched
        DEF LockTenant, ExpireFreeTrial, PaySubscription, memberVars, Begin, Lockings, Idle
<1>18. CASE SubscriptionSaved(w)
  BY <1>18, UsersUntouched DEF SubscriptionSaved, Lockings
<1>19. CASE MembersLocked(w)
  BY <1>19, UsersUntouched DEF MembersLocked, Idle
<1>20. CASE UsersLocked(w)
  <2> DEFINE inside == Rows(users) \cap job[w].users
             in == LetsIn(job[w].by)
  <2>1. /\ users' = [x \in People |-> IF x \in inside THEN [users[x] EXCEPT !.suspended = ~in] ELSE users[x]]
        /\ barred' = IF in THEN barred \ inside ELSE barred \cup inside
        /\ job'[w] = Idle
    BY <1>20 DEF UsersLocked
  <2>2. inside \subseteq People /\ \A x \in inside : Exists(users, x)
    BY DEF Rows
  <2> HIDE DEF inside, in
  <2>3. ASSUME OneByOne' PROVE UserRows'
    <3>1. ASSUME NEW x \in inside PROVE UserShape(users'[x]) /\ (~in => users'[x].suspended) /\ users'[x] # Absent
      BY <1>0, <2>1, <2>2, <2>3, <3>1 DEF UserRows, UserShape, Absent
    <3>2. \A x \in People \ inside : users'[x] = users[x]
      BY <2>1
    <3> QED BY <1>0, <2>1, <2>2, <2>3, <3>1, <3>2 DEF UserRows, Exists
  <2>4. DOMAIN users' = People /\ UserJob(w)'
    BY <2>1 DEF UserJob, Idle
  <2> QED BY <1>0, <2>3, <2>4, UsersBy
<1> QED
  BY <1>2, <1>3, <1>4, <1>5, <1>6, <1>7, <1>8, <1>9, <1>10, <1>11, <1>12, <1>13, <1>14, <1>15, <1>16, <1>17, <1>18,
     <1>19, <1>20 DEF AccountsNext

LEMMA UsersStep ==
  ASSUME JobsAssumption, JobsShape, UsersInv, [OfficeNext]_officeVars
  PROVE  UsersInv'
<1>1. CASE UNCHANGED officeVars
  BY <1>1 DEF officeVars, jobVars, memberVars, accountVars, UsersInv, UserRows, UserJob, Doing, OneByOne, Exists
<1>2. ASSUME NEW w \in Serving, UNCHANGED <<memberVars, accountVars>>, Goes(w, WorkspaceOps) \/ Fails(w)
      PROVE  UsersInv'
  <2>1. Acts(w) /\ job'[w].op \notin {"follow"} \cup Edits /\ UNCHANGED <<users, barred>>
    BY <1>2 DEF Goes, Fails, Idle, WorkspaceOps, Edits, memberVars, accountVars
  <2> QED BY <2>1, ServingWork, UsersUntouched
<1>3. ASSUME NEW w \in Serving, AccountsNext(w), Goes(w, AccountOps) PROVE UsersInv'
  BY <1>3, ServingWork, AccountsKeepUsers DEF Goes
<1>4. ASSUME NEW w \in Serving, MembersNext(w), Goes(w, MemberOps), UNCHANGED accountVars PROVE UsersInv'
  BY <1>4, ServingWork, MembersKeepUsers
<1> QED BY <1>1, <1>2, <1>3, <1>4, OfficeStep, WorkspaceLeaves

(* SuspendedStaysSuspended, for any number of users, whatever profiles,
   roles, links and invitations are handled between a suspension, of the
   user or of a tenant he works for, and the activation of either, and
   wherever handlers fail. *)
THEOREM SuspendedAlways == ASSUME JobsAssumption PROVE OfficeSpec => []SuspendedStaysSuspended
<1>1. Init => JobsShape /\ UsersInv
  <2> SUFFICES ASSUME Init PROVE UsersInv
    BY ShapeInit
  <2>1. \A w \in Workers : UserJob(w)
    BY DEF Init, JobsInit, UserJob, Doing, Idle, Edits
  <2>2. MembersInit BY DEF Init
  <2>3. \E p \in People : users = [x \in People |-> IF x = p THEN User("BUSINESS_OWNER") ELSE Absent]
    BY <2>2, ZenonT(30) DEF MembersInit
  <2>4. PICK p \in People : users = [x \in People |-> IF x = p THEN User("BUSINESS_OWNER") ELSE Absent]
    BY <2>3
  <2>5. \A x \in People : Exists(users, x) => users[x] = User("BUSINESS_OWNER")
    BY <2>4 DEF Exists
  <2>6. UserRows
    BY <2>5, NewUserWell DEF UserRows, Init, AccountsInit
  <2> QED BY <2>1, <2>4, <2>6 DEF UsersInv
<1>2. JobsShape /\ UsersInv /\ [OfficeNext]_officeVars => (JobsShape /\ UsersInv)'
  BY ShapeStays, UsersStep
<1>3. UsersInv => SuspendedStaysSuspended
  BY DEF UsersInv, UserRows, SuspendedStaysSuspended, Apart, OneByOne
<1> QED BY <1>1, <1>2, <1>3, PTL DEF OfficeSpec

----
(* Invitations: as long as handlers neither overlap nor fail, an invitation
   that is being answered is still the one the handler read, and between
   the membership and the answer it has given what it will be marked for. *)
Unmarred == marred = {}
InviteShape(row) ==
  /\ DOMAIN row = {"status", "late", "business", "email", "role"}
  /\ row.status \in {"PENDING", "ACCEPTED", "REJECTED", "EXPIRED"}
Accepted(i) == Exists(invitations, i) /\ invitations[i].status = "ACCEPTED"
Owed(w, i) == Doing(w, "answer") /\ job[w].at = i
Gives(i, due) == joined[i] = IF Accepted(i) \/ due THEN 1 ELSE 0
InviteShapes == \A i \in Invitations : Exists(invitations, i) => InviteShape(invitations[i])
InviteJob(w) ==
  LET i == job[w].at
      row == job[w].row
  IN /\ Doing(w, "invite") => InviteShape(row) /\ row.status = "PENDING"
     /\ job[w].op \in {"look", "reject", "accept", "acceptNew", "answer"} =>
          /\ DOMAIN job[w] = {"op", "at", "row"}
          /\ i \in Invitations /\ Pending(i) /\ InviteShape(row)
          /\ row.status = "ACCEPTED" <=> job[w].op \notin {"look", "reject"}
InviteInv ==
  /\ DOMAIN invitations = Invitations /\ DOMAIN joined = Invitations
  /\ Unmarred =>
       /\ InviteShapes
       /\ \A i \in Invitations : Gives(i, \E w \in Workers : Owed(w, i))
       /\ \A w \in Workers : InviteJob(w)

(* The same, as the one worker who is not idle sees it. *)
InviteSeen(w) == InviteShapes /\ InviteJob(w) /\ \A i \in Invitations : Gives(i, Owed(w, i))

LEMMA OnlyOneDue ==
  ASSUME NEW w \in Workers, \A v \in Workers \ {w} : Free(v), NEW i
  PROVE  (\E v \in Workers : Owed(v, i)) <=> Owed(w, i)
BY DEF Owed, Doing, Free, Idle

LEMMA InviteBy ==
  ASSUME JobsShape, InviteInv, NEW w \in Workers, Acts(w),
         DOMAIN invitations' = Invitations, DOMAIN joined' = Invitations,
         Unmarred' /\ Unmarred /\ InviteSeen(w) => InviteSeen(w)'
  PROVE  InviteInv'
<1> SUFFICES ASSUME Unmarred'
             PROVE  (/\ InviteShapes
                     /\ \A i \in Invitations : Gives(i, \E v \in Workers : Owed(v, i))
                     /\ \A v \in Workers : InviteJob(v))'
  BY DEF InviteInv
<1>1. Unmarred /\ OneByOne' /\ \A v \in Workers \ {w} : Free(v) /\ Free(v)'
  BY DEF Unmarred, Acts, OneByOne, Free
<1>2. InviteShapes /\ InviteJob(w) BY <1>1 DEF InviteInv
<1>3. \A i \in Invitations : Gives(i, Owed(w, i))
  BY <1>1, OnlyOneDue DEF InviteInv, Gives
<1>4. InviteSeen(w)' BY <1>1, <1>2, <1>3 DEF InviteSeen
<1>5. \A i \in Invitations : (\E v \in Workers : Owed(v, i))' <=> Owed(w, i)'
  BY <1>1 DEF Owed, Doing, Free, Idle
<1>6. \A i \in Invitations : Gives(i, \E v \in Workers : Owed(v, i))'
  BY <1>4, <1>5 DEF InviteSeen, Gives
<1>7. ASSUME NEW v \in Workers PROVE InviteJob(v)'
  BY <1>1, <1>4 DEF InviteSeen, InviteJob, Doing, Free, Idle
<1> QED BY <1>4, <1>6, <1>7 DEF InviteSeen

InviteOps == {"invite", "look", "reject", "accept", "acceptNew", "answer"}

LEMMA InviteUntouched ==
  ASSUME JobsShape, InviteInv, NEW w \in Workers, Acts(w), UNCHANGED <<invitations, joined>>,
         job[w].op # "answer", job'[w].op \notin InviteOps
  PROVE  InviteInv'
<1>1. InviteSeen(w) => InviteSeen(w)'
  BY DEF InviteSeen, InviteShapes, InviteJob, InviteOps, Gives, Owed, Doing, Exists, Accepted, Pending
<1> QED BY <1>1, InviteBy DEF InviteInv

(* A handler of one statement, or the last statement of one. *)
LEMMA InviteWritten ==
  ASSUME JobsShape, InviteInv, NEW w \in Workers, Acts(w), job'[w].op \notin InviteOps,
         DOMAIN invitations' = Invitations, DOMAIN joined' = Invitations,
         Unmarred /\ InviteSeen(w) =>
           \A i \in Invitations : (Exists(invitations, i) => InviteShape(invitations[i]))' /\ Gives(i, FALSE)'
  PROVE  InviteInv'
<1>1. Unmarred /\ InviteSeen(w) => InviteSeen(w)'
  BY DEF InviteSeen, InviteShapes, InviteJob, InviteOps, Gives, Owed, Doing, Exists, Accepted
<1> QED BY <1>1, InviteBy

LEMMA MembersKeepInvites ==
  ASSUME JobsShape, MembersAssumption, InviteInv, NEW w \in Workers, MembersNext(w), Goes(w, MemberOps)
  PROVE  InviteInv'
<1> SUFFICES ASSUME DOMAIN invitations = Invitations, DOMAIN joined = Invitations PROVE InviteInv'
  BY DEF InviteInv
<1>0. Acts(w) BY DEF Goes
<1> USE BeginActs, AtOnceActs, ContinueActs, FinishActs, Busy, <1>0
<1> USE DEF InviteOps, InviteSeen, InviteShapes, Idle, Doing, JobsShape, Accepted, Gives, Exists, memberVars
<1> DEFINE Kept == UNCHANGED <<invitations, joined>> /\ job[w].op # "answer" /\ job'[w].op \notin InviteOps
<1>1. ASSUME NEW b \in Businesses, NEW p \in People,
             \/ AddMember(w, b, p) \/ RemoveMember(w, b, p) \/ ChangeRole(w, b, p) \/ ChangePermissions(w, b, p)
      PROVE  Kept
  <2>1. CASE AddMember(w, b, p) \/ RemoveMember(w, b, p)
    BY <2>1 DEF AddMember, RemoveMember, Free
  <2>2. CASE ChangeRole(w, b, p)
    BY <2>2 DEF ChangeRole, Begin, Free
  <2>3. CASE ChangePermissions(w, b, p)
    BY <2>3 DEF ChangePermissions, Begin, Free
  <2> QED BY <1>1, <2>1, <2>2, <2>3
<1>2. ASSUME NEW b \in Businesses, NEW p \in People, SendInvitation(w, b, p) PROVE InviteInv'
  <2>1. PICK role : job'[w] = [op |-> "invite", row |-> Invited(b, p, role)]
    BY <1>2 DEF SendInvitation, Begin
  <2>2. UNCHANGED <<invitations, joined>> /\ job[w].op = "idle"
    BY <1>2 DEF SendInvitation, Begin, Free
  <2>3. InviteSeen(w) => InviteSeen(w)'
    BY <2>1, <2>2 DEF InviteShape, Invited, InviteJob, Owed
  <2> QED BY <2>2, <2>3, InviteBy
<1>3. ASSUME NEW p \in People, CreateBusiness(w, p) PROVE Kept
  BY <1>3 DEF CreateBusiness, Begin, Free
<1>4. ASSUME NEW b \in Businesses, DeleteBusiness(w, b) PROVE InviteInv'
  <2>1. /\ job[w] = Idle /\ job'[w] = Idle
        /\ invitations' = [i \in Invitations |-> IF Exists(invitations, i) /\ invitations[i].business = b
                                                 THEN Absent ELSE invitations[i]]
        /\ joined' = [i \in Invitations |-> IF Exists(invitations', i) THEN joined[i] ELSE 0]
    BY <1>4 DEF DeleteBusiness, Free
  <2>2. ASSUME InviteSeen(w), NEW i \in Invitations
        PROVE  (Exists(invitations, i) => InviteShape(invitations[i]))' /\ Gives(i, FALSE)'
    BY <2>1, <2>2 DEF Owed
  <2>3. job'[w].op \notin InviteOps /\ DOMAIN invitations' = Invitations /\ DOMAIN joined' = Invitations
    BY <2>1
  <2> QED BY <2>2, <2>3, InviteWritten
<1>5. ASSUME NEW b \in Businesses, CreateTaxRate(w, b) PROVE Kept
  BY <1>5 DEF CreateTaxRate, Begin, Free
<1>6. ASSUME NEW b \in Businesses, NEW r \in Rates, UpdateTaxRate(w, b, r) PROVE Kept
  BY <1>6 DEF UpdateTaxRate, Begin, Free
<1>7. ASSUME NEW r \in Rates, DeleteTaxRate(w, r) PROVE Kept
  BY <1>7 DEF DeleteTaxRate, Free
<1>8. ASSUME NEW i \in Invitations, InvitationAges(w, i) PROVE InviteInv'
  <2>1. /\ job[w] = Idle /\ job'[w] = Idle /\ Exists(invitations, i)
        /\ invitations' = [invitations EXCEPT ![i] = [invitations[i] EXCEPT !.late = TRUE]] /\ UNCHANGED joined
    BY <1>8 DEF InvitationAges, Free
  <2>2. ASSUME InviteSeen(w), NEW j \in Invitations
        PROVE  (Exists(invitations, j) => InviteShape(invitations[j]))' /\ Gives(j, FALSE)'
    <3>1. InviteShape(invitations[i]) BY <2>1, <2>2
    <3>2. /\ InviteShape([invitations[i] EXCEPT !.late = TRUE])
          /\ [invitations[i] EXCEPT !.late = TRUE].status = invitations[i].status
      BY <3>1 DEF InviteShape
    <3>3. Gives(j, FALSE) /\ (Exists(invitations, j) => InviteShape(invitations[j]))
      BY <2>1, <2>2 DEF Owed
    <3>4. CASE j = i
      <4>1. invitations'[j] = [invitations[i] EXCEPT !.late = TRUE]
        BY <2>1, <3>4
      <4>2. Exists(invitations', j)
        BY <3>2, <4>1 DEF InviteShape, Absent
      <4> QED BY <2>1, <3>2, <3>3, <3>4, <4>1, <4>2
    <3>5. CASE j # i
      <4>1. invitations'[j] = invitations[j] BY <2>1, <3>5
      <4> QED BY <2>1, <3>3, <4>1
    <3> QED BY <3>4, <3>5
  <2>3. job'[w].op \notin InviteOps /\ DOMAIN invitations' = Invitations /\ DOMAIN joined' = Invitations
    BY <2>1
  <2> QED BY <2>2, <2>3, InviteWritten
<1>9. ASSUME NEW i \in Invitations, CancelInvitation(w, i) PROVE InviteInv'
  <2>1. /\ job[w] = Idle /\ job'[w] = Idle
        /\ invitations' = [invitations EXCEPT ![i] = Absent] /\ joined' = [joined EXCEPT ![i] = 0]
    BY <1>9 DEF CancelInvitation, Free
  <2>2. ASSUME InviteSeen(w), NEW j \in Invitations
        PROVE  (Exists(invitations, j) => InviteShape(invitations[j]))' /\ Gives(j, FALSE)'
    BY <2>1, <2>2 DEF Owed
  <2>3. job'[w].op \notin InviteOps /\ DOMAIN invitations' = Invitations /\ DOMAIN joined' = Invitations
    BY <2>1
  <2> QED BY <2>2, <2>3, InviteWritten
<1>10. ASSUME NEW i \in Invitations, NEW op \in {"look", "reject", "acceptNew"}, NEW status,
              status = IF op = "look" THEN "EXPIRED" ELSE IF op = "reject" THEN "REJECTED" ELSE "ACCEPTED",
              job'[w] = [op |-> op, at |-> i, row |-> [invitations[i] EXCEPT !.status = status]],
              Free(w), Pending(i), UNCHANGED memberVars
       PROVE  InviteInv'
  <2>1. UNCHANGED <<invitations, joined>> /\ job[w].op = "idle"
    BY <1>10 DEF Free
  <2>2. ASSUME InviteSeen(w) PROVE InviteSeen(w)'
    <3>1. InviteShape(invitations[i])
      BY <1>10, <2>2 DEF Pending
    <3> DEFINE row == [invitations[i] EXCEPT !.status = status]
    <3>2. InviteShape(row) /\ row.status = status
      BY <1>10, <3>1 DEF InviteShape
    <3>3. job'[w] = [op |-> op, at |-> i, row |-> row] /\ Pending(i)'
      BY <1>10, <2>1 DEF Pending
    <3> HIDE DEF row
    <3>4. DOMAIN job'[w] = {"op", "at", "row"} /\ job'[w].op = op /\ job'[w].at = i /\ job'[w].row = row
      BY <3>3
    <3>5. InviteJob(w)'
      BY <1>10, <3>2, <3>3, <3>4 DEF InviteJob
    <3> QED BY <1>10, <2>1, <2>2, <3>4, <3>5 DEF Owed
  <2> QED BY <2>1, <2>2, InviteBy
<1>11. ASSUME NEW i \in Invitations, LookAtInvitation(w, i) PROVE InviteInv'
  BY <1>10, <1>11 DEF LookAtInvitation, Begin
<1>13. ASSUME NEW i \in Invitations, AcceptWithRegistration(w, i) PROVE InviteInv'
  BY <1>10, <1>13 DEF AcceptWithRegistration, Answer, Answerable, Begin
<1>14. ASSUME NEW i \in Invitations, RejectInvitation(w, i) PROVE InviteInv'
  BY <1>10, <1>14 DEF RejectInvitation, Answer, Answerable, Begin
<1>15. ASSUME RoleSaved(w) PROVE Kept
  BY <1>15 DEF RoleSaved
<1>16. ASSUME UserRoleUpdated(w) \/ PermissionsSaved(w) \/ SeedEnds(w) PROVE Kept
  BY <1>16 DEF UserRoleUpdated, PermissionsSaved, SeedEnds
<1>17. ASSUME SeedPermissions(w) PROVE Kept
  BY <1>17 DEF SeedPermissions, Begin, Free
<1>18. ASSUME SeededOne(w) PROVE Kept
  BY <1>18 DEF SeededOne
<1>19. CASE InvitationSaved(w)
  <2> DEFINE n == Fresh(invitations)
  <2>1. /\ Doing(w, "invite") /\ job'[w] = Idle
        /\ invitations' = [invitations EXCEPT ![n] = job[w].row] /\ UNCHANGED joined
    BY <1>19 DEF InvitationSaved
  <2>2. n \in Invitations /\ ~Exists(invitations, n)
    BY <1>19, FreshRow DEF InvitationSaved
  <2> HIDE DEF n
  <2>3. ASSUME InviteSeen(w), NEW j \in Invitations
        PROVE  (Exists(invitations, j) => InviteShape(invitations[j]))' /\ Gives(j, FALSE)'
    BY <2>1, <2>2, <2>3 DEF InviteJob, Owed
  <2>4. job'[w].op \notin InviteOps /\ DOMAIN invitations' = Invitations /\ DOMAIN joined' = Invitations
    BY <2>1
  <2> QED BY <2>3, <2>4, InviteWritten
<1>20. CASE CleanupExpired(w)
  <2>1. /\ job[w] = Idle /\ job'[w] = Idle
        /\ invitations' = [i \in Invitations |-> IF Pending(i) /\ invitations[i].late
                                                 THEN [invitations[i] EXCEPT !.status = "EXPIRED"]
                                                 ELSE invitations[i]]
        /\ UNCHANGED joined
    BY <1>20 DEF CleanupExpired, Free
  <2>2. ASSUME InviteSeen(w), NEW j \in Invitations
        PROVE  (Exists(invitations, j) => InviteShape(invitations[j]))' /\ Gives(j, FALSE)'
    <3>1. Gives(j, FALSE) /\ (Exists(invitations, j) => InviteShape(invitations[j]))
      BY <2>1, <2>2 DEF Owed
    <3>2. CASE Pending(j) /\ invitations[j].late
      <4>1. invitations'[j] = [invitations[j] EXCEPT !.status = "EXPIRED"] /\ InviteShape(invitations[j])
        BY <2>1, <3>1, <3>2 DEF Pending
      <4>2. InviteShape(invitations'[j]) /\ invitations'[j].status = "EXPIRED"
        BY <4>1 DEF InviteShape
      <4> QED BY <2>1, <3>1, <3>2, <4>2 DEF Pending
    <3>3. CASE ~(Pending(j) /\ invitations[j].late)
      <4>1. invitations'[j] = invitations[j] BY <2>1, <3>3
      <4> QED BY <2>1, <3>1, <4>1
    <3> QED BY <3>2, <3>3
  <2>3. job'[w].op \notin InviteOps /\ DOMAIN invitations' = Invitations /\ DOMAIN joined' = Invitations
    BY <2>1
  <2> QED BY <2>2, <2>3, InviteWritten
<1>21. CASE InvitedUserSaved(w)
  <2>1. /\ Doing(w, "acceptNew") /\ UNCHANGED <<invitations, joined>>
        /\ Continue(w, [job[w] EXCEPT !.op = "accept"])
    BY <1>21 DEF InvitedUserSaved
  <2>2. ASSUME InviteSeen(w) PROVE InviteSeen(w)'
    <3>1. /\ DOMAIN job[w] = {"op", "at", "row"} /\ job[w].at \in Invitations /\ Pending(job[w].at)
          /\ InviteShape(job[w].row) /\ job[w].row.status = "ACCEPTED"
      BY <2>1, <2>2 DEF InviteJob
    <3>2. job'[w] = [job[w] EXCEPT !.op = "accept"]
      BY <2>1 DEF Continue
    <3>3. /\ DOMAIN job'[w] = {"op", "at", "row"} /\ job'[w].op = "accept" /\ job'[w].at = job[w].at
          /\ job'[w].row = job[w].row
      BY <3>1, <3>2
    <3>4. InviteJob(w)'
      BY <2>1, <3>1, <3>3 DEF InviteJob, Pending
    <3> QED BY <2>1, <2>2, <3>3, <3>4 DEF Owed
  <2> QED BY <2>1, <2>2, InviteBy
<1>22. CASE MemberJoins(w)
  <2> DEFINE i == job[w].at
  <2>1. /\ Doing(w, "accept") /\ UNCHANGED invitations
        /\ joined' = [joined EXCEPT ![i] = IF @ < MaxJoined THEN @ + 1 ELSE @]
        /\ Continue(w, [job[w] EXCEPT !.op = "answer"])
    BY <1>22 DEF MemberJoins
  <2>2. ASSUME InviteSeen(w) PROVE InviteSeen(w)'
    <3>1. /\ DOMAIN job[w] = {"op", "at", "row"} /\ i \in Invitations /\ Pending(i)
          /\ InviteShape(job[w].row) /\ job[w].row.status = "ACCEPTED"
      BY <2>1, <2>2 DEF InviteJob
    <3>2. job'[w] = [job[w] EXCEPT !.op = "answer"]
      BY <2>1 DEF Continue
    <3>3. /\ DOMAIN job'[w] = {"op", "at", "row"} /\ job'[w].op = "answer" /\ job'[w].at = i
          /\ job'[w].row = job[w].row
      BY <3>1, <3>2
    <3>4. InviteJob(w)'
      BY <2>1, <3>1, <3>3 DEF InviteJob, Pending
    <3> HIDE DEF i
    <3>5. joined[i] = 0
      BY <2>1, <2>2, <3>1 DEF Owed, Pending
    <3>6. joined'[i] = 1 /\ \A j \in Invitations \ {i} : joined'[j] = joined[j]
      BY <2>1, <3>1, <3>5 DEF MembersAssumption
    <3>7. \A j \in Invitations : Gives(j, Owed(w, j))'
      BY <2>1, <2>2, <3>3, <3>6 DEF Owed
    <3> QED BY <2>1, <2>2, <3>4, <3>7
  <2>3. DOMAIN joined' = Invitations BY <2>1
  <2> QED BY <2>1, <2>2, <2>3, InviteBy
<1>23. ASSUME JoinRefused(w) PROVE Kept
  BY <1>23 DEF JoinRefused
<1>24. CASE AnswerSaved(w)
  <2> DEFINE i == job[w].at
             row == job[w].row
  <2>1. /\ job[w].op \in {"answer", "reject", "look"} /\ job'[w] = Idle
        /\ invitations' = [invitations EXCEPT ![i] = row] /\ UNCHANGED joined
    BY <1>24 DEF AnswerSaved
  <2>2. ASSUME InviteSeen(w), NEW j \in Invitations
        PROVE  (Exists(invitations, j) => InviteShape(invitations[j]))' /\ Gives(j, FALSE)'
    <3>1. /\ i \in Invitations /\ Pending(i) /\ InviteShape(row)
          /\ row.status = "ACCEPTED" <=> job[w].op = "answer"
      BY <2>1, <2>2 DEF InviteJob
    <3>2. Gives(j, Owed(w, j)) /\ (Exists(invitations, j) => InviteShape(invitations[j]))
      BY <2>2
    <3>3. row # Absent BY <3>1 DEF InviteShape, Absent
    <3>4. Owed(w, j) <=> j = i /\ job[w].op = "answer"
      BY DEF Owed
    <3> HIDE DEF i, row
    <3> QED BY <2>1, <3>1, <3>2, <3>3, <3>4 DEF Pending
  <2>3. job'[w].op \notin InviteOps /\ DOMAIN invitations' = Invitations /\ DOMAIN joined' = Invitations
    BY <2>1
  <2> QED BY <2>2, <2>3, InviteWritten
<1>25. ASSUME BusinessSaved(w) PROVE Kept
  BY <1>25 DEF BusinessSaved
<1>26. ASSUME FounderJoins(w) \/ TaxRateSaved(w) \/ TaxRateUpdated(w) PROVE Kept
  BY <1>26 DEF FounderJoins, TaxRateSaved, TaxRateUpdated
<1>27. Kept => InviteInv' BY InviteUntouched
<1> HIDE DEF Kept
<1> QED BY <1>1, <1>2, <1>3, <1>4, <1>5, <1>6, <1>7, <1>8, <1>9, <1>11, <1>13, <1>14, <1>15, <1>16, <1>17, <1>18,
     <1>19, <1>20, <1>21, <1>22, <1>23, <1>24, <1>25, <1>26, <1>27 DEF MembersNext

LEMMA AccountsLeaveInvites ==
  ASSUME NEW w, AccountsNext(w)
  PROVE  UNCHANGED <<invitations, joined>>
<1>1. ASSUME NEW p \in People,
             Register(w, p) \/ Login(w, p) \/ OAuthLogin(w, p) \/ ForgotPassword(w, p) \/ DeleteUser(w, p)
      PROVE  UNCHANGED <<invitations, joined>>
  BY <1>1 DEF Register, Login, OAuthLogin, ForgotPassword, DeleteUser, memberVars
<1>2. ASSUME NEW p \in People, NEW op \in Edits, EditUser(w, op, p) PROVE UNCHANGED <<invitations, joined>>
  BY <1>2 DEF EditUser, memberVars
<1>3. ASSUME NEW t \in Tokens, Refresh(w, t) \/ Logout(w, t) PROVE UNCHANGED <<invitations, joined>>
  BY <1>3 DEF Refresh, Logout, memberVars
<1>4. ASSUME NEW l \in Links, FollowLink(w, l) PROVE UNCHANGED <<invitations, joined>>
  BY <1>4 DEF FollowLink, memberVars
<1>5. CASE OAuthTenant(w) \/ OAuthBusiness(w) \/ OAuthRates(w) \/ OAuthMember(w)
  BY <1>5 DEF OAuthTenant, OAuthBusiness, OAuthRates, OAuthMember
<1>6. CASE TokenRevoked(w) \/ TokenReplaced(w) \/ UserWritten(w) \/ LinkSpent(w) \/ UserSaved(w)
  BY <1>6 DEF TokenRevoked, TokenReplaced, UserWritten, LinkSpent, UserSaved, memberVars
<1>7. ASSUME NEW p \in People,
             (\E op \in Lockings : LockTenant(w, op, p)) \/ ExpireFreeTrial(w, p) \/ PaySubscription(w, p)
      PROVE  UNCHANGED <<invitations, joined>>
  BY <1>7 DEF LockTenant, ExpireFreeTrial, PaySubscription, memberVars
<1>8. CASE SubscriptionSaved(w) \/ MembersLocked(w) \/ UsersLocked(w)
  BY <1>8 DEF SubscriptionSaved, MembersLocked, UsersLocked
<1> QED BY <1>1, <1>2, <1>3, <1>4, <1>5, <1>6, <1>7, <1>8 DEF AccountsNext

LEMMA InviteStep ==
  ASSUME JobsAssumption, MembersAssumption, JobsShape, InviteInv, [OfficeNext]_officeVars
  PROVE  InviteInv'
<1>1. CASE UNCHANGED officeVars
  BY <1>1 DEF officeVars, jobVars, memberVars, InviteInv, InviteShapes, InviteJob, Gives, Owed, Doing, Unmarred,
              Exists, Accepted, Pending
<1>2. ASSUME NEW w \in Serving, UNCHANGED <<invitations, joined>>, Goes(w, WorkspaceOps) \/ Goes(w, AccountOps)
      PROVE  InviteInv'
  <2>1. Acts(w) /\ job[w].op # "answer" /\ job'[w].op \notin InviteOps
    BY <1>2 DEF Goes, WorkspaceOps, AccountOps, Edits, Lockings, InviteOps
  <2> QED BY <1>2, <2>1, ServingWork, InviteUntouched
<1>3. ASSUME NEW w \in Serving, UNCHANGED <<invitations, joined>>, Fails(w) PROVE InviteInv'
  BY <1>3 DEF Fails, InviteInv, Unmarred
<1>4. ASSUME NEW w \in Serving, MembersNext(w), Goes(w, MemberOps) PROVE InviteInv'
  BY <1>4, ServingWork, MembersKeepInvites
<1> QED BY <1>1, <1>2, <1>3, <1>4, OfficeStep, WorkspaceLeaves, AccountsLeaveInvites DEF memberVars

(* InvitationsAccounted, for any number of invitations and whatever else
   is handled between them: the membership and the answer are two commits,
   and only an overlap or a failure comes between them. *)
THEOREM InvitationsAlwaysAccounted ==
  ASSUME JobsAssumption, MembersAssumption PROVE OfficeSpec => []InvitationsAccounted
<1>1. Init => JobsShape /\ InviteInv
  <2> SUFFICES ASSUME Init PROVE InviteInv
    BY ShapeInit
  <2>1. \A w \in Workers : job[w] = Idle
    BY DEF Init, JobsInit
  <2>2. MembersInit BY DEF Init
  <2>3. invitations = [x \in Invitations |-> Absent] /\ joined = [x \in Invitations |-> 0]
    BY <2>2, ZenonT(30) DEF MembersInit
  <2>4. InviteShapes /\ \A i \in Invitations : Gives(i, \E w \in Workers : Owed(w, i))
    BY <2>1, <2>3 DEF InviteShapes, Gives, Owed, Doing, Exists, Accepted, Idle
  <2>5. \A w \in Workers : InviteJob(w)
    BY <2>1 DEF InviteJob, Doing, Idle
  <2> QED BY <2>3, <2>4, <2>5 DEF InviteInv
<1>2. JobsShape /\ InviteInv /\ [OfficeNext]_officeVars => (JobsShape /\ InviteInv)'
  BY ShapeStays, InviteStep
<1>3. InviteInv => InvitationsAccounted
  <2> SUFFICES ASSUME InviteInv, Settled PROVE InvitationsAccounted
    BY DEF InvitationsAccounted
  <2>1. \A i \in Invitations : Gives(i, FALSE)
    BY DEF InviteInv, Settled, Unmarred, AllFree, Free, Gives, Owed, Doing, Idle
  <2> QED BY <2>1 DEF InviteInv, InvitationsAccounted, Rows, Gives, Accepted
<1> QED BY <1>1, <1>2, <1>3, PTL DEF OfficeSpec

----
(* A team: one business, joined by invitation only, whose members are not
   made owners of what they do not own.  Then the role of a membership and
   the role of its user change together, and a handler that has written one
   of them holds the other. *)
Unsettling == {"register", "oauth", "found", "add", "updateRole", "BUSINESS_OWNER"}
Steady == mix \cap Unsettling = {}

teamVars == <<users, tenants, businesses, members, invitations>>

MemberShape(row) ==
  DOMAIN row = {"status", "role", "active", "permissions"} /\ row.status = "HERE"
Joined(b, p) ==
  /\ Exists(businesses, b) /\ Exists(users, p) /\ MemberShape(members[<<b, p>>])
  /\ members[<<b, p>>].role = "BUSINESS_OWNER" => businesses[b].tenant = p
Invites(row) ==
  /\ InviteShape(row) /\ row.role # "BUSINESS_OWNER"
  /\ row.email \in People /\ row.business \in Businesses /\ Exists(businesses, row.business)
TeamRows ==
  /\ DOMAIN businesses = Businesses /\ DOMAIN members = Businesses \X People /\ DOMAIN invitations = Invitations
  /\ \A b, c \in Businesses : Exists(businesses, b) /\ Exists(businesses, c) => b = c
  /\ DOMAIN tenants = People
  /\ \A b \in Businesses : Exists(businesses, b) =>
       businesses[b].tenant \in People /\ Exists(tenants, businesses[b].tenant)
  /\ \A b \in Businesses, p \in People : Exists(members, <<b, p>>) => Joined(b, p)
  /\ \A i \in Invitations : Exists(invitations, i) => Invites(invitations[i])

RoleDue(w, p) == Doing(w, "roleSaved") /\ job[w].user = p
Alike(w) ==
  \A b \in Businesses, p \in People :
    Exists(members, <<b, p>>) => RoleDue(w, p) \/ members[<<b, p>>].role = users[p].role
TeamJob(w) ==
  LET at == job[w].at
      row == job[w].row
      p == job[w].user
  IN /\ job[w].op \in {"changeRole", "changePermissions"} =>
          \E b \in Businesses, x \in People :
            /\ at = <<b, x>> /\ Exists(members, <<b, x>>) /\ MemberShape(row)
            /\ Doing(w, "changeRole") => row.role # "BUSINESS_OWNER"
            /\ Doing(w, "changePermissions") => row.role = members[<<b, x>>].role
     /\ Doing(w, "roleSaved") =>
          /\ p \in People /\ Exists(users, p) /\ job[w].role # "BUSINESS_OWNER"
          /\ \A b \in Businesses : Exists(members, <<b, p>>) => members[<<b, p>>].role = job[w].role
     /\ Doing(w, "seed") =>
          /\ "rows" \in DOMAIN job[w] /\ DOMAIN job[w].rows = Businesses \X People
          /\ \A b \in Businesses, x \in People :
               Exists(job[w].rows, <<b, x>>) => Exists(members, <<b, x>>) /\ job[w].rows[<<b, x>>] = members[<<b, x>>]
     /\ job[w].op \in InviteOps => Invites(row) /\ "row" \in DOMAIN job[w]
     /\ job[w].op \in InviteOps \ {"invite"} => at \in Invitations
     /\ Doing(w, "accept") => Exists(users, row.email) /\ users[row.email].role = row.role
     /\ job[w].op \in Edits => row.role = users[p].role
     /\ job[w].op \notin {"oauth", "oauthBusiness", "oauthRates", "oauthMember", "found", "founded"}
TeamSeen(w) == TeamRows /\ Alike(w) /\ TeamJob(w)
TeamInv ==
  /\ Steady
  /\ Unmarred => \A w \in Workers : Alone(w) => TeamSeen(w)

LEMMA TeamBy ==
  ASSUME JobsShape, UsersInv, TeamInv, NEW w \in Workers, Acts(w),
         Unmarred' /\ Unmarred /\ UserRows /\ UserJob(w) /\ TeamSeen(w) => TeamSeen(w)'
  PROVE  TeamInv'
<1>1. Steady' BY DEF TeamInv, Steady, Acts
<1> SUFFICES ASSUME Unmarred', NEW v \in Workers, Alone(v)' PROVE TeamSeen(v)'
  BY <1>1 DEF TeamInv
<1>2. Unmarred /\ OneByOne /\ OneByOne' /\ Alone(w)
  BY DEF Unmarred, Acts, OneByOne, Alone
<1>3. TeamSeen(w)' BY <1>2 DEF TeamInv, UsersInv
<1>4. CASE v # w
  <2>1. job'[v] = Idle /\ job'[w] = Idle
    BY <1>2, <1>4 DEF Acts, Alone, Free
  <2>2. Alike(w)' => Alike(v)'
    BY <2>1 DEF Alike, RoleDue, Doing
  <2>3. TeamJob(v)'
    BY <2>1 DEF TeamJob, Doing, Idle, InviteOps, Edits
  <2> QED BY <1>3, <2>2, <2>3 DEF TeamSeen
<1> QED BY <1>3, <1>4

(* Nothing is written but the job of the handler. *)
LEMMA TeamRests ==
  ASSUME JobsShape, UsersInv, TeamInv, NEW w \in Workers, Acts(w),
         UNCHANGED teamVars, job[w].op # "roleSaved",
         Unmarred /\ UserRows /\ UserJob(w) /\ TeamSeen(w) => TeamJob(w)'
  PROVE  TeamInv'
<1>1. ASSUME TeamSeen(w) PROVE TeamRows' /\ Alike(w)'
  BY <1>1 DEF teamVars, TeamSeen, TeamRows, Joined, Invites, Alike, RoleDue, Doing, Exists
<1> QED BY <1>1, TeamBy DEF TeamSeen

(* A job that holds nothing of the team. *)
Aside(op) ==
  op \notin InviteOps \cup Edits \cup
    {"changeRole", "changePermissions", "roleSaved", "seed", "oauth", "oauthBusiness", "oauthRates", "oauthMember",
     "found", "founded"}
LEMMA TeamAside ==
  ASSUME JobsShape, UsersInv, TeamInv, NEW w \in Workers, Acts(w),
         UNCHANGED teamVars, job[w].op # "roleSaved",
         Aside(job'[w].op)
  PROVE  TeamInv'
<1>1. TeamJob(w)' BY DEF Aside, TeamJob, Doing, InviteOps
<1> QED BY <1>1, TeamRests

(* The last statement of a handler, or the only one. *)
LEMMA TeamEnds ==
  ASSUME JobsShape, UsersInv, TeamInv, NEW w \in Workers, Acts(w), Aside(job'[w].op),
         Unmarred' /\ Unmarred /\ UserRows /\ UserJob(w) /\ TeamSeen(w) => TeamRows' /\ Alike(w)'
  PROVE  TeamInv'
<1>1. TeamJob(w)' BY DEF Aside, TeamJob, Doing, InviteOps
<1> QED BY <1>1, TeamBy DEF TeamSeen

LEMMA MemberWritten ==
  ASSUME TeamRows, NEW b \in Businesses, NEW p \in People, NEW row, MemberShape(row),
         Exists(businesses, b), Exists(users, p), row.role = "BUSINESS_OWNER" => businesses[b].tenant = p,
         members' = [members EXCEPT ![<<b, p>>] = row],
         UNCHANGED <<users, tenants, businesses, invitations>>
  PROVE  /\ TeamRows'
         /\ members'[<<b, p>>] = row /\ Exists(members', <<b, p>>)
         /\ \A c \in Businesses, x \in People : <<c, x>> # <<b, p>> => members'[<<c, x>>] = members[<<c, x>>]
         /\ \A c \in Businesses : Exists(members', <<c, p>>) => c = b
<1>1. row # Absent BY DEF MemberShape, Absent
<1>2. /\ <<b, p>> \in DOMAIN members
      /\ \A c \in Businesses, x \in People : <<c, x>> \in DOMAIN members
  BY DEF TeamRows
<1>3. /\ members'[<<b, p>>] = row /\ Exists(members', <<b, p>>)
      /\ \A c \in Businesses, x \in People : <<c, x>> # <<b, p>> => members'[<<c, x>>] = members[<<c, x>>]
      /\ DOMAIN members' = Businesses \X People
  BY <1>1, <1>2 DEF TeamRows, Exists
<1>4. ASSUME NEW c \in Businesses, NEW x \in People, Exists(members', <<c, x>>) PROVE Joined(c, x)'
  <2>1. CASE <<c, x>> = <<b, p>>
    BY <1>3, <2>1 DEF Joined, Exists
  <2>2. CASE <<c, x>> # <<b, p>>
    <3>1. members'[<<c, x>>] = members[<<c, x>>] /\ Exists(members, <<c, x>>)
      BY <1>3, <1>4, <2>2 DEF Exists
    <3> QED BY <3>1 DEF TeamRows, Joined, Exists
  <2> QED BY <2>1, <2>2
<1>5. TeamRows' BY <1>3, <1>4 DEF TeamRows, Invites, Exists
<1>6. \A c \in Businesses : Exists(members', <<c, p>>) => c = b
  BY <1>3 DEF TeamRows, Joined, Exists
<1> QED BY <1>3, <1>5, <1>6

LEMMA InvitationWritten ==
  ASSUME TeamRows, NEW i \in Invitations, NEW row, Invites(row), invitations' = [invitations EXCEPT ![i] = row],
         UNCHANGED <<users, tenants, businesses, members>>
  PROVE  TeamRows'
<1>1. Invites(row)' /\ \A j \in Invitations : Exists(invitations', j) => j = i \/ invitations'[j] = invitations[j]
  BY DEF Invites, Exists, TeamRows
<1>2. \A j \in Invitations : Exists(invitations', j) => Invites(invitations'[j])
  BY <1>1 DEF TeamRows, Invites, Exists
<1> QED BY <1>2 DEF TeamRows, Joined, Invites, Exists

LEMMA SameTeam ==
  ASSUME NEW w, Alike(w), job[w].op # "roleSaved", UNCHANGED <<users, businesses, members>>
  PROVE  Alike(w)'
BY DEF Alike, RoleDue, Doing, Exists

LEMMA AnswerInvites ==
  ASSUME NEW row, Invites(row), NEW status \in {"PENDING", "ACCEPTED", "REJECTED", "EXPIRED"}
  PROVE  Invites([row EXCEPT !.status = status]) /\ [row EXCEPT !.status = status].email = row.email
         /\ [row EXCEPT !.status = status].role = row.role
<1>1. DOMAIN row = {"status", "late", "business", "email", "role"}
  BY DEF Invites, InviteShape
<1>2. [row EXCEPT !.status = status]
        = [x \in {"status", "late", "business", "email", "role"} |-> IF x = "status" THEN status ELSE row[x]]
  BY <1>1
<1> QED BY <1>2 DEF Invites, InviteShape

LEMMA RolesKeepTeam ==
  ASSUME JobsShape, UsersInv, TeamInv, NEW w \in Workers, Goes(w, MemberOps), NEW b \in Businesses, NEW p \in People,
         \/ AddMember(w, b, p) \/ RemoveMember(w, b, p)
         \/ ChangeRole(w, b, p) \/ ChangePermissions(w, b, p) \/ SendInvitation(w, b, p)
  PROVE  TeamInv'
<1>0. Acts(w) /\ Steady BY DEF Goes, TeamInv
<1>1. CASE AddMember(w, b, p)
  BY <1>0, <1>1 DEF AddMember, AtOnce, Steady, Unsettling
<1>5. CASE RemoveMember(w, b, p)
  <2>1. /\ job[w] = Idle /\ job'[w] = Idle /\ members' = [members EXCEPT ![<<b, p>>] = Absent]
        /\ UNCHANGED <<users, tenants, businesses, invitations>>
    BY <1>5, AtOnceActs DEF RemoveMember, Free
  <2>2. ASSUME TeamSeen(w) PROVE TeamRows' /\ Alike(w)'
    <3>1. /\ DOMAIN members' = Businesses \X People
          /\ \A c \in Businesses, x \in People :
               Exists(members', <<c, x>>) => Exists(members, <<c, x>>) /\ members'[<<c, x>>] = members[<<c, x>>]
      BY <2>1, <2>2 DEF TeamSeen, TeamRows, Exists
    <3>2. TeamRows'
      BY <2>1, <2>2, <3>1 DEF TeamSeen, TeamRows, Joined, Invites, Exists
    <3>3. Alike(w)'
      BY <2>1, <2>2, <3>1 DEF TeamSeen, Alike, RoleDue, Doing, Idle
    <3> QED BY <3>2, <3>3
  <2> QED BY <1>0, <2>1, <2>2, TeamEnds DEF Aside, Idle, InviteOps, Edits
<1>2. CASE ChangeRole(w, b, p)
  <2>1. PICK role \in MemberRole \cap mix :
          job'[w] = [op |-> "changeRole", at |-> <<b, p>>, row |->
                       [members[<<b, p>>] EXCEPT !.role = role,
                                                 !.permissions = IF role = "BUSINESS_OWNER" THEN Default(role) ELSE @]]
    BY <1>2 DEF ChangeRole, Begin, JobsShape
  <2>2. Exists(members, <<b, p>>) /\ job[w] = Idle /\ UNCHANGED memberVars /\ role # "BUSINESS_OWNER"
    BY <1>0, <1>2 DEF ChangeRole, ActiveMember, Begin, Free, Steady, Unsettling
  <2>3. ASSUME TeamSeen(w) PROVE TeamJob(w)'
    <3>1. MemberShape(members[<<b, p>>])
      BY <2>2, <2>3 DEF TeamSeen, TeamRows, Joined
    <3> DEFINE row == [members[<<b, p>>] EXCEPT !.role = role,
                         !.permissions = IF role = "BUSINESS_OWNER" THEN Default(role) ELSE @]
    <3>2. job'[w] = [op |-> "changeRole", at |-> <<b, p>>, row |-> row] /\ MemberShape(row) /\ row.role = role
      BY <2>1, <3>1 DEF MemberShape
    <3> HIDE DEF row
    <3> QED BY <2>2, <3>2 DEF TeamJob, Doing, InviteOps, Edits, memberVars, Exists
  <2> QED BY <1>0, <2>2, <2>3, TeamRests DEF memberVars, teamVars, Idle
<1>3. CASE ChangePermissions(w, b, p)
  <2>1. PICK table, keys :
          job'[w] = [op |-> "changePermissions", at |-> <<b, p>>,
                     row |-> [members[<<b, p>>] EXCEPT !.permissions[table] = keys]]
    BY <1>3 DEF ChangePermissions, Begin, JobsShape
  <2>2. Exists(members, <<b, p>>) /\ job[w] = Idle /\ UNCHANGED memberVars
    BY <1>3 DEF ChangePermissions, MayChangeKeys, ActiveMember, Begin, Free
  <2>3. ASSUME TeamSeen(w) PROVE TeamJob(w)'
    <3>1. MemberShape(members[<<b, p>>])
      BY <2>2, <2>3 DEF TeamSeen, TeamRows, Joined
    <3>2. PICK row : /\ job'[w] = [op |-> "changePermissions", at |-> <<b, p>>, row |-> row]
                     /\ MemberShape(row) /\ row.role = members[<<b, p>>].role
      BY <2>1, <3>1 DEF MemberShape
    <3> QED BY <2>2, <3>2 DEF TeamJob, Doing, InviteOps, Edits, memberVars, Exists
  <2> QED BY <1>0, <2>2, <2>3, TeamRests DEF memberVars, teamVars, Idle
<1>4. CASE SendInvitation(w, b, p)
  <2>1. PICK role \in InvitedRole : job'[w] = [op |-> "invite", row |-> Invited(b, p, role)]
    BY <1>4 DEF SendInvitation, Begin, JobsShape
  <2>2. Exists(businesses, b) /\ job[w] = Idle /\ UNCHANGED memberVars
    BY <1>4 DEF SendInvitation, ByHeads, Serves, Begin, Free
  <2>3. Invites(Invited(b, p, role))'
    BY <2>2 DEF Invites, Invited, InviteShape, InvitedRole, MemberRole, memberVars, Exists
  <2>4. TeamJob(w)'
    BY <2>1, <2>3 DEF TeamJob, Doing, InviteOps, Edits
  <2> QED BY <1>0, <2>2, <2>4, TeamRests DEF memberVars, teamVars, Idle
<1> QED BY <1>1, <1>2, <1>3, <1>4, <1>5

LEMMA AnswersKeepTeam ==
  ASSUME JobsShape, UsersInv, TeamInv, NEW w \in Workers, Goes(w, MemberOps), NEW i \in Invitations,
         \/ InvitationAges(w, i) \/ LookAtInvitation(w, i) \/ CancelInvitation(w, i)
         \/ AcceptWithRegistration(w, i) \/ RejectInvitation(w, i)
  PROVE  TeamInv'
<1>0. Acts(w) BY DEF Goes
<1>1. CASE InvitationAges(w, i)
  <2>1. /\ job[w] = Idle /\ job'[w] = Idle /\ Exists(invitations, i)
        /\ invitations' = [invitations EXCEPT ![i] = [invitations[i] EXCEPT !.late = TRUE]]
        /\ UNCHANGED <<users, tenants, businesses, members>>
    BY <1>1, AtOnceActs DEF InvitationAges, Free
  <2>2. ASSUME TeamSeen(w) PROVE TeamRows' /\ Alike(w)'
    <3>1. Invites(invitations[i])
      BY <2>1, <2>2 DEF TeamSeen, TeamRows
    <3>2. Invites([invitations[i] EXCEPT !.late = TRUE])
      BY <3>1 DEF Invites, InviteShape
    <3>3. TeamRows'
      BY <2>1, <2>2, <3>2, InvitationWritten DEF TeamSeen
    <3> QED BY <2>1, <2>2, <3>3, SameTeam DEF TeamSeen, Idle
  <2> QED BY <1>0, <2>1, <2>2, TeamEnds DEF Aside, Idle, InviteOps, Edits
<1>2. CASE CancelInvitation(w, i)
  <2>1. /\ job[w] = Idle /\ job'[w] = Idle
        /\ invitations' = [invitations EXCEPT ![i] = Absent]
        /\ UNCHANGED <<users, tenants, businesses, members>>
    BY <1>2, AtOnceActs DEF CancelInvitation, Free
  <2>2. ASSUME TeamSeen(w) PROVE TeamRows' /\ Alike(w)'
    <3>1. TeamRows'
      BY <2>1, <2>2 DEF TeamSeen, TeamRows, Joined, Invites, Exists
    <3> QED BY <2>1, <2>2, <3>1, SameTeam DEF TeamSeen, Idle
  <2> QED BY <1>0, <2>1, <2>2, TeamEnds DEF Aside, Idle, InviteOps, Edits
<1>3. ASSUME NEW op \in {"look", "reject", "acceptNew"}, NEW status \in {"EXPIRED", "REJECTED", "ACCEPTED"},
             job'[w] = [op |-> op, at |-> i, row |-> [invitations[i] EXCEPT !.status = status]],
             Free(w), Pending(i), UNCHANGED memberVars
      PROVE  TeamInv'
  <2>1. job[w] = Idle BY <1>3 DEF Free
  <2>2. ASSUME TeamSeen(w) PROVE TeamJob(w)'
    <3>1. Invites(invitations[i])
      BY <1>3, <2>2 DEF TeamSeen, TeamRows, Pending
    <3> DEFINE image == [invitations[i] EXCEPT !.status = status]
    <3>2. job'[w] = [op |-> op, at |-> i, row |-> image] /\ Invites(image) /\ image.email = invitations[i].email
      BY <1>3, <3>1, AnswerInvites
    <3> HIDE DEF image
    <3>3. PICK row : /\ job'[w] = [op |-> op, at |-> i, row |-> row]
                     /\ Invites(row) /\ row.email = invitations[i].email
      BY <3>2
    <3>4. Invites(row)'
      BY <1>3, <3>3 DEF Invites, memberVars, Exists
    <3> QED BY <3>3, <3>4 DEF TeamJob, Doing, InviteOps, Edits
  <2> QED BY <1>0, <1>3, <2>1, <2>2, TeamRests DEF memberVars, teamVars, Idle
<1>4. CASE LookAtInvitation(w, i)
  BY <1>3, <1>4 DEF LookAtInvitation, Begin, JobsShape
<1>6. CASE AcceptWithRegistration(w, i)
  BY <1>3, <1>6 DEF AcceptWithRegistration, Answer, Answerable, Begin, JobsShape
<1>7. CASE RejectInvitation(w, i)
  BY <1>3, <1>7 DEF RejectInvitation, Answer, Answerable, Begin, JobsShape
<1> QED BY <1>1, <1>2, <1>4, <1>6, <1>7

LEMMA CopiesKeepTeam ==
  ASSUME JobsShape, UsersInv, TeamInv, NEW w \in Workers, Goes(w, MemberOps),
         RoleSaved(w) \/ UserRoleUpdated(w) \/ PermissionsSaved(w) \/ SeedPermissions(w) \/ SeededOne(w) \/ SeedEnds(w)
  PROVE  TeamInv'
<1> USE DEF TeamSeen
<1>0. Acts(w) /\ DOMAIN users = People BY DEF Goes, UsersInv
<1>1. CASE RoleSaved(w)
  <2>1. /\ Doing(w, "changeRole") /\ members' = [members EXCEPT ![job[w].at] = job[w].row]
        /\ job'[w] = [op |-> "roleSaved", user |-> job[w].at[2], role |-> job[w].row.role]
        /\ UNCHANGED <<users, tenants, businesses, invitations>>
    BY <1>1 DEF RoleSaved, Continue, JobsShape
  <2>2. ASSUME TeamSeen(w) PROVE TeamSeen(w)'
    <3>1. PICK b \in Businesses, p \in People :
            /\ job[w].at = <<b, p>> /\ Exists(members, <<b, p>>) /\ MemberShape(job[w].row)
            /\ job[w].row.role # "BUSINESS_OWNER"
      BY <2>1, <2>2 DEF TeamJob, Doing
    <3> DEFINE row == job[w].row
    <3>2. Exists(businesses, b) /\ Exists(users, p)
      BY <2>2, <3>1 DEF TeamRows, Joined
    <3>3. members' = [members EXCEPT ![<<b, p>>] = row] /\ MemberShape(row) /\ row.role # "BUSINESS_OWNER"
          /\ job'[w] = [op |-> "roleSaved", user |-> p, role |-> row.role]
      BY <2>1, <3>1
    <3> HIDE DEF row
    <3>4. /\ TeamRows' /\ members'[<<b, p>>] = row
          /\ \A c \in Businesses, x \in People : <<c, x>> # <<b, p>> => members'[<<c, x>>] = members[<<c, x>>]
          /\ \A c \in Businesses : Exists(members', <<c, p>>) => c = b
      BY <2>1, <2>2, <3>2, <3>3, MemberWritten
    <3>5. \A c \in Businesses, x \in People \ {p} : members'[<<c, x>>] = members[<<c, x>>]
      BY <3>4
    <3>6. Alike(w)'
      BY <2>1, <2>2, <3>3, <3>4, <3>5 DEF Alike, RoleDue, Doing, Exists
    <3>8. TeamJob(w)'
      BY <2>1, <3>2, <3>3, <3>4 DEF TeamJob, Doing, InviteOps, Edits, Exists
    <3> QED BY <3>4, <3>6, <3>8
  <2> QED BY <1>0, <2>2, TeamBy
<1>2. CASE UserRoleUpdated(w)
  <2>1. /\ Doing(w, "roleSaved") /\ job'[w] = Idle
        /\ users' = IF Exists(users, job[w].user) THEN [users EXCEPT ![job[w].user].role = job[w].role] ELSE users
        /\ UNCHANGED <<tenants, businesses, members, invitations>>
    BY <1>2, FinishActs, Busy DEF UserRoleUpdated, Doing
  <2>2. ASSUME TeamSeen(w), UserRows PROVE TeamRows' /\ Alike(w)'
    <3> DEFINE p == job[w].user
               role == job[w].role
    <3>1. /\ p \in People /\ Exists(users, p)
          /\ \A b \in Businesses : Exists(members, <<b, p>>) => members[<<b, p>>].role = role
      BY <2>1, <2>2 DEF TeamJob
    <3>2. users' = [users EXCEPT ![p] = [users[p] EXCEPT !.role = role]] /\ UserShape(users[p])
      BY <2>1, <2>2, <3>1 DEF UserRows
    <3> HIDE DEF p, role
    <3>3. [users[p] EXCEPT !.role = role].role = role /\ [users[p] EXCEPT !.role = role].status = "HERE"
      BY <3>2 DEF UserShape
    <3>4. /\ users'[p].role = role /\ Exists(users', p)
          /\ \A x \in People \ {p} : users'[x] = users[x]
      BY <1>0, <3>1, <3>2, <3>3 DEF Exists, Absent
    <3>5. TeamRows'
      BY <2>1, <2>2, <3>4 DEF TeamRows, Joined, Invites, Exists
    <3>6. \A x \in People : RoleDue(w, x) => x = p
      BY DEF RoleDue, p
    <3>7. Alike(w)'
      BY <2>1, <2>2, <3>1, <3>4, <3>6 DEF Alike, Exists
    <3> QED BY <3>5, <3>7
  <2> QED BY <1>0, <2>1, <2>2, TeamEnds DEF Aside, Idle, InviteOps, Edits
<1>3. CASE PermissionsSaved(w)
  <2>1. /\ Doing(w, "changePermissions") /\ members' = [members EXCEPT ![job[w].at] = job[w].row] /\ job'[w] = Idle
        /\ UNCHANGED <<users, tenants, businesses, invitations>>
    BY <1>3, FinishActs, Busy DEF PermissionsSaved, Doing
  <2>2. ASSUME TeamSeen(w) PROVE TeamRows' /\ Alike(w)'
    <3>1. PICK b \in Businesses, p \in People :
            /\ job[w].at = <<b, p>> /\ Exists(members, <<b, p>>) /\ MemberShape(job[w].row)
            /\ job[w].row.role = members[<<b, p>>].role
      BY <2>1, <2>2 DEF TeamJob, Doing
    <3> DEFINE row == job[w].row
    <3>2. /\ Exists(businesses, b) /\ Exists(users, p)
          /\ row.role = "BUSINESS_OWNER" => businesses[b].tenant = p
      BY <2>2, <3>1 DEF TeamRows, Joined
    <3>3. members' = [members EXCEPT ![<<b, p>>] = row] /\ MemberShape(row) /\ row.role = members[<<b, p>>].role
      BY <2>1, <3>1
    <3> HIDE DEF row
    <3>4. /\ TeamRows' /\ members'[<<b, p>>] = row /\ Exists(members', <<b, p>>)
          /\ \A c \in Businesses, x \in People : <<c, x>> # <<b, p>> => members'[<<c, x>>] = members[<<c, x>>]
      BY <2>1, <2>2, <3>2, <3>3, MemberWritten
    <3>5. \A c \in Businesses, x \in People :
            /\ Exists(members', <<c, x>>) <=> Exists(members, <<c, x>>)
            /\ members'[<<c, x>>].role = members[<<c, x>>].role
      BY <3>1, <3>3, <3>4 DEF Exists
    <3>6. Alike(w)'
      BY <2>1, <2>2, <3>5 DEF Alike, RoleDue, Doing
    <3> QED BY <3>4, <3>6
  <2> QED BY <1>0, <2>1, <2>2, TeamEnds DEF Aside, Idle, InviteOps, Edits
<1>4. CASE SeedPermissions(w)
  <2>1. job[w] = Idle /\ UNCHANGED memberVars /\ job'[w] = [op |-> "seed", rows |-> members]
    BY <1>4 DEF SeedPermissions, Begin, Free, JobsShape
  <2>2. ASSUME TeamSeen(w) PROVE TeamJob(w)'
    BY <2>1, <2>2 DEF TeamRows, TeamJob, Doing, InviteOps, Edits, memberVars, Exists
  <2> QED BY <1>0, <2>1, <2>2, TeamRests DEF memberVars, teamVars, Idle
<1>5. CASE SeededOne(w)
  <2>1. Doing(w, "seed") /\ UNCHANGED <<users, tenants, businesses, invitations>>
    BY <1>5 DEF SeededOne
  <2>2. PICK m \in Rows(job[w].rows) :
          members' = [members EXCEPT ![m] = job[w].rows[m]] /\ Continue(w, [job[w] EXCEPT !.rows[m] = Absent])
    BY <1>5 DEF SeededOne
  <2>3. job'[w] = [job[w] EXCEPT !.rows = [job[w].rows EXCEPT ![m] = Absent]]
    BY <2>2 DEF Continue, JobsShape
  <2>4. ASSUME TeamSeen(w) PROVE TeamSeen(w)'
    <3>1. /\ DOMAIN job[w].rows = Businesses \X People /\ DOMAIN members = Businesses \X People
          /\ "rows" \in DOMAIN job[w]
          /\ \A b \in Businesses, x \in People :
               Exists(job[w].rows, <<b, x>>) => Exists(members, <<b, x>>) /\ job[w].rows[<<b, x>>] = members[<<b, x>>]
      BY <2>1, <2>4 DEF TeamJob, TeamRows
    <3>2. /\ DOMAIN members' = Businesses \X People
          /\ \A b \in Businesses, x \in People : members'[<<b, x>>] = members[<<b, x>>]
      <4>1. PICK b \in Businesses, x \in People : m = <<b, x>>
        BY <2>2, <3>1 DEF Rows
      <4>2. job[w].rows[m] = members[m]
        BY <2>2, <3>1, <4>1 DEF Rows
      <4> QED BY <2>2, <3>1, <4>2
    <3>3. job'[w].op = "seed" /\ "rows" \in DOMAIN job'[w] /\ job'[w].rows = [job[w].rows EXCEPT ![m] = Absent]
      BY <2>1, <2>3, <3>1 DEF Doing
    <3>4. DOMAIN job'[w].rows = Businesses \X People
          /\ \A y \in Businesses \X People : Exists(job'[w].rows, y) => job'[w].rows[y] = job[w].rows[y]
      BY <3>1, <3>3 DEF Exists
    <3>5. TeamJob(w)'
      BY <3>1, <3>2, <3>3, <3>4 DEF TeamJob, Doing, InviteOps, Edits, Exists
    <3>6. TeamRows'
      BY <2>1, <2>4, <3>2 DEF TeamRows, Joined, Invites, Exists
    <3>7. Alike(w)'
      BY <2>1, <2>4, <3>2 DEF Alike, RoleDue, Doing, Exists
    <3> QED BY <3>5, <3>6, <3>7
  <2> QED BY <1>0, <2>4, TeamBy
<1>6. CASE SeedEnds(w)
  <2>1. job'[w] = Idle /\ UNCHANGED memberVars /\ Doing(w, "seed")
    BY <1>6, FinishActs, Busy DEF SeedEnds, Doing
  <2> QED BY <1>0, <2>1, TeamAside DEF memberVars, teamVars, Aside, Idle, InviteOps, Edits, Doing
<1> QED BY <1>1, <1>2, <1>3, <1>4, <1>5, <1>6

LEMMA InvitesKeepTeam ==
  ASSUME JobsShape, UsersInv, TeamInv, NEW w \in Workers, Goes(w, MemberOps),
         \/ InvitationSaved(w) \/ CleanupExpired(w) \/ InvitedUserSaved(w)
         \/ MemberJoins(w) \/ JoinRefused(w) \/ AnswerSaved(w)
  PROVE  TeamInv'
<1> USE DEF TeamSeen, InviteOps
<1>0. Acts(w) /\ DOMAIN users = People BY DEF Goes, UsersInv
<1>row. PICK row : row = job[w].row OBVIOUS
<1> DEFINE p == row.email
           b == row.business
<1>1. CASE InvitationSaved(w)
  <2>1. PICK i \in DOMAIN invitations : i = Fresh(invitations)
    BY <1>1, FreshRow DEF InvitationSaved
  <2>2. /\ Doing(w, "invite") /\ job'[w] = Idle /\ invitations' = [invitations EXCEPT ![i] = row]
        /\ UNCHANGED <<users, tenants, businesses, members>>
    BY <1>row, <1>1, <2>1, FinishActs, Busy DEF InvitationSaved, Doing
  <2>3. ASSUME TeamSeen(w) PROVE TeamRows' /\ Alike(w)'
    <3>1. Invites(row) /\ i \in Invitations
      BY <1>row, <2>1, <2>2, <2>3 DEF TeamRows, TeamJob, Doing
    <3>2. TeamRows' BY <2>2, <2>3, <3>1, InvitationWritten
    <3> QED BY <2>2, <2>3, <3>2, SameTeam DEF Doing
  <2> QED BY <1>0, <2>2, <2>3, TeamEnds DEF Aside, Idle, Edits
<1>2. CASE CleanupExpired(w)
  <2>1. /\ job[w] = Idle /\ job'[w] = Idle /\ UNCHANGED <<users, tenants, businesses, members>>
        /\ invitations' = [i \in Invitations |-> IF Pending(i) /\ invitations[i].late
                                                 THEN [invitations[i] EXCEPT !.status = "EXPIRED"]
                                                 ELSE invitations[i]]
    BY <1>2, AtOnceActs DEF CleanupExpired, Free
  <2>2. ASSUME TeamSeen(w) PROVE TeamRows' /\ Alike(w)'
    <3>1. ASSUME NEW i \in Invitations, Exists(invitations', i) PROVE Invites(invitations'[i])
      <4>1. Exists(invitations, i)
        BY <2>1, <3>1 DEF Pending, Exists
      <4>2. Invites(invitations[i])
        BY <2>2, <4>1 DEF TeamRows
      <4>3. Invites([invitations[i] EXCEPT !.status = "EXPIRED"])
        BY <4>2, AnswerInvites
      <4> QED BY <2>1, <4>2, <4>3
    <3>2. TeamRows'
      BY <2>1, <2>2, <3>1 DEF TeamRows, Joined, Invites, Exists
    <3> QED BY <2>1, <2>2, <3>2, SameTeam DEF Idle
  <2> QED BY <1>0, <2>1, <2>2, TeamEnds DEF Aside, Idle, Edits
<1>3. CASE InvitedUserSaved(w)
  <2>1. /\ Doing(w, "acceptNew") /\ ~Exists(users, p)
        /\ users' = [users EXCEPT ![p] = [User(row.role) EXCEPT !.verified = TRUE]]
        /\ job'[w] = [job[w] EXCEPT !.op = "accept"]
        /\ UNCHANGED <<tenants, businesses, members, invitations>>
    BY <1>row, <1>3 DEF InvitedUserSaved, Continue, JobsShape
  <2>2. ASSUME TeamSeen(w) PROVE TeamSeen(w)'
    <3>1. Invites(row) /\ "row" \in DOMAIN job[w] /\ p \in People /\ job[w].op # "accept"
      BY <1>row, <2>1, <2>2 DEF TeamJob, Doing, Invites
    <3>2. job'[w].op = "accept" /\ job'[w].row = row /\ job'[w].at = job[w].at /\ "row" \in DOMAIN job'[w]
          /\ job[w].at \in Invitations
      BY <1>row, <2>1, <2>2, <3>1 DEF JobsShape, TeamJob, Doing
    <3>3. /\ users'[p].role = row.role /\ Exists(users', p)
          /\ \A x \in People \ {p} : users'[x] = users[x]
      BY <1>0, <2>1, <3>1 DEF User, Exists, Absent
    <3>4. \A c \in Businesses : ~Exists(members, <<c, p>>)
      BY <2>1, <2>2, <3>1 DEF TeamRows, Joined
    <3>5. TeamRows'
      BY <2>1, <2>2, <3>3 DEF TeamRows, Joined, Invites, Exists
    <3>6. Alike(w)'
      BY <2>1, <2>2, <3>1, <3>3, <3>4 DEF Alike, RoleDue, Doing, Exists
    <3>8. Invites(row)' BY <2>1, <3>1 DEF Invites, Exists
    <3>9. TeamJob(w)'
      BY <3>2, <3>3, <3>8 DEF TeamJob, Doing, Edits
    <3> QED BY <3>5, <3>6, <3>9
  <2> QED BY <1>0, <2>2, TeamBy
<1>4. CASE MemberJoins(w)
  <2>1. /\ Doing(w, "accept") /\ CanAdd(b, p)
        /\ members' = [members EXCEPT ![<<b, p>>] = Member(row.role, Default(row.role))]
        /\ job'[w] = [job[w] EXCEPT !.op = "answer"]
        /\ UNCHANGED <<users, tenants, businesses, invitations>>
    BY <1>row, <1>4 DEF MemberJoins, Added, Continue, JobsShape
  <2>2. ASSUME TeamSeen(w) PROVE TeamSeen(w)'
    <3>1. /\ Invites(row) /\ "row" \in DOMAIN job[w] /\ job[w].at \in Invitations
          /\ p \in People /\ b \in Businesses /\ row.role # "BUSINESS_OWNER"
          /\ users[p].role = row.role
      BY <1>row, <2>1, <2>2 DEF TeamJob, Doing, Invites
    <3>2. job'[w].op = "answer" /\ job'[w].row = row /\ job'[w].at = job[w].at /\ "row" \in DOMAIN job'[w]
      BY <1>row, <2>1, <3>1 DEF JobsShape
    <3>4. PICK image : image = Member(row.role, Default(row.role)) /\ MemberShape(image) /\ image.role = row.role
      <4>1. MemberShape(Member(row.role, Default(row.role))) /\ Member(row.role, Default(row.role)).role = row.role
        BY DEF Member, MemberShape
      <4> QED BY <4>1
    <3>5. PICK q \in People, c \in Businesses, role \in {row.role} :
            /\ q = p /\ c = b /\ role = row.role
            /\ role # "BUSINESS_OWNER" /\ users[q].role = role /\ image.role = role
            /\ Exists(businesses, c) /\ Exists(users, q) /\ ~Exists(members, <<c, q>>)
            /\ members' = [members EXCEPT ![<<c, q>>] = image]
      BY <2>1, <3>1, <3>4 DEF CanAdd
    <3>6. /\ TeamRows' /\ members'[<<c, q>>] = image /\ Exists(members', <<c, q>>)
          /\ \A d \in Businesses, x \in People : <<d, x>> # <<c, q>> => members'[<<d, x>>] = members[<<d, x>>]
          /\ \A d \in Businesses : Exists(members', <<d, q>>) => d = c
      <4>1. TeamRows /\ (image.role = "BUSINESS_OWNER" => businesses[c].tenant = q)
        BY <2>2, <3>5
      <4>2. UNCHANGED <<users, tenants, businesses, invitations>>
        BY <2>1
      <4>3. MemberShape(image) BY <3>4
      <4> HIDE DEF p, b
      <4>4. /\ Exists(businesses, c) /\ Exists(users, q)
            /\ members' = [members EXCEPT ![<<c, q>>] = image]
        BY <3>5
      <4> HIDE <3>5
      <4> QED BY <4>1, <4>2, <4>3, <4>4, MemberWritten
    <3>7. \A d \in Businesses, x \in People \ {q} : members'[<<d, x>>] = members[<<d, x>>]
      BY <3>6
    <3>8. Alike(w)'
      BY <2>1, <2>2, <3>5, <3>6, <3>7 DEF Alike, RoleDue, Doing, Exists
    <3>10. TeamJob(w)'
      <4>1. Invites(row)' BY <2>1, <3>1 DEF Invites, Exists
      <4> QED BY <3>1, <3>2, <4>1 DEF TeamJob, Doing, Edits
    <3> QED BY <3>6, <3>8, <3>10
  <2> QED BY <1>0, <2>2, TeamBy
<1>5. CASE JoinRefused(w)
  <2>1. job'[w] = Idle /\ UNCHANGED teamVars /\ job[w].op \in {"acceptNew", "accept"}
    BY <1>5, FinishActs, Busy DEF JoinRefused, memberVars, teamVars, Doing
  <2> QED BY <1>0, <2>1, TeamAside DEF Aside, Idle, Edits
<1>6. CASE AnswerSaved(w)
  <2>1. /\ job[w].op \in {"answer", "reject", "look"} /\ job'[w] = Idle
        /\ invitations' = [invitations EXCEPT ![job[w].at] = row]
        /\ UNCHANGED <<users, tenants, businesses, members>>
    BY <1>row, <1>6, FinishActs, Busy DEF AnswerSaved
  <2>2. ASSUME TeamSeen(w) PROVE TeamRows' /\ Alike(w)'
    <3>1. Invites(row) /\ job[w].at \in Invitations
      BY <1>row, <2>1, <2>2 DEF TeamJob
    <3>2. TeamRows' BY <2>1, <2>2, <3>1, InvitationWritten
    <3> QED BY <2>1, <2>2, <3>2, SameTeam
  <2> QED BY <1>0, <2>1, <2>2, TeamEnds DEF Aside, Idle, Edits
<1> QED BY <1>1, <1>2, <1>3, <1>4, <1>5, <1>6

LEMMA MembersKeepTeam ==
  ASSUME JobsShape, UsersInv, TeamInv, NEW w \in Workers, MembersNext(w), Goes(w, MemberOps)
  PROVE  TeamInv'
<1>0. Acts(w) /\ Steady BY DEF Goes, TeamInv
<1>1. ASSUME NEW p \in People, CreateBusiness(w, p) PROVE TeamInv'
  BY <1>0, <1>1 DEF CreateBusiness, Asked, Steady, Unsettling
<1>2. ASSUME NEW b \in Businesses, DeleteBusiness(w, b) PROVE TeamInv'
  <2>1. /\ job[w] = Idle /\ job'[w] = Idle /\ UNCHANGED <<users, tenants>>
        /\ businesses' = [businesses EXCEPT ![b] = Absent] /\ Exists(businesses, b)
        /\ members' = [m \in DOMAIN members |-> IF m[1] = b THEN Absent ELSE members[m]]
        /\ invitations' = [i \in Invitations |-> IF Exists(invitations, i) /\ invitations[i].business = b
                                                 THEN Absent ELSE invitations[i]]
    BY <1>2, AtOnceActs DEF DeleteBusiness, Serves, Free
  <2>2. ASSUME TeamSeen(w) PROVE TeamRows' /\ Alike(w)'
    <3>1. \A c \in Businesses : ~Exists(businesses', c)
      BY <2>1, <2>2 DEF TeamSeen, TeamRows, Exists
    <3>2. \A c \in Businesses, x \in People : ~Exists(members', <<c, x>>)
      BY <2>1, <2>2 DEF TeamSeen, TeamRows, Joined, Exists
    <3>3. \A i \in Invitations : ~Exists(invitations', i)
      BY <2>1, <2>2 DEF TeamSeen, TeamRows, Invites, Exists
    <3>4. TeamRows'
      BY <2>1, <2>2, <3>1, <3>2, <3>3 DEF TeamSeen, TeamRows
    <3> QED BY <3>2, <3>4 DEF Alike
  <2> QED BY <1>0, <2>1, <2>2, TeamEnds DEF Aside, Idle, InviteOps, Edits
<1>3. ASSUME UNCHANGED teamVars, {job[w].op, job'[w].op} \subseteq {"idle", "createRate", "updateRate"} PROVE TeamInv'
  BY <1>0, <1>3, TeamAside DEF Aside, InviteOps, Edits
<1>4. ASSUME NEW b \in Businesses, CreateTaxRate(w, b) PROVE TeamInv'
  BY <1>3, <1>4 DEF CreateTaxRate, Begin, JobsShape, Free, Idle, teamVars
<1>5. ASSUME NEW r \in Rates, DeleteTaxRate(w, r) \/ \E b \in Businesses : UpdateTaxRate(w, b, r) PROVE TeamInv'
  BY <1>3, <1>5, AtOnceActs DEF UpdateTaxRate, DeleteTaxRate, Begin, JobsShape, Free, Idle, teamVars
<1>6. CASE TaxRateSaved(w) \/ TaxRateUpdated(w)
  BY <1>3, <1>6, FinishActs, Busy DEF TaxRateSaved, TaxRateUpdated, Doing, Idle, teamVars
<1>7. CASE BusinessSaved(w) \/ FounderJoins(w)
  <2>1. ~TeamSeen(w)
    BY <1>7 DEF BusinessSaved, FounderJoins, TeamSeen, TeamJob, Doing
  <2> QED BY <1>0, <2>1, TeamBy
<1> QED BY <1>1, <1>2, <1>3, <1>4, <1>5, <1>6, <1>7, RolesKeepTeam, AnswersKeepTeam, CopiesKeepTeam, InvitesKeepTeam
           DEF MembersNext

(* A user is written with the role he had. *)
LEMMA UserKeepsTeam ==
  ASSUME NEW w \in Workers, DOMAIN users = People, TeamSeen(w), job[w].op # "roleSaved",
         NEW p \in People, Exists(users, p), NEW row, UserShape(row), row.role = users[p].role,
         users' = [users EXCEPT ![p] = row], UNCHANGED <<tenants, businesses, members, invitations>>
  PROVE  TeamRows' /\ Alike(w)'
<1>1. \A x \in People : (Exists(users', x) <=> Exists(users, x)) /\ users'[x].role = users[x].role
  BY DEF UserShape, Exists, Absent
<1>2. TeamRows'
  BY <1>1 DEF TeamSeen, TeamRows, Joined, Invites, Exists
<1>3. Alike(w)'
  BY <1>1 DEF TeamSeen, Alike, RoleDue, Doing, Exists
<1> QED BY <1>2, <1>3

LEMMA TenantIsThere == ASSUME NEW s, s # "ABSENT" PROVE Tenancy(s) # Absent
<1>1. Tenancy(s).status = s BY DEF Tenancy
<1>2. Absent.status = "ABSENT" BY DEF Absent
<1> QED BY <1>1, <1>2

LEMMA AccountsKeepTeam ==
  ASSUME JobsShape, UsersInv, TeamInv, NEW w \in Workers, AccountsNext(w), Goes(w, AccountOps)
  PROVE  TeamInv'
<1> USE DEF TeamSeen, Edits, InviteOps, JobsShape
<1>0. Acts(w) /\ Steady /\ DOMAIN users = People
  BY DEF Goes, TeamInv, UsersInv
<1>1. ASSUME NEW p \in People, Register(w, p) \/ OAuthLogin(w, p) PROVE TeamInv'
  BY <1>0, <1>1 DEF Register, OAuthLogin, AtOnce, Begin, Steady, Unsettling
<1>2. ASSUME UNCHANGED memberVars, job'[w].op \in {"idle", "refresh", "refreshed"} \cup Lockings PROVE TeamInv'
  <2>1. UNCHANGED teamVars /\ Aside(job'[w].op)
    BY <1>2 DEF memberVars, teamVars, Aside, Lockings
  <2>2. job[w].op # "roleSaved"
    BY DEF Goes, AccountOps, Lockings
  <2> QED BY <1>0, <2>1, <2>2, TeamAside
<1>3. ASSUME NEW p \in People, Login(w, p) \/ ForgotPassword(w, p) PROVE TeamInv'
  BY <1>2, <1>3, AtOnceActs DEF Login, ForgotPassword, Idle
<1>4. ASSUME NEW t \in Tokens, Refresh(w, t) \/ Logout(w, t) PROVE TeamInv'
  BY <1>2, <1>4, AtOnceActs DEF Refresh, Logout, Begin, Idle
<1>5. CASE TokenRevoked(w) \/ TokenReplaced(w) \/ LinkSpent(w)
  <2>1. UNCHANGED memberVars /\ job'[w].op \in {"idle", "refresh", "refreshed"}
    BY <1>5 DEF TokenRevoked, TokenReplaced, LinkSpent, Continue, Finish, Idle, Doing
  <2> QED BY <1>2, <2>1
<1>6. CASE OAuthTenant(w) \/ OAuthBusiness(w) \/ OAuthRates(w) \/ OAuthMember(w)
  <2>1. ~TeamSeen(w)
    BY <1>6 DEF OAuthTenant, OAuthBusiness, OAuthRates, OAuthMember, TeamJob, Doing
  <2> QED BY <1>0, <2>1, TeamBy
<1>7. ASSUME NEW p \in People, DeleteUser(w, p) PROVE TeamInv'
  <2>1. /\ job[w] = Idle /\ job'[w] = Idle /\ UNCHANGED <<tenants, businesses, invitations>>
        /\ users' = [users EXCEPT ![p] = Absent]
        /\ members' = [m \in DOMAIN members |-> IF m[2] = p THEN Absent ELSE members[m]]
    BY <1>7, AtOnceActs DEF DeleteUser, Free
  <2>2. ASSUME TeamSeen(w) PROVE TeamRows' /\ Alike(w)'
    <3>1. /\ ~Exists(users', p) /\ \A x \in People \ {p} : users'[x] = users[x]
          /\ DOMAIN members' = Businesses \X People
          /\ \A c \in Businesses : ~Exists(members', <<c, p>>)
          /\ \A c \in Businesses, x \in People \ {p} : members'[<<c, x>>] = members[<<c, x>>]
      BY <1>0, <2>1, <2>2 DEF TeamRows, Exists
    <3>2. TeamRows'
      BY <2>1, <2>2, <3>1 DEF TeamRows, Joined, Invites, Exists
    <3>3. Alike(w)'
      BY <2>1, <2>2, <3>1 DEF Alike, RoleDue, Doing, Idle, Exists
    <3> QED BY <3>2, <3>3
  <2> QED BY <1>0, <2>1, <2>2, TeamEnds DEF Aside, Idle
<1>8. ASSUME NEW p \in People, NEW op \in Edits, EditUser(w, op, p) PROVE TeamInv'
  <2>1. PICK row \in Edited(op, users[p]) : job'[w] = [op |-> op, user |-> p, row |-> row]
    BY <1>8 DEF EditUser, Begin
  <2>2. UNCHANGED teamVars /\ Exists(users, p) /\ job[w] = Idle
        /\ op # "updateRole"
    BY <1>0, <1>8 DEF EditUser, memberVars, teamVars, Asked, Free, Steady, Unsettling
  <2>3. ASSUME UserRows, TeamSeen(w) PROVE TeamJob(w)'
    <3>1. row.role = users[p].role
      BY <2>1, <2>2, <2>3 DEF UserRows, UserShape, Edited
    <3> QED BY <2>1, <2>2, <3>1 DEF teamVars, TeamJob, Doing
  <2> QED BY <1>0, <2>2, <2>3, TeamRests DEF Idle
<1>9. ASSUME NEW l \in Links, FollowLink(w, l) PROVE TeamInv'
  <2>1. /\ UNCHANGED teamVars
        /\ job[w].op = "idle" /\ job'[w].op = "follow"
    BY <1>9 DEF FollowLink, memberVars, teamVars, Begin, Free, Idle
  <2> QED BY <1>0, <2>1, TeamAside DEF Aside
<1>10. CASE UserWritten(w)
  <2>1. PICK p : /\ p = job[w].user /\ users' = IF Exists(users, p) THEN VerifiedOrReset(w) ELSE users
                 /\ UNCHANGED <<tenants, businesses, members, invitations>>
                 /\ job'[w].op = "spend" /\ Doing(w, "follow")
    <3>1. Doing(w, "follow") /\ Continue(w, [job[w] EXCEPT !.op = "spend"])
      BY <1>10 DEF UserWritten
    <3>2. job'[w].op = "spend" BY <3>1 DEF Continue
    <3> QED BY <1>10, <3>1, <3>2 DEF UserWritten
  <2>2. ASSUME TeamSeen(w), UserRows, UserJob(w) PROVE TeamRows' /\ Alike(w)'
    <3>1. CASE p \notin People
      <4>1. \A x \in People : users'[x] = users[x]
        BY <2>1, <3>1 DEF VerifiedOrReset
      <4>2. TeamRows'
        BY <2>1, <2>2, <4>1 DEF TeamRows, Joined, Invites, Exists
      <4>3. Alike(w)'
        BY <2>1, <2>2, <4>1 DEF Alike, RoleDue, Doing, Exists
      <4> QED BY <4>2, <4>3
    <3>2. CASE p \in People
      <4>1. Exists(users, p) /\ job[w].row = users[p] /\ UserShape(users[p])
        BY <2>1, <2>2, <3>2 DEF UserJob, UserRows
      <4>2. \/ users' = [users EXCEPT ![p] = users[p]]
            \/ users' = [users EXCEPT ![p] = [users[p] EXCEPT !.verified = TRUE]]
        BY <2>1, <4>1 DEF VerifiedOrReset
      <4>3. /\ UserShape([users[p] EXCEPT !.verified = TRUE])
            /\ [users[p] EXCEPT !.verified = TRUE].role = users[p].role
        BY <4>1 DEF UserShape
      <4> QED BY <1>0, <2>1, <2>2, <3>2, <4>1, <4>2, <4>3, UserKeepsTeam DEF Doing
    <3> QED BY <3>1, <3>2
  <2> QED BY <1>0, <2>1, <2>2, TeamEnds DEF Aside
<1>11. CASE UserSaved(w)
  <2>1. PICK p, row : /\ p = job[w].user /\ row = job[w].row
                      /\ job[w].op \in Edits /\ users' = [users EXCEPT ![p] = row] /\ job'[w] = Idle
                      /\ UNCHANGED <<tenants, businesses, members, invitations>>
    BY <1>11, FinishActs, Busy DEF UserSaved
  <2>2. ASSUME TeamSeen(w), UserRows, UserJob(w) PROVE TeamRows' /\ Alike(w)'
    <3>1. p \in People /\ Exists(users, p) /\ UserShape(row) /\ row.role = users[p].role
      BY <2>1, <2>2 DEF UserJob, TeamJob
    <3>2. job[w].op # "roleSaved" BY <2>1
    <3> QED BY <1>0, <2>1, <2>2, <3>1, <3>2, UserKeepsTeam
  <2> QED BY <1>0, <2>1, <2>2, TeamEnds DEF Aside, Idle
<1>12. ASSUME NEW p \in People, NEW op \in Lockings, LockTenant(w, op, p) PROVE TeamInv'
  BY <1>2, <1>12 DEF LockTenant, Begin
<1>13. ASSUME NEW p, NEW status, status # "ABSENT", tenants' = [tenants EXCEPT ![p] = Tenancy(status)],
              UNCHANGED <<users, businesses, members, invitations>>, Aside(job'[w].op)
       PROVE  TeamInv'
  <2>1. job[w].op # "roleSaved"
    BY DEF Goes, AccountOps, Lockings
  <2>2. ASSUME TeamSeen(w) PROVE TeamRows' /\ Alike(w)'
    <3>1. DOMAIN tenants' = People /\ \A o \in People : Exists(tenants, o) => Exists(tenants', o)
      BY <1>13, <2>2, TenantIsThere DEF TeamRows, Exists
    <3>2. TeamRows'
      BY <1>13, <2>2, <3>1 DEF TeamRows, Joined, Invites, Exists
    <3> QED BY <1>13, <2>1, <2>2, <3>2, SameTeam
  <2> QED BY <1>0, <1>13, <2>2, TeamEnds
<1>14. ASSUME NEW p \in People, ExpireFreeTrial(w, p) \/ PaySubscription(w, p) PROVE TeamInv'
  <2>1. tenants' = [tenants EXCEPT ![p] = Tenancy("EXPIRED")] \/ tenants' = [tenants EXCEPT ![p] = Tenancy("ACTIVE")]
    BY <1>14 DEF ExpireFreeTrial, PaySubscription
  <2>2. UNCHANGED <<users, businesses, members, invitations>> /\ Aside(job'[w].op)
    BY <1>14, AtOnceActs DEF ExpireFreeTrial, PaySubscription, Aside, Idle
  <2> QED BY <1>13, <2>1, <2>2
<1>15. CASE SubscriptionSaved(w)
  <2>1. UNCHANGED <<users, businesses, members, invitations>> /\ job'[w].op = "lockMembers"
    BY <1>15 DEF SubscriptionSaved, Continue
  <2>2. \/ tenants' = [tenants EXCEPT ![job[w].tenant] = Tenancy("SUSPENDED")]
        \/ tenants' = [tenants EXCEPT ![job[w].tenant] = Tenancy("ACTIVE")]
    BY <1>15 DEF SubscriptionSaved
  <2>3. Aside(job'[w].op) BY <2>1 DEF Aside
  <2> QED BY <1>13, <2>1, <2>2, <2>3
<1>16. CASE MembersLocked(w)
  <2> DEFINE inside == {m \in Rows(members) : m[1] \in job[w].businesses}
             in == LetsIn(job[w].by)
  <2>1. /\ Doing(w, "lockMembers") /\ UNCHANGED <<users, tenants, businesses, invitations>>
        /\ members' = [m \in DOMAIN members |-> IF m \in inside THEN [members[m] EXCEPT !.active = in] ELSE members[m]]
        /\ job'[w].op \in {"idle", "lockUsers"}
    BY <1>16 DEF MembersLocked, Continue, Finish, Idle
  <2> HIDE DEF inside, in
  <2>2. ASSUME TeamSeen(w) PROVE TeamRows' /\ Alike(w)'
    <3>1. ASSUME NEW b \in Businesses, NEW x \in People
          PROVE  /\ Exists(members', <<b, x>>) => Exists(members, <<b, x>>)
                 /\ Exists(members, <<b, x>>) => MemberShape(members'[<<b, x>>])
                                                /\ members'[<<b, x>>].role = members[<<b, x>>].role
      <4>1. <<b, x>> \in DOMAIN members BY <2>2 DEF TeamRows
      <4>2. Exists(members, <<b, x>>) => MemberShape(members[<<b, x>>])
        BY <2>2 DEF TeamRows, Joined
      <4>3. <<b, x>> \in inside => Exists(members, <<b, x>>)
        BY DEF inside, Rows
      <4> QED BY <2>1, <4>1, <4>2, <4>3 DEF MemberShape, Exists
    <3>2. DOMAIN members' = Businesses \X People
      BY <2>1, <2>2 DEF TeamRows
    <3>3. ASSUME NEW b \in Businesses, NEW x \in People, Exists(members', <<b, x>>) PROVE Joined(b, x)'
      <4>1. Exists(members, <<b, x>>) /\ MemberShape(members'[<<b, x>>])
            /\ members'[<<b, x>>].role = members[<<b, x>>].role
        BY <3>1, <3>3
      <4>2. Joined(b, x) BY <2>2, <4>1 DEF TeamRows
      <4> QED BY <2>1, <4>1, <4>2 DEF Joined, Exists
    <3>5. TeamRows'
      BY <2>1, <2>2, <3>2, <3>3 DEF TeamRows, Invites, Exists
    <3>4. Alike(w)'
      BY <2>1, <2>2, <3>1 DEF Alike, RoleDue, Doing
    <3> QED BY <3>4, <3>5
  <2> QED BY <1>0, <2>1, <2>2, TeamEnds DEF Aside
<1>17. CASE UsersLocked(w)
  <2> DEFINE inside == Rows(users) \cap job[w].users
             in == LetsIn(job[w].by)
  <2>1. /\ Doing(w, "lockUsers") /\ UNCHANGED <<tenants, businesses, members, invitations>>
        /\ users' = [x \in People |-> IF x \in inside THEN [users[x] EXCEPT !.suspended = ~in] ELSE users[x]]
        /\ job'[w] = Idle
    BY <1>17 DEF UsersLocked, Finish, Idle
  <2> HIDE DEF in
  <2>2. ASSUME TeamSeen(w), UserRows PROVE TeamRows' /\ Alike(w)'
    <3>1. ASSUME NEW x \in People
          PROVE  (Exists(users', x) <=> Exists(users, x)) /\ (Exists(users, x) => users'[x].role = users[x].role)
      BY <2>1, <2>2 DEF UserRows, UserShape, Exists, Absent, Rows
    <3>2. TeamRows'
      BY <2>1, <2>2, <3>1 DEF TeamRows, Joined, Invites, Exists
    <3>3. Alike(w)'
      BY <2>1, <2>2, <3>1, <3>2 DEF TeamRows, Joined, Alike, RoleDue, Doing, Exists
    <3> QED BY <3>2, <3>3
  <2> QED BY <1>0, <2>1, <2>2, TeamEnds DEF Aside, Idle
<1> QED BY <1>1, <1>3, <1>4, <1>5, <1>6, <1>7, <1>8, <1>9, <1>10, <1>11, <1>12, <1>14, <1>15, <1>16, <1>17
        DEF AccountsNext

LEMMA TeamStep ==
  ASSUME JobsAssumption, JobsShape, UsersInv, TeamInv, [OfficeNext]_officeVars
  PROVE  TeamInv'
<1>1. CASE UNCHANGED officeVars
  <2>1. UNCHANGED <<job, marred, mix, users, tenants, businesses, members, invitations>>
    BY <1>1 DEF officeVars, jobVars, memberVars
  <2>2. ASSUME NEW w \in Workers, TeamSeen(w) PROVE TeamSeen(w)'
    <3>1. TeamRows' /\ Alike(w)'
      BY <2>1, <2>2 DEF TeamSeen, TeamRows, Joined, Invites, Alike, RoleDue, Doing, Exists
    <3>2. TeamJob(w)'
      BY <2>1, <2>2 DEF TeamSeen, TeamJob, Invites, Doing, Exists
    <3> QED BY <3>1, <3>2 DEF TeamSeen
  <2> QED BY <2>1, <2>2 DEF TeamInv, Steady, Unmarred, Alone, Free
<1>2. ASSUME NEW w \in Serving, UNCHANGED memberVars, Goes(w, WorkspaceOps) PROVE TeamInv'
  <2>1. /\ Acts(w) /\ Aside(job'[w].op) /\ job[w].op # "roleSaved"
        /\ UNCHANGED teamVars
    BY <1>2 DEF Goes, Aside, InviteOps, Edits, WorkspaceOps, memberVars, teamVars
  <2> QED BY <2>1, ServingWork, TeamAside
<1>3. ASSUME NEW w \in Serving, Fails(w) PROVE TeamInv'
  BY <1>3 DEF Fails, Acts, TeamInv, Steady, Unmarred
<1>4. ASSUME NEW w \in Serving, MembersNext(w), Goes(w, MemberOps) PROVE TeamInv'
  BY <1>4, ServingWork, MembersKeepTeam
<1>5. ASSUME NEW w \in Serving, AccountsNext(w), Goes(w, AccountOps) PROVE TeamInv'
  BY <1>5, ServingWork, AccountsKeepTeam
<1> QED BY <1>1, <1>2, <1>3, <1>4, <1>5, OfficeStep, WorkspaceLeaves

LEMMA MixStays ==
  ASSUME JobsAssumption, JobsShape, [OfficeNext]_officeVars
  PROVE  mix' = mix
<1>1. CASE UNCHANGED officeVars
  BY <1>1 DEF officeVars, jobVars
<1> QED BY <1>1, OfficeStep DEF Goes, Fails, Acts

(* A handler that asks for no key names no table of permissions. *)
Tabled(handlers) ==
  \A h \in handlers :
    /\ DOMAIN h = {"handler", "demand"} /\ DOMAIN h.demand = {"by", "roles", "table", "key", "own", "ai"}
    /\ h.demand.key = NoKey => h.demand.table = NoKey

LEMMA Tabling ==
  /\ \A names : Tabled(Public(names)) /\ Tabled(ByPlatform(names)) /\ Tabled(LoggedIn(names))
  /\ \A names, roles : Tabled(Among(names, roles))
  /\ \A names, roles, own : Tabled(InOwn(names, roles, own))
  /\ \A names, roles, table, key : key # NoKey => Tabled(Keyed(names, roles, table, key))
  /\ \A H, G : Tabled(H) /\ Tabled(G) => Tabled(H \cup G)
<1>1. ASSUME NEW names, NEW by, NEW roles, NEW table, NEW key, NEW own, key = NoKey => table = NoKey
      PROVE  Tabled(Handlers(names, Demand(by, roles, table, key, own)))
  BY <1>1 DEF Tabled, Handlers, Demand
<1> QED BY <1>1 DEF Public, ByPlatform, LoggedIn, Among, InOwn, Keyed, Tabled

LEMMA TabledWithAi ==
  ASSUME NEW handlers, Tabled(handlers)
  PROVE  Tabled(WithAi(handlers))
<1> SUFFICES ASSUME NEW h \in handlers
             PROVE  LET g == [h EXCEPT !.demand.ai = TRUE]
                    IN /\ DOMAIN g = {"handler", "demand"}
                       /\ DOMAIN g.demand = {"by", "roles", "table", "key", "own", "ai"}
                       /\ g.demand.key = NoKey => g.demand.table = NoKey
  BY DEF Tabled, WithAi
<1> QED BY DEF Tabled

LEMMA HandledTabled == Tabled(Handled)
<1> USE DEF NoKey
<1>1. Tabled(ActivitiesController) /\ Tabled(AuthController1) /\ Tabled(AuthController2) /\
      Tabled(BusinessesController1) /\ Tabled(BusinessesController2) /\ Tabled(GlobalAiAssistantController)
  BY Tabling, TabledWithAi DEF ActivitiesController, AuthController1, AuthController2, BusinessesController1,
     BusinessesController2, GlobalAiAssistantController
<1>2. Tabled(InvitationsController) /\ Tabled(BusinessInvitationsController) /\ Tabled(DailyCheckinsController) /\
      Tabled(CollaborationTasksController) /\ Tabled(AuditLogsController) /\ Tabled(MessagesController)
  BY Tabling, TabledWithAi DEF InvitationsController, BusinessInvitationsController, DailyCheckinsController,
     CollaborationTasksController, AuditLogsController, MessagesController
<1>3. Tabled(AccountsController) /\ Tabled(DepositsController) /\ Tabled(ForecastController) /\
      Tabled(PaymentSchedulesController) /\ Tabled(PaymentsController) /\ Tabled(RecurringInvoicePaymentsController)
  BY Tabling, TabledWithAi DEF AccountsController, DepositsController, ForecastController,
     PaymentSchedulesController, PaymentsController, RecurringInvoicePaymentsController
<1>4. Tabled(SalaryController) /\ Tabled(SupplierPaymentsController) /\ Tabled(SupplierSchedulePublicController) /\
      Tabled(TransactionsController) /\ Tabled(TransfersController) /\ Tabled(AiPricingController)
  BY Tabling, TabledWithAi DEF SalaryController, SupplierPaymentsController, SupplierSchedulePublicController,
     TransactionsController, TransfersController, AiPricingController
<1>5. Tabled(AuditLogController) /\ Tabled(DashboardController) /\ Tabled(PaymentManagementController) /\
      Tabled(PlanManagementController) /\ Tabled(PublicPaymentController) /\ Tabled(PublicPlansController)
  BY Tabling, TabledWithAi DEF AuditLogController, DashboardController, PaymentManagementController,
     PlanManagementController, PublicPaymentController, PublicPlansController
<1>6. Tabled(StripeWebhookController) /\ Tabled(SubscriptionManagementController) /\
      Tabled(SubscriptionPaymentController) /\ Tabled(SupportTicketController) /\ Tabled(SystemHealthController) /\
      Tabled(TenantManagementController)
  BY Tabling, TabledWithAi DEF StripeWebhookController, SubscriptionManagementController,
     SubscriptionPaymentController, SupportTicketController, SystemHealthController, TenantManagementController
<1>7. Tabled(PlatformAuthController) /\ Tabled(DisputeResolutionController) /\ Tabled(GoodsReceiptsController) /\
      Tabled(MlPredictionController) /\ Tabled(OcrController) /\ Tabled(PurchaseAiAssistantController)
  BY Tabling, TabledWithAi DEF PlatformAuthController, DisputeResolutionController, GoodsReceiptsController,
     MlPredictionController, OcrController, PurchaseAiAssistantController
<1>8. Tabled(PurchaseAlertsController) /\ Tabled(PurchaseInvoicesController) /\
      Tabled(SupplierOnboardingController) /\ Tabled(SupplierOnboardingPublicController) /\
      Tabled(SupplierPortalController) /\ Tabled(SupplierPOsController)
  BY Tabling, TabledWithAi DEF PurchaseAlertsController, PurchaseInvoicesController, SupplierOnboardingController,
     SupplierOnboardingPublicController, SupplierPortalController, SupplierPOsController
<1>9. Tabled(SupplierScoringController) /\ Tabled(SuppliersController) /\ Tabled(ThreeWayMatchingController) /\
      Tabled(UploadController) /\ Tabled(ClientOnboardingController) /\ Tabled(ClientOnboardingPublicController)
  BY Tabling, TabledWithAi DEF SupplierScoringController, SuppliersController, ThreeWayMatchingController,
     UploadController, ClientOnboardingController, ClientOnboardingPublicController
<1>10. Tabled(ClientPortalController) /\ Tabled(SalesClientsController) /\ Tabled(DeliveryNotesController) /\
      Tabled(InvoicesController) /\ Tabled(QuotePortalController) /\ Tabled(QuotesController)
  BY Tabling, TabledWithAi DEF ClientPortalController, SalesClientsController, DeliveryNotesController,
     InvoicesController, QuotePortalController, QuotesController
<1>11. Tabled(RecurringInvoicesController) /\ Tabled(SalesDashboardController) /\ Tabled(SalesMatchingController) /\
      Tabled(SalesMLController) /\ Tabled(SalesOcrController1) /\ Tabled(SalesOcrController2)
  BY Tabling, TabledWithAi DEF RecurringInvoicesController, SalesDashboardController, SalesMatchingController,
     SalesMLController, SalesOcrController1, SalesOcrController2
<1>12. Tabled(SalesOrdersController) /\ Tabled(StatisticsController) /\ Tabled(ProductCategoriesController) /\
      Tabled(ProductReservationsController) /\ Tabled(ProductsController1) /\ Tabled(ProductsController2)
  BY Tabling, TabledWithAi DEF SalesOrdersController, StatisticsController, ProductCategoriesController,
     ProductReservationsController, ProductsController1, ProductsController2
<1>13. Tabled(ProductsController3) /\ Tabled(StockDashboardController) /\ Tabled(StockMovementsController) /\
      Tabled(WarehousesController) /\ Tabled(SubtasksController) /\ Tabled(SupportController)
  BY Tabling, TabledWithAi DEF ProductsController3, StockDashboardController, StockMovementsController,
     WarehousesController, SubtasksController, SupportController
<1>14. Tabled(TasksController) /\ Tabled(TenantsController) /\ Tabled(UsersController)
  BY Tabling, TabledWithAi DEF TasksController, TenantsController, UsersController
<1> QED BY <1>1, <1>2, <1>3, <1>4, <1>5, <1>6, <1>7, <1>8, <1>9, <1>10, <1>11, <1>12, <1>13, <1>14 DEF Handled, Tabled

(* Beside GrantedIsServed: whoever is asked for has the roles of his
   membership and of his account alike. *)
LEMMA TeamServes ==
  ASSUME TeamRows, NEW w \in Workers, Alike(w), Free(w), NEW b \in Businesses, NEW p \in People,
         Exists(businesses, b), Exists(users, p), NEW demand \in Demands, Granted(p, b, demand)
  PROVE  Serves(p, b, demand)
<1>1. demand.key = NoKey => demand.table = NoKey
  BY HandledTabled DEF Demands, Tabled
<1>2. PICK role : role = members[<<b, p>>].role OBVIOUS
<1>3. /\ Exists(members, <<b, p>>) /\ ActiveMember(p, b) /\ Joined(b, p) /\ users[p].role = role
      /\ ~users[p].suspended /\ role \in demand.roles
      /\ demand.own = Nobody \/ role \in demand.own
      /\ demand.key = NoKey \/ role = "BUSINESS_OWNER" \/ demand.key \in members[<<b, p>>].permissions[demand.table]
  BY <1>2 DEF Granted, LockedOut, ActiveMember, TeamRows, Alike, RoleDue, Doing, Free, Idle
<1>4. JwtValidates(p)
  <2>1. TokenBusinesses(p) \subseteq Businesses
    BY DEF TokenBusinesses, BusinessesOf, Memberships, Rows, TeamRows
  <2> QED BY <2>1 DEF JwtValidates, Granted, LockedOut
<1>5. role = "BUSINESS_OWNER" => OwnsBusiness(p, b) /\ OwnerInside(p, b)
  BY <1>2, <1>3 DEF Joined, TeamRows, OwnsBusiness, OwnerInside
<1>6. BusinessAccess(p, b, demand)
  BY <1>2, <1>3, <1>5 DEF BusinessAccess
<1>7. Permits(p, b, demand)
  <2>1. CASE demand.key = NoKey
    BY <1>1, <2>1 DEF Permits, NoKey
  <2>2. CASE role = "BUSINESS_OWNER"
    BY <1>3, <1>5, <2>2 DEF Permits, SalesPermission, SalaryPermission, PurchasePermission, PaymentPermission,
                           ProductPermission, CollaborationPermission, SubtaskPermission, FullRoles
  <2>3. CASE demand.key \in members[<<b, p>>].permissions[demand.table]
    <3>1. HasKey(p, b, demand)
      BY <1>3, <2>3 DEF HasKey, HasGranularPermission
    <3> QED BY <3>1 DEF Permits, SalesPermission, SalaryPermission, PurchasePermission, PaymentPermission,
                        ProductPermission, CollaborationPermission, SubtaskPermission
  <2> QED BY <1>3, <2>1, <2>2, <2>3
<1> QED BY <1>3, <1>4, <1>6, <1>7 DEF Serves, RolesAdmit

(* GrantedIsServed, for a team of any size that is steady: one business
   that people join by invitation, where nobody is added by hand or made an
   owner, however members are removed, suspended or locked out and let in
   again.  Elsewhere the two roles may part: addMember gives a membership
   another role than the account has. *)
THEOREM TeamAlwaysServed ==
  ASSUME JobsAssumption PROVE OfficeSpec => [](Steady => GrantedIsServed)
<1>1. Init => JobsShape /\ UsersInv /\ (Steady => TeamInv)
  <2> SUFFICES ASSUME Init PROVE UsersInv /\ (Steady => TeamInv)
    BY ShapeInit
  <2>1. \A w \in Workers : job[w] = Idle
    BY DEF Init, JobsInit
  <2>2. MembersInit BY DEF Init
  <2>4. PICK p \in People, b \in Businesses :
          /\ users = [x \in People |-> IF x = p THEN User("BUSINESS_OWNER") ELSE Absent]
          /\ tenants = [x \in People |-> IF x = p THEN Tenancy("ACTIVE") ELSE Absent]
          /\ businesses = [x \in Businesses |-> IF x = b THEN Business(p) ELSE Absent]
          /\ members = [x \in Businesses \X People |->
                          IF x = <<b, p>> THEN Member("BUSINESS_OWNER", NoPermissions) ELSE Absent]
          /\ invitations = [x \in Invitations |-> Absent]
    BY <2>2, ZenonT(30) DEF MembersInit
  <2>5. /\ \A x \in People : Exists(users, x) <=> x = p
        /\ \A c \in Businesses : Exists(businesses, c) <=> c = b
        /\ \A c \in Businesses, x \in People : Exists(members, <<c, x>>) <=> c = b /\ x = p
        /\ \A i \in Invitations : ~Exists(invitations, i)
    BY <2>4 DEF Exists, User, Business, Member, Absent
  <2>6. /\ users[p] = User("BUSINESS_OWNER") /\ businesses[b].tenant = p
        /\ members[<<b, p>>] = Member("BUSINESS_OWNER", NoPermissions)
    BY <2>4 DEF Business
  <2>7. UsersInv
    <3>1. \A w \in Workers : UserJob(w)
      BY <2>1 DEF UserJob, Doing, Idle, Edits
    <3>2. UserRows
      BY <2>5, <2>6, NewUserWell DEF UserRows, Init, AccountsInit
    <3> QED BY <2>4, <3>1, <3>2 DEF UsersInv
  <2>8. TeamRows
    <3>1. Joined(b, p)
      BY <2>5, <2>6 DEF Joined, Member, MemberShape
    <3>2. DOMAIN tenants = People /\ Exists(tenants, p)
      BY <2>4, TenantIsThere DEF Exists
    <3> QED BY <2>4, <2>5, <2>6, <3>1, <3>2 DEF TeamRows
  <2>9. ASSUME NEW w \in Workers PROVE TeamSeen(w)
    <3>1. Alike(w) BY <2>5, <2>6 DEF Alike, Member, User
    <3>3. TeamJob(w)
      BY <2>1 DEF TeamJob, Doing, Idle, InviteOps, Edits
    <3> QED BY <2>8, <3>1, <3>3 DEF TeamSeen
  <2> QED BY <2>7, <2>9 DEF TeamInv
<1>2. JobsShape /\ UsersInv /\ (Steady => TeamInv) /\ [OfficeNext]_officeVars
        => (JobsShape /\ UsersInv /\ (Steady => TeamInv))'
  BY ShapeStays, UsersStep, TeamStep, MixStays DEF Steady
<1>3. UsersInv /\ (Steady => TeamInv) => (Steady => GrantedIsServed)
  <2> SUFFICES ASSUME UsersInv, TeamInv, Settled, NEW b \in Rows(businesses), NEW p \in Rows(users),
                      NEW demand \in Demands, Granted(p, b, demand)
               PROVE  Serves(p, b, demand)
    BY DEF GrantedIsServed
  <2>1. PICK w \in Workers : Free(w) /\ TeamSeen(w)
    BY DEF JobsAssumption, TeamInv, Settled, Unmarred, AllFree, Alone
  <2> QED BY <2>1, TeamServes DEF TeamSeen, TeamRows, UsersInv, Rows
<1> QED BY <1>1, <1>2, <1>3, PTL DEF OfficeSpec

----
(* The board: while handlers run one by one, a task that is being created
   has its place to itself, and one that is being moved is where it was
   read. *)
TaskShape(row) ==
  DOMAIN row = {"status", "business", "column", "order", "due"} /\ row.status = "HERE" /\ row.order \in Int
SamePlace(x, y) == x.business = y.business /\ x.column = y.column /\ x.order = y.order
TaskRows ==
  /\ \A t \in Tasks : Exists(tasks, t) => TaskShape(tasks[t])
  /\ \A t, u \in Tasks : Exists(tasks, t) /\ Exists(tasks, u) /\ SamePlace(tasks[t], tasks[u]) => t = u
TaskJob(w) ==
  LET row == job[w].row
      t == job[w].at
  IN /\ Doing(w, "createTask") =>
          TaskShape(row) /\ \A u \in Tasks : Exists(tasks, u) => ~SamePlace(tasks[u], row)
     /\ Doing(w, "updateTask") =>
          t \in Tasks /\ Exists(tasks, t) /\ TaskShape(row) /\ SamePlace(tasks[t], row)
     /\ Doing(w, "moveTask") =>
          t \in Tasks /\ Exists(tasks, t) /\ job[w].old = tasks[t] /\ TaskShape(row)
            /\ row.business = tasks[t].business
Placed == OneByOne /\ "restatus" \notin mix
BoardInv ==
  /\ DOMAIN tasks = Tasks
  /\ Placed => TaskRows /\ \A w \in Workers : TaskJob(w)

LEMMA BoardBy ==
  ASSUME JobsShape, BoardInv, NEW w \in Workers, Acts(w), DOMAIN tasks' = Tasks,
         Placed /\ TaskRows /\ TaskJob(w) => TaskRows' /\ TaskJob(w)'
  PROVE  BoardInv'
<1> SUFFICES ASSUME Placed' PROVE TaskRows' /\ \A v \in Workers : TaskJob(v)'
  BY DEF BoardInv
<1>1. Placed /\ \A v \in Workers \ {w} : Free(v)'
  BY DEF Placed, Acts, OneByOne, Free
<1>2. TaskRows' /\ TaskJob(w)' BY <1>1 DEF BoardInv
<1>3. ASSUME NEW v \in Workers, v # w PROVE TaskJob(v)'
  BY <1>1, <1>3 DEF TaskJob, Doing, Free, Idle
<1> QED BY <1>2, <1>3

LEMMA BoardUntouched ==
  ASSUME JobsShape, BoardInv, NEW w \in Workers, Acts(w), UNCHANGED tasks,
         job'[w].op \notin {"createTask", "updateTask", "moveTask"}
  PROVE  BoardInv'
<1>1. TaskRows /\ TaskJob(w) => TaskRows' /\ TaskJob(w)'
  BY DEF TaskRows, TaskJob, Doing, Exists
<1> QED BY <1>1, BoardBy DEF BoardInv

(* A finite set of integers that is not empty has a largest one. *)
LEMMA Largest ==
  ASSUME NEW S, IsFiniteSet(S), S \subseteq Int, S # {}
  PROVE  \E k \in S : \A j \in S : j <= k
<1> DEFINE Bad == {T \in SUBSET S : T # {} /\ ~\E k \in T : \A j \in T : j <= k}
<1>1. SUFFICES ASSUME Bad # {} PROVE FALSE
  OBVIOUS
<1>2. PICK T \in Bad : \A U \in SUBSET T : U # T => U \notin Bad
  <2>1. Bad \subseteq SUBSET S OBVIOUS
  <2> HIDE DEF Bad
  <2> QED BY <1>1, <2>1, LeastSubset
<1>3. PICK x \in T : TRUE
  BY <1>2
<1>4. T \ {x} \in SUBSET T /\ T \ {x} # T BY <1>3
<1>5. CASE T \ {x} = {}
  <2>1. \A j \in T : j = x BY <1>5
  <2> QED BY <1>2, <1>3, <2>1
<1>6. CASE T \ {x} # {}
  <2>1. PICK k \in T \ {x} : \A j \in T \ {x} : j <= k
    BY <1>2, <1>4, <1>6
  <2>2. x \in Int /\ k \in Int /\ \A j \in T : j \in Int
    BY <1>2, <1>3
  <2>3. CASE x <= k
    <3>1. \A j \in T : j <= k BY <2>1, <2>3
    <3> QED BY <1>2, <3>1
  <2>4. CASE k < x
    <3>1. \A j \in T : j <= x BY <2>1, <2>2, <2>4
    <3> QED BY <1>2, <1>3, <3>1
  <2> QED BY <2>2, <2>3, <2>4
<1> QED BY <1>5, <1>6

(* The place below the last one of a column is nobody's. *)
LEMMA NextOrderFree ==
  ASSUME WorkspaceAssumption, DOMAIN tasks = Tasks, TaskRows, NEW b, NEW column
  PROVE  /\ NextOrder(b, column) \in Int
         /\ \A t \in Column(b, column) : tasks[t].order # NextOrder(b, column)
<1> DEFINE O == Orders(b, column)
<1>1. O \subseteq Int
  BY DEF Orders, Column, Rows, TaskRows, TaskShape
<1>2. IsFiniteSet(O)
  <2>1. IsFiniteSet(Column(b, column))
    BY FS_Subset DEF Column, Rows, WorkspaceAssumption
  <2> DEFINE C == Column(b, column)
             f == [t \in C |-> tasks[t].order]
  <2>2. f \in Surjection(C, O) BY DEF Surjection, Orders
  <2> HIDE DEF C, f, O
  <2> QED BY <2>1, <2>2, FS_Surjection DEF C
<1>3. \A t \in Column(b, column) : tasks[t].order \in O
  BY DEF Orders
<1> HIDE DEF O
<1>4. CASE O = {}
  BY <1>3, <1>4 DEF NextOrder, O
<1>5. CASE O # {}
  <2>1. \E k \in O : \A j \in O : j <= k
    BY <1>1, <1>2, <1>5, Largest
  <2> DEFINE k == CHOOSE k \in O : \A j \in O : j <= k
  <2>2. k \in O /\ \A j \in O : j <= k BY <2>1
  <2>3. NextOrder(b, column) = 1 + k
    BY <1>5 DEF NextOrder, O
  <2> HIDE DEF k
  <2> QED BY <1>1, <1>3, <2>2, <2>3
<1> QED BY <1>4, <1>5

(* The two statements that make room keep apart who was apart, and empty
   the place that is moved into. *)
Moved(x, old, row) == IF old.column # row.column THEN Across(x, old, row) ELSE Within(x, old, row)

LEMMA MovedApart ==
  ASSUME NEW x, NEW y, NEW old, NEW row, x.order \in Int, y.order \in Int, old.order \in Int, row.order \in Int,
         x.column = y.column, x.order # y.order,
         x.column = old.column => x.order # old.order /\ y.order # old.order
  PROVE  Moved(x, old, row) # Moved(y, old, row)
<1>1. CASE old.column # row.column
  BY <1>1 DEF Moved, Across, Closing, Opening
<1>2. CASE old.column = row.column
  BY <1>2 DEF Moved, Within
<1> QED BY <1>1, <1>2

LEMMA MovedOut ==
  ASSUME NEW x, NEW old, NEW row, x.order \in Int, old.order \in Int, row.order \in Int,
         x.column = old.column => x.order # old.order
  PROVE  /\ Moved(x, old, row) \in Int
         /\ x.column = row.column => Moved(x, old, row) # row.order
<1>1. CASE old.column # row.column
  BY <1>1 DEF Moved, Across, Closing, Opening
<1>2. CASE old.column = row.column
  BY <1>2 DEF Moved, Within
<1> QED BY <1>1, <1>2

LEMMA TaskMovedWell ==
  ASSUME DOMAIN tasks = Tasks, TaskRows, NEW t \in Tasks, Exists(tasks, t), NEW row, TaskShape(row),
         row.business = tasks[t].business,
         tasks' = [MakesRoom(tasks[t], row) EXCEPT ![t] = row]
  PROVE  DOMAIN tasks' = Tasks /\ TaskRows'
<1> DEFINE old == tasks[t]
           Set(x) == [tasks[x] EXCEPT !.order = Moved(tasks[x], old, row)]
<1>1. DOMAIN tasks' = Tasks /\ tasks'[t] = row
  BY DEF MakesRoom
<1>2. ASSUME NEW x \in Tasks, x # t, ~Exists(tasks, x) \/ tasks[x].business # row.business PROVE tasks'[x] = tasks[x]
  BY <1>2 DEF MakesRoom
<1>3. ASSUME NEW x \in Tasks, x # t, Exists(tasks, x), tasks[x].business = row.business
      PROVE  /\ tasks'[x] = Set(x) /\ TaskShape(Set(x))
             /\ Set(x).business = tasks[x].business /\ Set(x).column = tasks[x].column
             /\ Set(x).order = Moved(tasks[x], old, row)
             /\ tasks[x].order \in Int
             /\ tasks[x].column = old.column => tasks[x].order # old.order
             /\ tasks[x].column = row.column => Moved(tasks[x], old, row) # row.order
  <2>1. tasks'[x] = Set(x) BY <1>3 DEF MakesRoom, Moved
  <2>2. TaskShape(tasks[x]) /\ TaskShape(old)
    BY <1>3 DEF TaskRows
  <2>3. tasks[x].column = old.column => tasks[x].order # old.order
    BY <1>3 DEF TaskRows, SamePlace
  <2>4. /\ Moved(tasks[x], old, row) \in Int
        /\ tasks[x].column = row.column => Moved(tasks[x], old, row) # row.order
    BY <2>2, <2>3, MovedOut DEF TaskShape
  <2>5. /\ TaskShape(Set(x)) /\ Set(x).business = tasks[x].business /\ Set(x).column = tasks[x].column
        /\ Set(x).order = Moved(tasks[x], old, row)
    BY <2>2, <2>4 DEF TaskShape
  <2> QED BY <2>1, <2>2, <2>3, <2>4, <2>5 DEF TaskShape
<1>4. TaskShape(old) /\ old.order \in Int /\ row.order \in Int
  BY DEF TaskRows, TaskShape
<1> HIDE DEF Set, old
<1>5. ASSUME NEW x \in Tasks, Exists(tasks', x) PROVE TaskShape(tasks'[x])
  <2>1. CASE x = t
    BY <1>1, <2>1
  <2>2. CASE x # t /\ (~Exists(tasks, x) \/ tasks[x].business # row.business)
    BY <1>2, <1>5, <2>2 DEF TaskRows, Exists
  <2>3. CASE x # t /\ Exists(tasks, x) /\ tasks[x].business = row.business
    BY <1>3, <2>3
  <2> QED BY <2>1, <2>2, <2>3
<1>6. ASSUME NEW x \in Tasks, Exists(tasks', x), x # t PROVE ~SamePlace(tasks'[x], row)
  <2>1. CASE ~Exists(tasks, x) \/ tasks[x].business # row.business
    BY <1>2, <1>6, <2>1 DEF SamePlace, Exists
  <2>2. CASE Exists(tasks, x) /\ tasks[x].business = row.business
    BY <1>3, <1>6, <2>2 DEF SamePlace
  <2> QED BY <2>1, <2>2
<1>7. ASSUME NEW x \in Tasks, NEW y \in Tasks, x # t, y # t, Exists(tasks', x), Exists(tasks', y),
             SamePlace(tasks'[x], tasks'[y])
      PROVE  x = y
  <2>1. /\ Exists(tasks, x) /\ Exists(tasks, y)
        /\ tasks'[x].business = tasks[x].business /\ tasks'[y].business = tasks[y].business
    BY <1>2, <1>3, <1>7 DEF Exists
  <2>2. CASE tasks[x].business # row.business
    BY <1>2, <1>7, <2>1, <2>2 DEF SamePlace, TaskRows
  <2>3. CASE tasks[x].business = row.business
    <3>1. tasks[y].business = row.business
      BY <1>7, <2>1, <2>3 DEF SamePlace
    <3>2. /\ tasks[x].column = tasks[y].column
          /\ Moved(tasks[x], old, row) = Moved(tasks[y], old, row)
      BY <1>3, <1>7, <2>1, <2>3, <3>1 DEF SamePlace
    <3>3. tasks[x].order = tasks[y].order
      BY <1>3, <1>4, <1>7, <2>1, <2>3, <3>1, <3>2, MovedApart
    <3> QED BY <2>1, <2>3, <3>1, <3>2, <3>3 DEF TaskRows, SamePlace
  <2> QED BY <2>2, <2>3
<1> QED BY <1>1, <1>5, <1>6, <1>7 DEF TaskRows, SamePlace

LEMMA WorkspaceKeepsBoard ==
  ASSUME WorkspaceAssumption, JobsShape, BoardInv, NEW w \in Workers, WorkspaceNext(w), Acts(w)
  PROVE  BoardInv'
<1> SUFFICES ASSUME DOMAIN tasks = Tasks PROVE BoardInv'
  BY DEF BoardInv
<1> USE BeginActs, AtOnceActs, ContinueActs, FinishActs, Busy
<1> USE DEF Doing
<1>1. ASSUME NEW p \in People, NEW b \in Businesses, CreateTask(w, p, b) PROVE BoardInv'
  <2>1. PICK column, due :
          job'[w] = [op |-> "createTask", row |-> Task(b, column, NextOrder(b, column), due)]
    BY <1>1 DEF CreateTask, Begin, JobsShape
  <2>2. UNCHANGED tasks
    BY <1>1 DEF CreateTask, workspaceVars
  <2>3. ASSUME TaskRows PROVE TaskRows' /\ TaskJob(w)'
    <3> DEFINE row == Task(b, column, NextOrder(b, column), due)
    <3>1. TaskShape(row) /\ row.business = b /\ row.column = column /\ row.order = NextOrder(b, column)
      BY <2>3, NextOrderFree DEF Task, TaskShape
    <3>2. job'[w].op = "createTask" /\ job'[w].row = row
      BY <2>1
    <3> HIDE DEF row
    <3>3. ASSUME NEW u \in Tasks, Exists(tasks, u) PROVE ~SamePlace(tasks[u], row)
      <4>1. SamePlace(tasks[u], row) => u \in Column(b, column)
        BY <3>1, <3>3 DEF Column, Rows, SamePlace
      <4> QED BY <2>3, <3>1, <4>1, NextOrderFree DEF SamePlace
    <3> QED BY <2>2, <2>3, <3>1, <3>2, <3>3 DEF TaskRows, TaskJob, Exists
  <2> QED BY <2>2, <2>3, BoardBy
<1>2. ASSUME NEW p \in People, NEW b \in Businesses, CreateCheckin(w, p, b) PROVE BoardInv'
  BY <1>2, BoardUntouched DEF CreateCheckin, Idle
<1>3. ASSUME NEW p \in People, NEW t \in Tasks, UpdateTask(w, p, t) PROVE BoardInv'
  <2>0. PICK column \in {tasks[t].column} \cup (IF "restatus" \in mix THEN TaskStatus \cap mix ELSE {}) :
          \E due \in Due \cap mix :
            Begin(w, [op |-> "updateTask", at |-> t, row |-> [tasks[t] EXCEPT !.column = column, !.due = due]])
    BY <1>3, Zenon DEF UpdateTask
  <2>1. PICK due \in Due \cap mix :
          Begin(w, [op |-> "updateTask", at |-> t, row |-> [tasks[t] EXCEPT !.column = column, !.due = due]])
    BY <2>0, Zenon
  <2>2. UNCHANGED tasks /\ Exists(tasks, t)
    BY <1>3 DEF UpdateTask, workspaceVars
  <2>3. ASSUME Placed, TaskRows PROVE TaskRows' /\ TaskJob(w)'
    <3> DEFINE row == [tasks[t] EXCEPT !.column = column, !.due = due]
    <3>1. TaskShape(tasks[t]) /\ column = tasks[t].column
      BY <2>0, <2>2, <2>3 DEF TaskRows, Placed
    <3>2. TaskShape(row) /\ SamePlace(tasks[t], row)
      BY <3>1 DEF TaskShape, SamePlace
    <3>3. job'[w].op = "updateTask" /\ job'[w].at = t /\ job'[w].row = row
      BY <2>1 DEF Begin, JobsShape
    <3> HIDE DEF row
    <3> QED BY <2>2, <2>3, <3>2, <3>3 DEF TaskRows, TaskJob, Exists
  <2> QED BY <2>2, <2>3, BoardBy
<1>4. ASSUME NEW p \in People, NEW t \in Tasks, MoveTask(w, p, t) PROVE BoardInv'
  <2>1. PICK column \in TaskStatus \cap mix, order \in 0 .. MaxOrder :
          Begin(w, [op |-> "moveTask", at |-> t, old |-> tasks[t],
                    row |-> [tasks[t] EXCEPT !.column = column, !.order = order]])
    BY <1>4, Zenon DEF MoveTask
  <2>2. UNCHANGED tasks /\ Exists(tasks, t)
    BY <1>4 DEF MoveTask, workspaceVars
  <2>3. ASSUME TaskRows PROVE TaskRows' /\ TaskJob(w)'
    <3> DEFINE row == [tasks[t] EXCEPT !.column = column, !.order = order]
    <3>1. TaskShape(tasks[t]) BY <2>2, <2>3 DEF TaskRows
    <3>2. TaskShape(row) /\ row.business = tasks[t].business
      BY <3>1 DEF TaskShape
    <3>3. job'[w].op = "moveTask" /\ job'[w].at = t /\ job'[w].old = tasks[t] /\ job'[w].row = row
      BY <2>1 DEF Begin, JobsShape
    <3> HIDE DEF row
    <3> QED BY <2>2, <2>3, <3>2, <3>3 DEF TaskRows, TaskJob, Exists
  <2> QED BY <2>2, <2>3, BoardBy
<1>5. ASSUME NEW p \in People, NEW t \in Tasks, RemoveTask(w, p, t) PROVE BoardInv'
  <2>1. tasks' = [tasks EXCEPT ![t] = Absent] /\ job'[w] = Idle
    BY <1>5 DEF RemoveTask
  <2>2. TaskRows => TaskRows' /\ TaskJob(w)'
    BY <2>1 DEF TaskRows, TaskJob, Exists, Idle
  <2> QED BY <2>1, <2>2, BoardBy
<1>6. ASSUME NEW p \in People, NEW t \in Tasks, CreateSubtask(w, p, t) PROVE BoardInv'
  BY <1>6, BoardUntouched DEF CreateSubtask, Idle
<1>7. ASSUME NEW p \in People, NEW s \in Subtasks, UpdateSubtask(w, p, s) PROVE BoardInv'
  BY <1>7, BoardUntouched DEF UpdateSubtask, workspaceVars, Begin, JobsShape
<1>8. ASSUME NEW p \in People, NEW s \in Subtasks, MarkComplete(w, p, s) PROVE BoardInv'
  BY <1>8, BoardUntouched DEF MarkComplete, workspaceVars, Begin, JobsShape
<1>9. ASSUME NEW p \in People, NEW s \in Subtasks, RemoveSubtask(w, p, s) PROVE BoardInv'
  BY <1>9, BoardUntouched DEF RemoveSubtask, Idle
<1>10. ASSUME NEW p \in People, NEW s \in Sockets, NEW b \in Businesses, Connect(w, s, p, b) PROVE BoardInv'
  BY <1>10, BoardUntouched DEF Connect, Idle
<1>11. ASSUME NEW t \in Tasks, PostMessage(w, t) PROVE BoardInv'
  BY <1>11, BoardUntouched DEF PostMessage, Idle
<1>12. ASSUME NEW t \in Tasks, NEW m \in Messages, Reply(w, m, t) PROVE BoardInv'
  BY <1>12, BoardUntouched DEF Reply, workspaceVars, Begin, JobsShape
<1>13. ASSUME NEW s \in Sockets, Disconnect(w, s) PROVE BoardInv'
  BY <1>13, BoardUntouched DEF Disconnect, Idle
<1>14. CASE TaskSaved(w)
  <2> DEFINE n == Fresh(tasks)
             row == job[w].row
  <2>1. n \in Tasks /\ ~Exists(tasks, n)
    BY <1>14, FreshRow DEF TaskSaved
  <2>2. Doing(w, "createTask") /\ tasks' = [tasks EXCEPT ![n] = row] /\ job'[w] = Idle
    BY <1>14 DEF TaskSaved
  <2> HIDE DEF n, row
  <2>3. ASSUME TaskRows, TaskJob(w) PROVE TaskRows' /\ TaskJob(w)'
    <3>1. TaskShape(row) /\ \A u \in Tasks : Exists(tasks, u) => ~SamePlace(tasks[u], row)
      BY <2>2, <2>3 DEF TaskJob, row
    <3> QED BY <2>1, <2>2, <2>3, <3>1 DEF TaskRows, SamePlace, TaskJob, Idle, Exists
  <2>4. DOMAIN tasks' = Tasks BY <2>2
  <2> QED BY <2>3, <2>4, BoardBy
<1>15. CASE TaskUpdated(w)
  <2> DEFINE t == job[w].at
             row == job[w].row
  <2>1. Doing(w, "updateTask") /\ tasks' = [tasks EXCEPT ![t] = row] /\ job'[w] = Idle
    BY <1>15 DEF TaskUpdated
  <2>2. ASSUME TaskRows, TaskJob(w) PROVE TaskRows' /\ TaskJob(w)'
    <3>1. t \in Tasks /\ Exists(tasks, t) /\ TaskShape(row) /\ SamePlace(tasks[t], row)
      BY <2>1, <2>2 DEF TaskJob
    <3> HIDE DEF t, row
    <3> QED BY <2>1, <2>2, <3>1 DEF TaskRows, SamePlace, TaskJob, Idle, Exists
  <2>3. DOMAIN tasks' = Tasks BY <2>1
  <2> QED BY <2>2, <2>3, BoardBy
<1>16. CASE TaskMoved(w)
  <2> DEFINE t == job[w].at
             row == job[w].row
             old == job[w].old
  <2>1. Doing(w, "moveTask") /\ tasks' = [MakesRoom(old, row) EXCEPT ![t] = row]
    BY <1>16 DEF TaskMoved
  <2>2. job'[w].op \in {"log", "idle"}
    BY <1>16 DEF TaskMoved, Idle
  <2>3. ASSUME TaskRows, TaskJob(w) PROVE TaskRows' /\ TaskJob(w)'
    <3>1. t \in Tasks /\ Exists(tasks, t) /\ TaskShape(row) /\ old = tasks[t] /\ row.business = tasks[t].business
      BY <2>1, <2>3 DEF TaskJob
    <3>2. TaskJob(w)' BY <2>2 DEF TaskJob
    <3> HIDE DEF t, row, old
    <3> QED BY <2>1, <2>3, <3>1, <3>2, TaskMovedWell
  <2>4. DOMAIN tasks' = Tasks BY <2>1 DEF MakesRoom
  <2> QED BY <2>3, <2>4, BoardBy
<1>17. CASE ActivityLogged(w)
  BY <1>17, BoardUntouched DEF ActivityLogged, Idle
<1>18. CASE SubtaskSaved(w)
  BY <1>18, BoardUntouched DEF SubtaskSaved, Idle
<1>19. CASE ReplyCounted(w)
  BY <1>19, BoardUntouched DEF ReplyCounted, JobsShape
<1>20. CASE ReplySaved(w) \/ NextDay(w) \/ Restart(w)
  BY <1>20, BoardUntouched DEF ReplySaved, NextDay, Restart, Idle
<1> QED
  BY <1>1, <1>2, <1>3, <1>4, <1>5, <1>6, <1>7, <1>8, <1>9, <1>10, <1>11, <1>12, <1>13, <1>14, <1>15, <1>16, <1>17,
     <1>18, <1>19, <1>20 DEF WorkspaceNext

LEMMA BoardStep ==
  ASSUME JobsAssumption, WorkspaceAssumption, JobsShape, BoardInv, [OfficeNext]_officeVars
  PROVE  BoardInv'
<1>1. CASE UNCHANGED officeVars
  BY <1>1 DEF officeVars, jobVars, workspaceVars, BoardInv, Placed, TaskRows, TaskJob, Doing, OneByOne, Exists
<1>2. ASSUME NEW w \in Serving, UNCHANGED workspaceVars, Goes(w, AccountOps) \/ Goes(w, MemberOps) \/ Fails(w)
      PROVE  BoardInv'
  <2>1. Acts(w) /\ job'[w].op \notin {"createTask", "updateTask", "moveTask"} /\ UNCHANGED tasks
    BY <1>2 DEF Goes, Fails, AccountOps, Edits, Lockings, MemberOps, Idle, workspaceVars
  <2> QED BY <2>1, ServingWork, BoardUntouched
<1>3. ASSUME NEW w \in Serving, WorkspaceNext(w), Goes(w, WorkspaceOps) PROVE BoardInv'
  BY <1>3, ServingWork, WorkspaceKeepsBoard DEF Goes
<1> QED BY <1>1, <1>2, <1>3, OfficeStep

(* OneTaskPerPlace, for any number of tasks, columns and moves: what the
   two shifting statements of moveTask do is injective on every column. *)
THEOREM OnePlaceAlways ==
  ASSUME JobsAssumption, WorkspaceAssumption PROVE OfficeSpec => []OneTaskPerPlace
<1>1. Init => JobsShape /\ BoardInv
  <2> SUFFICES ASSUME Init PROVE BoardInv
    BY ShapeInit
  <2>1. \A w \in Workers : TaskJob(w)
    BY DEF Init, JobsInit, TaskJob, Doing, Idle
  <2> QED BY <2>1 DEF Init, WorkspaceInit, BoardInv, TaskRows, Exists
<1>2. JobsShape /\ BoardInv /\ [OfficeNext]_officeVars => (JobsShape /\ BoardInv)'
  BY ShapeStays, BoardStep
<1>3. BoardInv => OneTaskPerPlace
  BY DEF BoardInv, TaskRows, SamePlace, OneTaskPerPlace, Placed, Apart, OneByOne, Rows
<1> QED BY <1>1, <1>2, <1>3, PTL DEF OfficeSpec

----
(* Discussions: a message counts its replies and the handlers that have
   counted one and not inserted it yet, however many overlap.  Whatever
   message there is has its task and its parent; and where replies name the
   task of their parent and nothing fails, it counts no more than those. *)
Here(row) == "status" \in DOMAIN row /\ row.status = "HERE"
MessageShape(row) ==
  /\ DOMAIN row = {"status", "task", "parent", "replyCount"} /\ row.status = "HERE"
  /\ row.task \in Tasks /\ row.parent \in Messages \cup {NoParent} /\ row.replyCount \in Nat
Kept == {"fail", "astray"} \cap mix = {}
Counting(m) == {w \in Workers : Doing(w, "replied") /\ job[w].parent = m}
Told(m) == Cardinality(Replies(m)) + Cardinality(Counting(m))
Below(p, t) == Exists(messages, p) /\ (Kept => messages[p].task = t)
MessageInv(m) ==
  LET row == messages[m]
  IN /\ MessageShape(row) /\ Exists(tasks, row.task)
     /\ row.parent # NoParent => Below(row.parent, row.task)
     /\ row.replyCount >= Told(m)
     /\ Kept => row.replyCount = Told(m)
TalkRows ==
  /\ \A t \in Tasks : Exists(tasks, t) => Here(tasks[t])
  /\ \A m \in Messages : Exists(messages, m) => MessageInv(m)
TalkJob(w) ==
  /\ job[w].op \in {"createTask", "updateTask", "moveTask"} => Here(job[w].row)
  /\ job[w].op \in {"reply", "replied"} =>
       /\ DOMAIN job[w] = {"op", "parent", "task"} /\ job[w].parent \in Messages /\ job[w].task \in Tasks
       /\ Exists(messages, job[w].parent) => Below(job[w].parent, job[w].task)
TalkInv ==
  /\ DOMAIN tasks = Tasks /\ DOMAIN messages = Messages
  /\ TalkRows
  /\ \A w \in Workers : TalkJob(w)

LEMMA HereExists == ASSUME NEW row, Here(row) PROVE row # Absent
BY DEF Here, Absent

LEMMA TalkBy ==
  ASSUME TalkInv, NEW w \in Workers, Acts(w), DOMAIN tasks' = Tasks, DOMAIN messages' = Messages,
         TalkRows', TalkJob(w)',
         \A m \in Messages : Exists(messages', m) =>
           \/ Exists(messages, m) /\ messages'[m].task = messages[m].task
           \/ \A v \in Workers : ~Holds(v, m)
  PROVE  TalkInv'
<1>1. ASSUME NEW v \in Workers, v # w PROVE TalkJob(v)'
  BY <1>1 DEF TalkInv, TalkJob, Acts, Holds, Below, Kept
<1> QED BY <1>1 DEF TalkInv

LEMMA CountingSame ==
  ASSUME NEW w \in Workers, Acts(w), job[w].op # "replied", job'[w].op # "replied", NEW m
  PROVE  Counting(m)' = Counting(m)
BY DEF Counting, Acts, Doing

LEMMA CountingFinite ==
  ASSUME JobsAssumption, WorkspaceAssumption, DOMAIN messages = Messages, NEW m
  PROVE  /\ IsFiniteSet(Counting(m)) /\ Cardinality(Counting(m)) \in Nat
         /\ IsFiniteSet(Replies(m)) /\ Cardinality(Replies(m)) \in Nat
<1>1. Counting(m) \subseteq Workers /\ Replies(m) \subseteq Messages
  BY DEF Counting, Replies, Rows
<1>2. IsFiniteSet(Counting(m)) /\ IsFiniteSet(Replies(m))
  BY <1>1, FS_Subset DEF JobsAssumption, WorkspaceAssumption
<1> QED BY <1>2, FS_CardinalityType

(* Nothing is written to the discussion, no task goes, and no handler ends
   but one that has counted a reply to a message that is not there or, where
   that may happen, has no task for it. *)
LEMMA TalkRests ==
  ASSUME JobsAssumption, WorkspaceAssumption, TalkInv, NEW w \in Workers, DOMAIN job' = Workers,
         \A v \in Workers \ {w} : job'[v] = job[v], mix' = mix,
         UNCHANGED messages, DOMAIN tasks' = Tasks,
         \A t \in Tasks : (Exists(tasks, t) => Exists(tasks', t)) /\ (Exists(tasks', t) => Here(tasks'[t])),
         job'[w].op # "replied",
         Doing(w, "replied") => ~Kept \/ ~Exists(messages, job[w].parent),
         TalkJob(w)'
  PROVE  TalkInv'
<1>1. ASSUME NEW m \in Messages, Exists(messages', m) PROVE MessageInv(m)'
  <2>1. MessageInv(m) /\ Replies(m)' = Replies(m) /\ Kept' = Kept
    BY <1>1 DEF TalkInv, TalkRows, Replies, Rows, Exists, Kept
  <2>2. Counting(m)' \subseteq Counting(m) /\ (Kept => Counting(m)' = Counting(m))
    BY <1>1 DEF Counting, Doing, Exists
  <2>3. Cardinality(Counting(m)') \in Nat /\ Cardinality(Counting(m)') <= Cardinality(Counting(m))
    BY <2>2, CountingFinite, FS_Subset, FS_CardinalityType DEF TalkInv
  <2>4. messages[m].replyCount >= Told(m)' /\ (Kept => messages[m].replyCount = Told(m)')
    BY <2>1, <2>2, <2>3, CountingFinite DEF TalkInv, MessageInv, MessageShape, Told
  <2>5. Exists(tasks', messages[m].task)
    BY <2>1 DEF MessageInv, MessageShape
  <2>6. messages[m].parent # NoParent => Below(messages[m].parent, messages[m].task)'
    BY <2>1 DEF MessageInv, Below, Exists
  <2> QED BY <2>1, <2>4, <2>5, <2>6 DEF MessageInv
<1>2. TalkRows' BY <1>1 DEF TalkRows
<1>3. ASSUME NEW v \in Workers, v # w PROVE TalkJob(v)'
  BY <1>3 DEF TalkInv, TalkJob, Below, Kept, Exists
<1> QED BY <1>2, <1>3 DEF TalkInv

(* The discussion is as it was, and no task has gone. *)
LEMMA TalkUntouched ==
  ASSUME JobsAssumption, WorkspaceAssumption, TalkInv, NEW w \in Workers, Acts(w), UNCHANGED messages,
         DOMAIN tasks' = Tasks,
         \A t \in Tasks : (Exists(tasks, t) => Exists(tasks', t)) /\ (Exists(tasks', t) => Here(tasks'[t])),
         job[w].op \notin {"reply", "replied"}, job'[w].op \notin {"reply", "replied"},
         job'[w].op \in {"createTask", "updateTask", "moveTask"} => Here(job'[w].row)
  PROVE  TalkInv'
<1>1. TalkJob(w)' /\ ~Doing(w, "replied") /\ job'[w].op # "replied"
  BY DEF TalkJob, Doing
<1> QED BY <1>1, TalkRests DEF Acts

LEMMA TasksUntouched ==
  ASSUME JobsAssumption, WorkspaceAssumption, TalkInv, NEW w \in Workers, Acts(w), UNCHANGED <<tasks, messages>>,
         job[w].op \notin {"reply", "replied"},
         job'[w].op \notin {"createTask", "updateTask", "moveTask", "reply", "replied"}
  PROVE  TalkInv'
BY TalkUntouched DEF TalkInv, TalkRows, Exists

(* A task that is written is there. *)
LEMMA TasksWritten ==
  ASSUME JobsAssumption, WorkspaceAssumption, TalkInv, NEW w \in Workers, Acts(w), UNCHANGED messages,
         DOMAIN tasks' = Tasks,
         \A t \in Tasks : tasks'[t] = tasks[t] \/ Here(tasks'[t]),
         job[w].op \notin {"reply", "replied"},
         job'[w].op \notin {"createTask", "updateTask", "moveTask", "reply", "replied"}
  PROVE  TalkInv'
<1>1. \A t \in Tasks : (Exists(tasks, t) => Exists(tasks', t)) /\ (Exists(tasks', t) => Here(tasks'[t]))
  BY HereExists DEF TalkInv, TalkRows, Exists
<1> QED BY <1>1, TalkUntouched

(* A message is inserted: who has not been one so far has no reply, and
   nobody is counting one for it; its parent has one more, and one handler
   less that counts one. *)
LEMMA MessageAdded ==
  ASSUME JobsAssumption, WorkspaceAssumption, TalkInv, NEW w \in Workers, Acts(w), UNCHANGED tasks,
         NEW t \in Tasks, Exists(tasks, t), NEW p \in Messages \cup {NoParent},
         p # NoParent => Below(p, t) /\ w \in Counting(p),
         \A m \in Messages : Counting(m)' = IF m = p THEN Counting(m) \ {w} ELSE Counting(m),
         Unheld # {}, messages' = [messages EXCEPT ![NewMessage] = Message(t, p)],
         TalkJob(w)'
  PROVE  TalkInv'
<1> DEFINE n == NewMessage
           row == Message(t, p)
<1>1. n \in Messages /\ ~Exists(messages, n) /\ \A v \in Workers : ~Holds(v, n)
  BY DEF Unheld, NewMessage
<1>2. MessageShape(row) /\ row.task = t /\ row.parent = p /\ row.replyCount = 0
  BY DEF Message, MessageShape
<1> HIDE DEF n, row
<1>3. DOMAIN messages' = Messages /\ messages'[n] = row /\ \A m \in Messages \ {n} : messages'[m] = messages[m]
  BY <1>1 DEF TalkInv, n, row
<1>4. Exists(messages', n) /\ n # p /\ (p # NoParent => p \in Messages) /\ Kept' = Kept
  BY <1>1, <1>2, <1>3, HereExists DEF MessageShape, Here, Exists, Below, WorkspaceAssumption, Acts, Kept
<1>5. \A m \in Messages : Exists(messages', m) <=> m = n \/ Exists(messages, m)
  BY <1>1, <1>3, <1>4 DEF Exists
<1>6. \A m \in Messages, k \in Tasks : m # n /\ Below(m, k) => Below(m, k)'
  BY <1>3, <1>4, <1>5 DEF Below
<1>7. ASSUME NEW m \in Messages PROVE Replies(m)' = IF m = p THEN Replies(m) \cup {n} ELSE Replies(m)
  <2>1. \A r \in Messages \ {n} : Exists(messages', r) /\ messages'[r].parent = m
                                    <=> Exists(messages, r) /\ messages[r].parent = m
    BY <1>3, <1>5
  <2>2. /\ Replies(m) = {r \in Messages : Exists(messages, r) /\ messages[r].parent = m}
        /\ Replies(m)' = {r \in Messages : Exists(messages', r) /\ messages'[r].parent = m}
    BY <1>3 DEF Replies, Rows, TalkInv
  <2>3. Exists(messages', n) /\ messages'[n].parent = p /\ ~Exists(messages, n)
    BY <1>1, <1>2, <1>3, <1>4
  <2> QED BY <1>1, <2>1, <2>2, <2>3
<1>8. ASSUME NEW m \in Messages, Exists(messages, m)
      PROVE  MessageInv(m) /\ m # n /\ (messages[m].parent # NoParent => messages[m].parent \in Messages \ {n})
  BY <1>1, <1>8 DEF TalkInv, TalkRows, MessageInv, MessageShape, Below
<1>9. ASSUME NEW m \in Messages, Exists(messages', m) PROVE MessageInv(m)'
  <2>1. CASE m = n
    <3>1. Replies(n) = {}
      BY <1>1, <1>8 DEF Replies, Rows, TalkInv, WorkspaceAssumption
    <3>2. Counting(n) = {}
      BY <1>1 DEF Counting, Doing, Holds
    <3>3. Cardinality(Replies(m)') = 0 /\ Cardinality(Counting(m)') = 0
      BY <1>1, <1>4, <1>7, <2>1, <3>1, <3>2, FS_EmptySet
    <3>4. p # NoParent => Below(p, t)'
      BY <1>4, <1>6
    <3> QED BY <1>2, <1>3, <2>1, <3>3, <3>4 DEF MessageInv, Told, Exists
  <2>2. CASE m # n
    <3>1. Exists(messages, m) /\ messages'[m] = messages[m]
      BY <1>3, <1>5, <1>9, <2>2
    <3>2. MessageInv(m) /\ MessageShape(messages[m]) /\ (messages[m].parent # NoParent => messages[m].parent \in Messages \ {n})
      BY <1>8, <3>1 DEF MessageInv
    <3>3. messages[m].parent # NoParent => Below(messages[m].parent, messages[m].task)'
      BY <1>6, <3>1, <3>2 DEF MessageInv, MessageShape
    <3>4. Told(m)' = Told(m)
      <4>1. CASE m # p
        BY <1>7, <4>1 DEF Told
      <4>2. CASE m = p
        <5>1. n \notin Replies(m)
          BY <1>1 DEF Replies, Rows
        <5>2. Cardinality(Replies(m)') = Cardinality(Replies(m)) + 1
          BY <1>7, <4>2, <5>1, CountingFinite, FS_AddElement DEF TalkInv
        <5>3. Cardinality(Counting(m)') = Cardinality(Counting(m)) - 1
          BY <4>2, CountingFinite, FS_RemoveElement, <1>4 DEF TalkInv
        <5> QED BY <5>2, <5>3, CountingFinite DEF TalkInv, Told
      <4> QED BY <4>1, <4>2
    <3> QED BY <1>4, <3>1, <3>2, <3>3, <3>4 DEF MessageInv, Exists
  <2> QED BY <2>1, <2>2
<1>10. TalkRows'
  BY <1>9 DEF TalkRows, TalkInv, Exists
<1> QED BY <1>1, <1>3, <1>5, <1>10, TalkBy DEF TalkInv

LEMMA PostKeepsTalk ==
  ASSUME JobsAssumption, WorkspaceAssumption, JobsShape, TalkInv, NEW w \in Workers, Acts(w),
         NEW t \in Tasks, PostMessage(w, t)
  PROVE  TalkInv'
<1>1. job'[w].op = "idle" /\ job[w].op = "idle"
  BY AtOnceActs DEF PostMessage, Free, Idle
<1>2. \A m \in Messages : Counting(m)' = Counting(m) /\ m # NoParent
  BY <1>1, CountingSame DEF WorkspaceAssumption
<1>3. TalkJob(w)'
  BY <1>1 DEF TalkJob
<1> QED BY <1>2, <1>3, MessageAdded DEF PostMessage

LEMMA ReplyCountedKeepsTalk ==
  ASSUME JobsAssumption, WorkspaceAssumption, JobsShape, TalkInv, NEW w \in Workers, Acts(w), ReplyCounted(w)
  PROVE  TalkInv'
<1>0. PICK p : p = job[w].parent OBVIOUS
<1>1. /\ Doing(w, "reply") /\ UNCHANGED tasks /\ mix' = mix
      /\ messages' = IF Exists(messages, p) THEN [messages EXCEPT ![p].replyCount = @ + 1] ELSE messages
      /\ Continue(w, [job[w] EXCEPT !.op = "replied"])
  BY <1>0 DEF ReplyCounted, Counted, Acts
<1>2. /\ DOMAIN job[w] = {"op", "parent", "task"} /\ p \in Messages /\ job[w].task \in Tasks
      /\ Exists(messages, p) => Below(p, job[w].task)
  BY <1>0, <1>1 DEF TalkInv, TalkJob, Doing
<1>3. /\ DOMAIN job'[w] = {"op", "parent", "task"} /\ job'[w].op = "replied" /\ job'[w].parent = p
      /\ job'[w].task = job[w].task
  <2>1. job'[w] = [job[w] EXCEPT !.op = "replied"]
    BY <1>1 DEF Continue, JobsShape
  <2> QED BY <1>0, <1>2, <2>1
<1>4. Counting(p)' = Counting(p) \cup {w} /\ w \notin Counting(p)
  BY <1>1, <1>3 DEF Counting, Acts, Doing
<1>5. \A m : m # p => Counting(m)' = Counting(m)
  BY <1>1, <1>3 DEF Counting, Acts, Doing
<1>6. DOMAIN messages' = Messages /\ \A m \in Messages : m # p => messages'[m] = messages[m]
  BY <1>1 DEF TalkInv
<1>7. ASSUME Exists(messages, p)
      PROVE  /\ MessageShape(messages'[p]) /\ Exists(messages', p)
             /\ messages'[p].task = messages[p].task /\ messages'[p].parent = messages[p].parent
             /\ messages'[p].replyCount = messages[p].replyCount + 1
  <2>1. MessageShape(messages[p])
    BY <1>2, <1>7 DEF TalkInv, TalkRows, MessageInv
  <2>2. messages'[p] = [messages[p] EXCEPT !.replyCount = @ + 1]
    BY <1>1, <1>2, <1>7 DEF TalkInv
  <2>3. MessageShape(messages'[p]) /\ messages'[p].task = messages[p].task /\ messages'[p].parent = messages[p].parent
        /\ messages'[p].replyCount = messages[p].replyCount + 1
    BY <2>1, <2>2 DEF MessageShape
  <2> QED BY <2>3, HereExists DEF MessageShape, Here, Exists
<1>8. /\ \A m \in Messages :
           /\ Exists(messages', m) <=> Exists(messages, m)
           /\ Exists(messages, m) => messages'[m].task = messages[m].task /\ messages'[m].parent = messages[m].parent
      /\ Kept' = Kept
  BY <1>1, <1>6, <1>7 DEF Exists, Kept
<1>9. /\ \A m \in Messages : Replies(m)' = Replies(m)
      /\ \A m \in Messages, t \in Tasks : Below(m, t) => Below(m, t)'
  BY <1>6, <1>8 DEF Replies, Rows, TalkInv, Below
<1>10. ASSUME NEW m \in Messages, Exists(messages', m) PROVE MessageInv(m)'
  <2>1. MessageInv(m) /\ MessageShape(messages[m])
    BY <1>8, <1>10 DEF TalkInv, TalkRows, MessageInv
  <2>2. messages'[m].parent # NoParent => Below(messages[m].parent, messages[m].task)'
    BY <1>8, <1>9, <1>10, <2>1 DEF MessageInv, MessageShape
  <2>3. Exists(tasks', messages'[m].task)
    BY <1>1, <1>8, <1>10, <2>1 DEF MessageInv, Exists
  <2>4. CASE m = p
    <3>1. Cardinality(Counting(m)') = Cardinality(Counting(m)) + 1
      BY <1>4, <2>4, CountingFinite, FS_AddElement DEF TalkInv
    <3>2. MessageShape(messages'[m]) /\ messages'[m].replyCount = messages[m].replyCount + 1
      BY <1>7, <1>8, <1>10, <2>4
    <3>3. messages[m].replyCount \in Nat /\ Told(m)' = Told(m) + 1 /\ Told(m) \in Nat
      BY <1>9, <2>1, <3>1, CountingFinite DEF TalkInv, MessageShape, Told
    <3> QED BY <1>8, <2>1, <2>2, <2>3, <3>2, <3>3 DEF MessageInv
  <2>5. CASE m # p
    <3>1. messages'[m] = messages[m] /\ Told(m)' = Told(m)
      BY <1>5, <1>6, <1>9, <2>5 DEF Told
    <3> QED BY <1>8, <2>1, <2>2, <2>3, <3>1 DEF MessageInv
  <2> QED BY <2>4, <2>5
<1>11. TalkRows'
  BY <1>1, <1>10 DEF TalkRows, TalkInv, Exists
<1>12. TalkJob(w)'
  BY <1>2, <1>3, <1>8, <1>9 DEF TalkJob
<1> QED BY <1>1, <1>6, <1>8, <1>11, <1>12, TalkBy DEF TalkInv

LEMMA ReplySavedKeepsTalk ==
  ASSUME JobsAssumption, WorkspaceAssumption, JobsShape, TalkInv, NEW w \in Workers, Acts(w), ReplySaved(w)
  PROVE  TalkInv'
<1>0. PICK p, t : p = job[w].parent /\ t = job[w].task OBVIOUS
<1>1. /\ Doing(w, "replied") /\ UNCHANGED tasks /\ mix' = mix /\ Unheld # {} /\ Finish(w)
      /\ messages' = IF Exists(tasks, t) /\ Exists(messages, p)
                     THEN [messages EXCEPT ![NewMessage] = Message(t, p)] ELSE messages
  BY <1>0 DEF ReplySaved, Acts
<1>2. p \in Messages /\ t \in Tasks /\ (Exists(messages, p) => Below(p, t))
  BY <1>0, <1>1 DEF TalkInv, TalkJob, Doing
<1>3. job'[w].op = "idle" /\ TalkJob(w)'
  BY <1>1 DEF Finish, JobsShape, Idle, TalkJob
<1>4. w \in Counting(p) /\ \A m \in Messages : Counting(m)' = IF m = p THEN Counting(m) \ {w} ELSE Counting(m)
  BY <1>0, <1>1, <1>3 DEF Counting, Acts, Doing
<1>5. CASE Exists(tasks, t) /\ Exists(messages, p)
  BY <1>1, <1>2, <1>3, <1>4, <1>5, MessageAdded
<1>6. CASE ~(Exists(tasks, t) /\ Exists(messages, p))
  <2>1. ASSUME Kept, Exists(messages, p) PROVE Exists(tasks, t)
    BY <1>2, <2>1 DEF TalkInv, TalkRows, MessageInv, Below
  <2>2. \A x \in Tasks : (Exists(tasks, x) => Exists(tasks', x)) /\ (Exists(tasks', x) => Here(tasks'[x]))
    BY <1>1 DEF TalkInv, TalkRows, Exists
  <2> QED BY <1>0, <1>1, <1>3, <1>6, <2>1, <2>2, TalkRests DEF Acts, TalkInv
<1> QED BY <1>5, <1>6

(* What goes with a task: all that belongs to it and, with a message, the
   replies to it; where replies name the task of their parent, no more. *)
LEMMA SweptAway ==
  ASSUME WorkspaceAssumption, TalkInv, NEW t
  PROVE  /\ \A m \in Messages : Exists(messages, m) /\ messages[m].task = t => m \in Swept(t)
         /\ \A r \in Messages : Exists(messages, r) /\ messages[r].parent \in Swept(t) => r \in Swept(t)
         /\ Swept(t) \subseteq Messages
         /\ Kept => \A m \in Swept(t) : messages[m].task = t
<1>1. Rows(messages) = {m \in Messages : Exists(messages, m)}
  BY DEF Rows, TalkInv
<1> DEFINE gone == {x \in Messages : messages[x].task = t}
<1>2. ASSUME Kept, NEW x \in Rows(messages), messages[x].task = t \/ messages[x].parent \in gone PROVE x \in gone
  BY <1>1, <1>2 DEF TalkInv, TalkRows, MessageInv, WorkspaceAssumption, Below
<1>3. ASSUME Kept, NEW m \in Swept(t) PROVE messages[m].task = t
  <2>1. gone \in SUBSET Messages OBVIOUS
  <2> HIDE DEF gone
  <2>2. m \in gone
    BY <1>2, <1>3, <2>1 DEF Swept
  <2> QED BY <2>2 DEF gone
<1>4. ASSUME NEW r \in Messages, Exists(messages, r), messages[r].parent \in Swept(t) PROVE r \in Swept(t)
  BY <1>1, <1>4 DEF Swept
<1> QED BY <1>1, <1>3, <1>4 DEF Swept

LEMMA RemoveKeepsTalk ==
  ASSUME JobsAssumption, WorkspaceAssumption, JobsShape, TalkInv, NEW w \in Workers, Acts(w),
         NEW p \in People, NEW t \in Tasks, RemoveTask(w, p, t)
  PROVE  TalkInv'
<1> DEFINE S == Swept(t)
<1>1. /\ tasks' = [tasks EXCEPT ![t] = Absent] /\ Kept' = Kept
      /\ messages' = [m \in Messages |-> IF m \in S THEN Absent ELSE messages[m]]
  BY DEF RemoveTask, Acts, Kept
<1>2. job[w].op = "idle" /\ job'[w].op = "idle"
  BY AtOnceActs DEF RemoveTask, Free, Idle
<1>3. /\ \A m \in Messages : Exists(messages, m) /\ messages[m].task = t => m \in S
      /\ \A r \in Messages : Exists(messages, r) /\ messages[r].parent \in S => r \in S
      /\ Kept => \A m \in S : messages[m].task = t
  BY SweptAway
<1> HIDE DEF S
<1>4. DOMAIN tasks' = Tasks /\ DOMAIN messages' = Messages /\ (\A x \in Tasks \ {t} : tasks'[x] = tasks[x])
      /\ ~Exists(tasks', t)
  BY <1>1 DEF TalkInv, Exists
<1>5. \A m \in Messages :
        /\ Exists(messages', m) <=> Exists(messages, m) /\ m \notin S
        /\ m \notin S => messages'[m] = messages[m]
  BY <1>1 DEF Exists
<1>6. ASSUME NEW m \in Messages, Exists(messages', m) PROVE MessageInv(m)'
  <2>1. MessageInv(m) /\ MessageShape(messages[m]) /\ messages'[m] = messages[m] /\ m \notin S /\ messages[m].task # t
    BY <1>3, <1>5, <1>6 DEF TalkInv, TalkRows, MessageInv
  <2>2. Replies(m)' \subseteq Replies(m)
    BY <1>4, <1>5 DEF Replies, Rows, TalkInv
  <2>3. ASSUME Kept, NEW r \in Replies(m) PROVE r \in Replies(m)'
    <3>1. r \in Messages /\ MessageInv(r) /\ messages[r].parent = m /\ m # NoParent /\ Exists(messages, r)
      BY <2>3 DEF TalkInv, TalkRows, Replies, Rows, WorkspaceAssumption
    <3>2. messages[r].task # t
      BY <2>1, <2>3, <3>1 DEF MessageInv, Below
    <3> QED BY <1>3, <1>4, <1>5, <2>3, <3>1, <3>2 DEF Replies, Rows
  <2>4. Counting(m)' = Counting(m)
    BY <1>2, CountingSame
  <2>5. Cardinality(Replies(m)') \in Nat /\ Cardinality(Replies(m)') <= Cardinality(Replies(m))
    BY <2>2, CountingFinite, FS_Subset, FS_CardinalityType DEF TalkInv
  <2>6. Kept => Replies(m)' = Replies(m)
    BY <2>2, <2>3
  <2>7. messages[m].replyCount >= Told(m)' /\ (Kept => messages[m].replyCount = Told(m)')
    BY <2>1, <2>4, <2>5, <2>6, CountingFinite DEF TalkInv, MessageInv, MessageShape, Told
  <2>8. messages[m].parent # NoParent => Below(messages[m].parent, messages[m].task)'
    BY <1>1, <1>3, <1>5, <1>6, <2>1 DEF MessageInv, MessageShape, Below
  <2>9. Exists(tasks', messages[m].task)
    BY <1>4, <2>1 DEF MessageInv, MessageShape, Exists
  <2> QED BY <1>1, <2>1, <2>7, <2>8, <2>9 DEF MessageInv
<1>7. TalkRows'
  BY <1>4, <1>6 DEF TalkRows, TalkInv, Exists
<1>8. TalkJob(w)'
  BY <1>2 DEF TalkJob
<1> QED BY <1>4, <1>5, <1>7, <1>8, TalkBy

LEMMA WorkspaceKeepsTalk ==
  ASSUME JobsAssumption, WorkspaceAssumption, JobsShape, TalkInv, NEW w \in Workers, WorkspaceNext(w), Acts(w)
  PROVE  TalkInv'
<1> SUFFICES ASSUME DOMAIN tasks = Tasks, TalkJob(w) PROVE TalkInv'
  BY DEF TalkInv
<1> USE BeginActs, AtOnceActs, ContinueActs, FinishActs, Busy
<1> USE DEF Idle
<1>1. ASSUME NEW p \in People, NEW b \in Businesses, CreateTask(w, p, b) PROVE TalkInv'
  <2>1. PICK column, due :
          job'[w] = [op |-> "createTask", row |-> Task(b, column, NextOrder(b, column), due)]
    BY <1>1 DEF CreateTask, Begin, JobsShape
  <2>2. UNCHANGED <<tasks, messages>> /\ job[w].op = "idle"
    BY <1>1 DEF CreateTask, workspaceVars, Asked, Free
  <2>3. job'[w].op = "createTask" /\ Here(job'[w].row)
    BY <2>1 DEF Task, Here
  <2> QED BY <2>2, <2>3, TalkUntouched DEF TalkInv, TalkRows, Exists
<1>2. ASSUME NEW p \in People, NEW b \in Businesses, CreateCheckin(w, p, b) PROVE TalkInv'
  BY <1>2, TasksUntouched DEF CreateCheckin, Free
<1>3. ASSUME NEW p \in People, NEW t \in Tasks, UpdateTask(w, p, t) PROVE TalkInv'
  <2>0. PICK column : \E due \in Due \cap mix :
            Begin(w, [op |-> "updateTask", at |-> t, row |-> [tasks[t] EXCEPT !.column = column, !.due = due]])
    BY <1>3, Zenon DEF UpdateTask
  <2>1. PICK due :
          Begin(w, [op |-> "updateTask", at |-> t, row |-> [tasks[t] EXCEPT !.column = column, !.due = due]])
    BY <2>0, Zenon
  <2>2. UNCHANGED <<tasks, messages>> /\ Exists(tasks, t) /\ job[w].op = "idle"
    BY <1>3 DEF UpdateTask, workspaceVars, Asked, Free
  <2>3. Here(tasks[t])
    BY <2>2 DEF TalkInv, TalkRows
  <2>4. Here([tasks[t] EXCEPT !.column = column, !.due = due])
    BY <2>3 DEF Here
  <2>5. job'[w].op = "updateTask" /\ job'[w].row = [tasks[t] EXCEPT !.column = column, !.due = due]
    BY <2>1 DEF Begin, JobsShape
  <2> QED BY <2>2, <2>4, <2>5, TalkUntouched DEF TalkInv, TalkRows, Exists
<1>4. ASSUME NEW p \in People, NEW t \in Tasks, MoveTask(w, p, t) PROVE TalkInv'
  <2>1. PICK column \in TaskStatus \cap mix, order \in 0 .. MaxOrder :
          Begin(w, [op |-> "moveTask", at |-> t, old |-> tasks[t],
                    row |-> [tasks[t] EXCEPT !.column = column, !.order = order]])
    BY <1>4, Zenon DEF MoveTask
  <2>2. UNCHANGED <<tasks, messages>> /\ Exists(tasks, t) /\ job[w].op = "idle"
    BY <1>4 DEF MoveTask, workspaceVars, Asked, Free
  <2>3. Here(tasks[t])
    BY <2>2 DEF TalkInv, TalkRows
  <2>4. Here([tasks[t] EXCEPT !.column = column, !.order = order])
    BY <2>3 DEF Here
  <2>5. job'[w].op = "moveTask" /\ job'[w].row = [tasks[t] EXCEPT !.column = column, !.order = order]
    BY <2>1 DEF Begin, JobsShape
  <2> QED BY <2>2, <2>4, <2>5, TalkUntouched DEF TalkInv, TalkRows, Exists
<1>5. ASSUME NEW p \in People, NEW t \in Tasks, RemoveTask(w, p, t) PROVE TalkInv'
  BY <1>5, RemoveKeepsTalk
<1>6. ASSUME NEW p \in People, NEW t \in Tasks, CreateSubtask(w, p, t) PROVE TalkInv'
  BY <1>6, TasksUntouched DEF CreateSubtask, Free
<1>7. ASSUME NEW p \in People, NEW s \in Subtasks, UpdateSubtask(w, p, s) PROVE TalkInv'
  BY <1>7, TasksUntouched DEF UpdateSubtask, workspaceVars, Asked, Free, Begin, JobsShape
<1>8. ASSUME NEW p \in People, NEW s \in Subtasks, MarkComplete(w, p, s) PROVE TalkInv'
  BY <1>8, TasksUntouched DEF MarkComplete, workspaceVars, Asked, Free, Begin, JobsShape
<1>9. ASSUME NEW p \in People, NEW s \in Subtasks, RemoveSubtask(w, p, s) PROVE TalkInv'
  BY <1>9, TasksUntouched DEF RemoveSubtask, Free
<1>10. ASSUME NEW p \in People, NEW s \in Sockets, NEW b \in Businesses, Connect(w, s, p, b) PROVE TalkInv'
  BY <1>10, TasksUntouched DEF Connect, Free
<1>11. ASSUME NEW t \in Tasks, PostMessage(w, t) PROVE TalkInv'
  BY <1>11, PostKeepsTalk
<1>12. ASSUME NEW t \in Tasks, NEW m \in Messages, Reply(w, m, t) PROVE TalkInv'
  <2>1. /\ job'[w] = [op |-> "reply", parent |-> m, task |-> t] /\ Exists(messages, m)
        /\ UNCHANGED <<tasks, messages>> /\ job[w].op = "idle" /\ (Kept => messages[m].task = t)
    BY <1>12 DEF Reply, workspaceVars, Asked, Free, Begin, JobsShape, Kept
  <2>2. TalkJob(w)'
    BY <2>1 DEF TalkJob, Below, Exists, Acts, Kept
  <2>3. job'[w].op # "replied" /\ ~Doing(w, "replied")
    BY <2>1 DEF Doing
  <2>4. \A x \in Tasks : (Exists(tasks, x) => Exists(tasks', x)) /\ (Exists(tasks', x) => Here(tasks'[x]))
    BY <2>1 DEF TalkInv, TalkRows, Exists
  <2> QED BY <2>1, <2>2, <2>3, <2>4, TalkRests DEF TalkInv, Acts
<1>13. ASSUME NEW s \in Sockets, Disconnect(w, s) PROVE TalkInv'
  BY <1>13, TasksUntouched DEF Disconnect, Free
<1>14. CASE TaskSaved(w)
  <2>1. /\ Doing(w, "createTask") /\ tasks' = [tasks EXCEPT ![Fresh(tasks)] = job[w].row] /\ UNCHANGED messages
        /\ job'[w] = Idle
    BY <1>14 DEF TaskSaved, Doing
  <2>2. Here(job[w].row)
    BY <2>1 DEF TalkJob, Doing
  <2> QED BY <2>1, <2>2, TasksWritten DEF Doing
<1>15. CASE TaskUpdated(w)
  <2>1. /\ Doing(w, "updateTask") /\ tasks' = [tasks EXCEPT ![job[w].at] = job[w].row] /\ UNCHANGED messages
        /\ job'[w] = Idle
    BY <1>15 DEF TaskUpdated, Doing
  <2>2. Here(job[w].row)
    BY <2>1 DEF TalkJob, Doing
  <2> QED BY <2>1, <2>2, TasksWritten DEF Doing
<1>16. CASE TaskMoved(w)
  <2> DEFINE old == job[w].old
             row == job[w].row
  <2>1. /\ Doing(w, "moveTask") /\ tasks' = [MakesRoom(old, row) EXCEPT ![job[w].at] = row] /\ UNCHANGED messages
    BY <1>16 DEF TaskMoved
  <2>2. job'[w].op \in {"log", "idle"}
    BY <1>16 DEF TaskMoved, Doing
  <2>3. Here(row)
    BY <2>1 DEF TalkJob, Doing
  <2>4. ASSUME NEW t \in Tasks PROVE tasks'[t] = tasks[t] \/ Here(tasks'[t])
    <3> HIDE DEF old, row
    <3>1. CASE t = job[w].at
      BY <2>1, <2>3, <3>1 DEF MakesRoom
    <3>2. CASE t # job[w].at /\ (~Exists(tasks, t) \/ tasks[t].business # row.business)
      BY <2>1, <3>2 DEF MakesRoom
    <3>3. CASE t # job[w].at /\ Exists(tasks, t) /\ tasks[t].business = row.business
      <4>1. tasks'[t] = [tasks[t] EXCEPT !.order = Moved(tasks[t], old, row)]
        BY <2>1, <3>3 DEF MakesRoom, Moved
      <4>2. Here(tasks[t])
        BY <3>3 DEF TalkInv, TalkRows
      <4> QED BY <4>1, <4>2 DEF Here
    <3> QED BY <3>1, <3>2, <3>3
  <2>5. DOMAIN tasks' = Tasks
    BY <2>1 DEF MakesRoom
  <2> QED BY <2>1, <2>2, <2>4, <2>5, TasksWritten DEF Doing
<1>17. CASE ActivityLogged(w)
  BY <1>17, TasksUntouched DEF ActivityLogged, Doing
<1>18. CASE SubtaskSaved(w)
  BY <1>18, TasksUntouched DEF SubtaskSaved, Doing
<1>19. CASE ReplyCounted(w)
  BY <1>19, ReplyCountedKeepsTalk
<1>20. CASE ReplySaved(w)
  BY <1>20, ReplySavedKeepsTalk
<1>21. CASE NextDay(w) \/ Restart(w)
  BY <1>21, TasksUntouched DEF NextDay, Restart, Free
<1> QED
  BY <1>1, <1>2, <1>3, <1>4, <1>5, <1>6, <1>7, <1>8, <1>9, <1>10, <1>11, <1>12, <1>13, <1>14, <1>15, <1>16, <1>17,
     <1>18, <1>19, <1>20, <1>21 DEF WorkspaceNext

(* A failure between the two statements leaves the count too high. *)
LEMMA FailKeepsTalk ==
  ASSUME JobsAssumption, WorkspaceAssumption, JobsShape, TalkInv, NEW w \in Workers, Fail(w), Fails(w),
         UNCHANGED workspaceVars
  PROVE  TalkInv'
<1>1. "fail" \in mix /\ UNCHANGED <<tasks, messages>> /\ mix' = mix
  BY DEF Fail, Fails, Acts, workspaceVars
<1>2. TalkJob(w)' /\ job'[w].op # "replied" /\ ~Kept
  BY <1>1 DEF Fails, Idle, TalkJob, Kept
<1>3. \A x \in Tasks : (Exists(tasks, x) => Exists(tasks', x)) /\ (Exists(tasks', x) => Here(tasks'[x]))
  BY <1>1 DEF TalkInv, TalkRows, Exists
<1> QED BY <1>1, <1>2, <1>3, TalkRests DEF Fails, Acts, TalkInv

LEMMA TalkStep ==
  ASSUME JobsAssumption, WorkspaceAssumption, JobsShape, TalkInv, [OfficeNext]_officeVars
  PROVE  TalkInv'
<1>1. CASE UNCHANGED officeVars
  BY <1>1 DEF officeVars, jobVars, workspaceVars, TalkInv, TalkRows, MessageInv, TalkJob, Replies, Counting, Doing,
              Exists, Rows, Told, Below, Kept
<1>2. ASSUME NEW w \in Serving, UNCHANGED workspaceVars, Goes(w, AccountOps) \/ Goes(w, MemberOps) PROVE TalkInv'
  <2>1. /\ Acts(w) /\ UNCHANGED <<tasks, messages>> /\ job[w].op \notin {"reply", "replied"}
        /\ job'[w].op \notin {"createTask", "updateTask", "moveTask", "reply", "replied"}
    BY <1>2 DEF Goes, AccountOps, Edits, Lockings, MemberOps, workspaceVars
  <2> QED BY <2>1, ServingWork, TasksUntouched
<1>3. ASSUME NEW w \in Serving, WorkspaceNext(w), Goes(w, WorkspaceOps) PROVE TalkInv'
  BY <1>3, ServingWork, WorkspaceKeepsTalk DEF Goes
<1>4. ASSUME NEW w \in Serving, Fail(w), Fails(w), UNCHANGED workspaceVars PROVE TalkInv'
  BY <1>4, ServingWork, FailKeepsTalk
<1> QED BY <1>1, <1>2, <1>3, <1>4, OfficeStep

(* RepliesCounted, for any number of messages and of handlers that reply
   and remove tasks at once, whatever task a reply names and wherever a
   handler fails: the increment is atomic and comes first, so that no count
   is below the replies there are; and it is above them only where a reply
   was counted and not inserted, or went with another task than its parent's. *)
THEOREM RepliesAlwaysCounted ==
  ASSUME JobsAssumption, WorkspaceAssumption PROVE OfficeSpec => []RepliesCounted
<1>1. Init => JobsShape /\ TalkInv
  <2> SUFFICES ASSUME Init PROVE TalkInv
    BY ShapeInit
  <2>1. \A w \in Workers : TalkJob(w)
    BY DEF Init, JobsInit, TalkJob, Idle
  <2> QED BY <2>1 DEF Init, WorkspaceInit, TalkInv, TalkRows, Exists
<1>2. JobsShape /\ TalkInv /\ [OfficeNext]_officeVars => (JobsShape /\ TalkInv)'
  BY ShapeStays, TalkStep
<1>3. TalkInv => RepliesCounted
  <2> SUFFICES ASSUME TalkInv, NEW m \in Rows(messages)
               PROVE  /\ messages[m].replyCount >= Cardinality(Replies(m))
                      /\ AllFree /\ Kept => messages[m].replyCount = Cardinality(Replies(m))
    BY DEF RepliesCounted, Kept
  <2>1. MessageInv(m) /\ messages[m].replyCount \in Nat
    BY DEF Rows, TalkInv, TalkRows, MessageInv, MessageShape
  <2>2. Cardinality(Counting(m)) \in Nat /\ Cardinality(Replies(m)) \in Nat
    BY CountingFinite DEF TalkInv
  <2>3. AllFree => Cardinality(Counting(m)) = 0
    BY FS_EmptySet DEF AllFree, Free, Counting, Doing, Idle
  <2> QED BY <2>1, <2>2, <2>3 DEF MessageInv, Told
<1> QED BY <1>1, <1>2, <1>3, PTL DEF OfficeSpec

----
(***************************************************************************)
(* The platform.  What its handlers have left to do, as long as they run   *)
(* one by one and none fails.                                              *)
(***************************************************************************)
Left(w, step) == ~Free(w) /\ \E i \in 1 .. Len(job[w].todo) : job[w].todo[i] = step

DeleteSteps ==
  {"deleteMembers", "deleteUsers", "deleteBusiness", "deleteApproval", "deleteSubscription",
   "deleteTickets", "deleteTenant", "deleteOwner"}
DeleteLists ==
  {list \in Seq(DeleteSteps) :
     \A i, k \in 1 .. Len(list) : list[i] = "deleteTenant" /\ list[k] = "deleteBusiness" => k < i}

(* The jobs there are, each with what its handler keeps in memory. *)
RegisterJob ==
  [op : {"register"}, tenant : Tenants, todo : Seq({"approval", "firstSubscription"}), plan : Plans]
CardJob ==
  [op : {"confirm", "webhook"}, tenant : Tenants, todo : Seq({"subscription", "cardPayment"}),
   image : Subscription, intent : Intents]
SaveJob ==
  [op : {"submit", "markAsPaid", "updateSubscription"}, tenant : Tenants, todo : Seq({"subscription"}),
   image : Subscription]
JudgeJob ==
  [op : {"judge"}, tenant : Tenants, todo : {<<"verdict", "subscription">>, <<"subscription">>, << >>},
   image : Subscription, payment : Payments, verdict : {"VERIFIED", "REJECTED"}]
CancelJob ==
  [op : {"cancelSubscription", "suspendSubscription", "reactivateSubscription", "unsuspendSubscription"},
   tenant : Tenants, todo : Seq({"subscription", "tenantStatus", "members"}), image : Subscription]
SuspendJob ==
  [op : {"suspendTenant", "unsuspendTenant"}, tenant : Tenants,
   todo : Seq({"subscription", "business", "members", "users"}), image : Subscription]
DeleteJob ==
  [op : {"delete"}, tenant : Tenants, todo : {DeletionSteps} \cup DeleteLists, token : Exports,
   users : SUBSET Persons]
MorningJob ==
  [op : {"expire", "overdue"}, tenant : {"many"}, todo : Seq({"list"}), list : SUBSET Tenants,
   copies : [Tenants -> Subscription \cup {Absent}]]

SavingJob == CardJob \cup SaveJob \cup JudgeJob \cup CancelJob \cup SuspendJob
PlatformJob == RegisterJob \cup SavingJob \cup DeleteJob \cup MorningJob

JobsTyped ==
  \A w \in Workers : ~Free(w) =>
    /\ job[w] \in PlatformJob
    /\ job[w] \in MorningJob => job[w].list \subseteq Rows(job[w].copies)

(* Who pays: an active subscription is covered by a payment, or by the
   handler that is about to write the payment. *)
Paid(t) == \E p \in PaymentsOf(t) : payments[p].status = "VERIFIED"
Owes(w, t) ==
  /\ job[w].tenant = t
  /\ Left(w, "cardPayment") \/ (Left(w, "verdict") /\ job[w].verdict = "VERIFIED")
Covered(t) == Paid(t) \/ \E w \in Workers : Owes(w, t)
Priced(row) == row.status = "ACTIVE" /\ row.plan # FreePlan

Billed ==
  /\ \A t \in Rows(subscription) \ given : Priced(subscription[t]) => Covered(t)
  /\ \A w \in Workers :
       Left(w, "subscription") /\ job[w].tenant \notin given /\ Priced(job[w].image) => Covered(job[w].tenant)
  /\ \A w \in Workers : Left(w, "cardPayment") =>
       Exists(subscription, job[w].tenant) /\ intents[job[w].intent].status = "succeeded"
  /\ \A w \in Workers : Left(w, "verdict") =>
       job[w].payment \in PaymentsOf(job[w].tenant) /\ payments[job[w].payment].status = "PENDING_VERIFICATION"
  /\ \A p \in Rows(payments) :
       /\ Exists(subscription, payments[p].tenant)
       /\ payments[p].intent # "none" => intents[payments[p].intent].status = "succeeded"

(* The export tokens that may still start a deletion. *)
Spare(t) ==
  {x \in Exports : /\ exports[x] = [tenant |-> t, expired |-> FALSE]
                   /\ \A w \in Workers : ~(Todo(w, "spend") /\ job[w].token = x)}
Spent == \A t \in Tenants : deletions[t] + Cardinality(Spare(t)) <= exported[t]

(* Which trials may be late at which tick. *)
FreeTrials == {t \in Rows(subscription) \ given : subscription[t].plan = FreePlan}
ToExpire(t) ==
  duty = "expire" \/ \E w \in Workers : Left(w, "list") /\ job[w].op = "expire" /\ t \in job[w].list

Dawn ==
  /\ duty = "expire" => now % 2 = 1
  /\ duty = "overdue" => now % 2 = 0
  /\ \A t \in FreeTrials : subscription[t].status = "ACTIVE" =>
       /\ now % 2 = 1 => subscription[t].ends >= now \/ ToExpire(t)
       /\ now % 2 = 0 => subscription[t].ends + 1 >= now
  /\ \A t \in FreeTrials : subscription[t].status = "OVERDUE" => subscription[t].ends % 2 = 1
  /\ \A w \in Workers : Left(w, "list") /\ job[w].op = "overdue" =>
       \A t \in job[w].list \cap FreeTrials : subscription[t].ends % 2 = 1
  /\ \A w \in Workers : Left(w, "subscription") /\ job[w].tenant \notin given =>
       /\ job[w].image.status = "ACTIVE" => job[w].image.ends > now
       /\ job[w].image.status # "OVERDUE"

(* Whatever no lock holds is open, or a handler is about to open it. *)
Reopens(t, step) == \E w \in Workers : Left(w, step) /\ Opens(w) /\ job[w].tenant = t
PeopleOf(t) == {p \in Rows(people) : people[p].tenant = t}
Unlocked(t) ==
  /\ Exists(tenant, t) =>
       /\ "subscription" \notin lockedBy[t] => tenant[t].status = "active" \/ Reopens(t, "tenantStatus")
       /\ "tenant" \notin lockedBy[t] => tenant[t].business = "open" \/ Reopens(t, "business")
       /\ tenant[t].business # "gone"
  /\ ~Exists(tenant, t) => PeopleOf(t) = {}
  /\ "tenant" \notin lockedBy[t] =>
       Reopens(t, "users") \/ \A p \in PeopleOf(t) : ~people[p].suspended
  /\ lockedBy[t] = {} => Reopens(t, "members") \/ \A p \in PeopleOf(t) : people[p].member # "inactive"
  /\ \A p \in PeopleOf(t) : people[p].member # "none"
LockHeld(w) ==
  /\ job[w].op \in DOMAIN Lock => Way(job[w].op) \in lockedBy[job[w].tenant]
  /\ job[w] \in DeleteJob =>
       deletions[job[w].tenant] # 0 /\ (Left(w, "deleteBusiness") => Exists(tenant, job[w].tenant))
  /\ job[w] \in RegisterJob \cup SavingJob => Exists(tenant, job[w].tenant)
  /\ job[w] \in MorningJob => \A t \in job[w].list : Exists(tenant, t)
Locked ==
  /\ \A t \in Tenants : Exists(subscription, t) => Exists(tenant, t)
  /\ \A t \in Tenants : deletions[t] = 0 => Unlocked(t)
  /\ \A w \in Workers : ~Free(w) => LockHeld(w)

----
(* Lists of steps. *)
LEMMA ListTail ==
  ASSUME NEW S, NEW list \in Seq(S), list # << >>
  PROVE  /\ Head(list) \in S /\ Tail(list) \in Seq(S)
         /\ \E i \in 1 .. Len(list) : list[i] = Head(list)
         /\ \A s : (\E i \in 1 .. Len(Tail(list)) : Tail(list)[i] = s) => \E i \in 1 .. Len(list) : list[i] = s
         /\ \A s : (\E i \in 1 .. Len(list) : list[i] = s) /\ s # Head(list) =>
                      \E i \in 1 .. Len(Tail(list)) : Tail(list)[i] = s
<1>1. 1 \in 1 .. Len(list) /\ list[1] = Head(list) /\ Head(list) \in S /\ Tail(list) \in Seq(S)
  OBVIOUS
<1>2. ASSUME NEW s, NEW i \in 1 .. Len(Tail(list)), Tail(list)[i] = s PROVE \E k \in 1 .. Len(list) : list[k] = s
  <2>1. i + 1 \in 1 .. Len(list) /\ list[i + 1] = s
    BY <1>2
  <2> QED BY <2>1
<1>3. ASSUME NEW s, NEW i \in 1 .. Len(list), list[i] = s, s # Head(list)
      PROVE  \E k \in 1 .. Len(Tail(list)) : Tail(list)[k] = s
  <2>1. i # 1
    BY <1>3
  <2>2. i - 1 \in 1 .. Len(Tail(list)) /\ Tail(list)[i - 1] = s
    BY <1>3, <2>1
  <2> QED BY <2>2
<1> QED BY <1>1, <1>2, <1>3

LEMMA ListElements ==
  ASSUME NEW S, NEW list \in Seq(S), NEW s, \E i \in 1 .. Len(list) : list[i] = s
  PROVE  s \in S
OBVIOUS

LEMMA DeletionList ==
  /\ DeletionSteps \in Seq(DeleteSteps \cup {"spend"}) /\ DeletionSteps # << >>
  /\ Head(DeletionSteps) = "spend" /\ Tail(DeletionSteps) \in DeleteLists
<1>1. <<"spend">> \in Seq(DeleteSteps \cup {"spend"})
  BY DEF DeleteSteps
<1>2. Unspent \in Seq(DeleteSteps) /\ Unspent \in Seq(DeleteSteps \cup {"spend"})
  BY DEF DeleteSteps, Unspent
<1>3. DeletionSteps \in Seq(DeleteSteps \cup {"spend"})
  BY <1>1, <1>2 DEF DeletionSteps
<1>4. Head(DeletionSteps) = "spend" /\ Tail(DeletionSteps) = Unspent /\ DeletionSteps # << >>
  BY <1>1, <1>2 DEF DeletionSteps
<1>5. \A i, k \in 1 .. Len(Unspent) : Unspent[i] = "deleteTenant" /\ Unspent[k] = "deleteBusiness" => k < i
  BY DEF Unspent
<1> QED BY <1>2, <1>3, <1>4, <1>5 DEF DeleteLists

LEMMA DeleteTail ==
  ASSUME NEW list \in DeleteLists, list # << >>
  PROVE  /\ Tail(list) \in DeleteLists
         /\ Head(list) = "deleteTenant" => ~\E i \in 1 .. Len(Tail(list)) : Tail(list)[i] = "deleteBusiness"
<1>1. /\ list \in Seq(DeleteSteps) /\ Tail(list) \in Seq(DeleteSteps) /\ Len(Tail(list)) = Len(list) - 1
      /\ \A i \in 1 .. Len(Tail(list)) : i + 1 \in 1 .. Len(list) /\ Tail(list)[i] = list[i + 1]
      /\ 1 \in 1 .. Len(list) /\ list[1] = Head(list)
  BY DEF DeleteLists
<1>2. \A i, k \in 1 .. Len(list) : list[i] = "deleteTenant" /\ list[k] = "deleteBusiness" => k < i
  BY DEF DeleteLists
<1>3. ASSUME NEW i \in 1 .. Len(Tail(list)), NEW k \in 1 .. Len(Tail(list)),
             Tail(list)[i] = "deleteTenant", Tail(list)[k] = "deleteBusiness"
      PROVE  k < i
  <2>1. k + 1 < i + 1
    BY <1>1, <1>2, <1>3
  <2> QED BY <2>1
<1>4. ASSUME Head(list) = "deleteTenant", NEW i \in 1 .. Len(Tail(list)), Tail(list)[i] = "deleteBusiness" PROVE FALSE
  <2>1. i + 1 < 1
    BY <1>1, <1>2, <1>4
  <2> QED BY <2>1
<1> QED BY <1>1, <1>3, <1>4 DEF DeleteLists

LEMMA JudgeList ==
  /\ Head(<<"verdict", "subscription">>) = "verdict" /\ Tail(<<"verdict", "subscription">>) = <<"subscription">>
  /\ Head(<<"subscription">>) = "subscription" /\ Tail(<<"subscription">>) = << >>
  /\ <<"verdict", "subscription">> \in Seq({"verdict", "subscription"})
  /\ <<"subscription">> \in Seq({"verdict", "subscription"}) /\ << >> \in Seq({"verdict", "subscription"})
OBVIOUS

LEMMA LockDomains ==
  /\ DOMAIN Lock = {"cancelSubscription", "suspendSubscription", "suspendTenant"}
  /\ DOMAIN Unlock = {"reactivateSubscription", "unsuspendSubscription", "unsuspendTenant"}
BY DEF Lock, Unlock

(* What a job that goes on to its next step keeps in memory. *)
KeepsAll(j, k) ==
  /\ k.op = j.op /\ k.tenant = j.tenant /\ k.todo = Tail(j.todo)
  /\ j \in RegisterJob => k \in RegisterJob /\ k.plan = j.plan
  /\ j \in SavingJob => k \in SavingJob /\ k.image = j.image
  /\ j \in CardJob => k \in CardJob /\ k.intent = j.intent
  /\ j \in JudgeJob => k \in JudgeJob /\ k.payment = j.payment /\ k.verdict = j.verdict
  /\ j \in DeleteJob => k \in DeleteJob /\ k.token = j.token /\ k.users = j.users
  /\ j \in MorningJob => k \in MorningJob /\ k.list = j.list /\ k.copies = j.copies

LEMMA Kinds ==
  ASSUME NEW j \in PlatformJob
  PROVE  /\ j \in RegisterJob <=> j.op = "register"
         /\ j \in CardJob <=> j.op \in {"confirm", "webhook"}
         /\ j \in SaveJob <=> j.op \in {"submit", "markAsPaid", "updateSubscription"}
         /\ j \in JudgeJob <=> j.op = "judge"
         /\ j \in CancelJob <=> j.op \in {"cancelSubscription", "suspendSubscription",
                                        "reactivateSubscription", "unsuspendSubscription"}
         /\ j \in SuspendJob <=> j.op \in {"suspendTenant", "unsuspendTenant"}
         /\ j \in DeleteJob <=> j.op = "delete"
         /\ j \in MorningJob <=> j.op \in {"expire", "overdue"}
<1> DEFINE R == RegisterJob  C == CardJob  S == SaveJob  G == JudgeJob
           K == CancelJob  U == SuspendJob  D == DeleteJob  M == MorningJob
<1>1. j \in R => j.op = "register"
  BY DEF RegisterJob
<1>2. j \in C => j.op \in {"confirm", "webhook"}
  BY DEF CardJob
<1>3. j \in S => j.op \in {"submit", "markAsPaid", "updateSubscription"}
  BY DEF SaveJob
<1>4. j \in G => j.op = "judge"
  BY DEF JudgeJob
<1>5. j \in K => j.op \in {"cancelSubscription", "suspendSubscription", "reactivateSubscription", "unsuspendSubscription"}
  BY DEF CancelJob
<1>6. j \in U => j.op \in {"suspendTenant", "unsuspendTenant"}
  BY DEF SuspendJob
<1>7. j \in D => j.op = "delete"
  BY DEF DeleteJob
<1>8. j \in M => j.op \in {"expire", "overdue"}
  BY DEF MorningJob
<1>9. j \in R \/ j \in C \/ j \in S \/ j \in G \/ j \in K \/ j \in U \/ j \in D \/ j \in M
  BY DEF PlatformJob, SavingJob
<1> HIDE DEF R, C, S, G, K, U, D, M
<1>10. /\ j \in R <=> j.op = "register"
       /\ j \in C <=> j.op \in {"confirm", "webhook"}
       /\ j \in S <=> j.op \in {"submit", "markAsPaid", "updateSubscription"}
       /\ j \in G <=> j.op = "judge"
       /\ j \in K <=> j.op \in {"cancelSubscription", "suspendSubscription", "reactivateSubscription", "unsuspendSubscription"}
       /\ j \in U <=> j.op \in {"suspendTenant", "unsuspendTenant"}
       /\ j \in D <=> j.op = "delete"
       /\ j \in M <=> j.op \in {"expire", "overdue"}
  BY <1>1, <1>2, <1>3, <1>4, <1>5, <1>6, <1>7, <1>8, <1>9
<1> QED BY <1>10 DEF R, C, S, G, K, U, D, M

(* The list of a job and its elements. *)
LEMMA JobList ==
  ASSUME NEW j \in PlatformJob
  PROVE  \E S : /\ j.todo \in Seq(S)
                /\ j \in RegisterJob => S = {"approval", "firstSubscription"}
                /\ j \in CardJob => S = {"subscription", "cardPayment"}
                /\ j \in SaveJob => S = {"subscription"}
                /\ j \in JudgeJob => S = {"verdict", "subscription"}
                /\ j \in CancelJob => S = {"subscription", "tenantStatus", "members"}
                /\ j \in SuspendJob => S = {"subscription", "business", "members", "users"}
                /\ j \in DeleteJob => S = DeleteSteps \cup {"spend"}
                /\ j \in MorningJob => S = {"list"}
<1> USE Kinds
<1>1. CASE j \in RegisterJob
  <2>1. j.todo \in Seq({"approval", "firstSubscription"})
    BY <1>1 DEF RegisterJob
  <2> QED BY <1>1, <2>1
<1>2. CASE j \in CardJob
  <2>1. j.todo \in Seq({"subscription", "cardPayment"})
    BY <1>2 DEF CardJob
  <2> QED BY <1>2, <2>1
<1>3. CASE j \in SaveJob
  <2>1. j.todo \in Seq({"subscription"})
    BY <1>3 DEF SaveJob
  <2> QED BY <1>3, <2>1
<1>4. CASE j \in JudgeJob
  <2>1. j.todo \in Seq({"verdict", "subscription"})
    BY <1>4, JudgeList DEF JudgeJob
  <2> QED BY <1>4, <2>1
<1>5. CASE j \in CancelJob
  <2>1. j.todo \in Seq({"subscription", "tenantStatus", "members"})
    BY <1>5 DEF CancelJob
  <2> QED BY <1>5, <2>1
<1>6. CASE j \in SuspendJob
  <2>1. j.todo \in Seq({"subscription", "business", "members", "users"})
    BY <1>6 DEF SuspendJob
  <2> QED BY <1>6, <2>1
<1>7. CASE j \in DeleteJob
  <2>1. j.todo = DeletionSteps \/ j.todo \in DeleteLists
    BY <1>7 DEF DeleteJob
  <2>2. j.todo \in Seq(DeleteSteps \cup {"spend"})
    BY <2>1, DeletionList DEF DeleteLists
  <2> QED BY <1>7, <2>2
<1>8. CASE j \in MorningJob
  <2>1. j.todo \in Seq({"list"})
    BY <1>8 DEF MorningJob
  <2> QED BY <1>8, <2>1
<1> QED BY <1>1, <1>2, <1>3, <1>4, <1>5, <1>6, <1>7, <1>8 DEF PlatformJob, SavingJob

(* Which step belongs to which job. *)
LEMMA StepOf ==
  ASSUME NEW j \in PlatformJob, NEW s, \E i \in 1 .. Len(j.todo) : j.todo[i] = s
  PROVE  /\ s \in {"approval", "firstSubscription"} => j \in RegisterJob
         /\ s = "subscription" => j \in SavingJob
         /\ s = "cardPayment" => j \in CardJob
         /\ s = "verdict" => j \in JudgeJob
         /\ s = "tenantStatus" => j \in CancelJob
         /\ s = "members" => j \in CancelJob \cup SuspendJob
         /\ s \in {"business", "users"} => j \in SuspendJob
         /\ s \in DeleteSteps \cup {"spend"} => j \in DeleteJob
         /\ s = "list" => j \in MorningJob
<1>1. PICK S : /\ j.todo \in Seq(S)
               /\ j \in RegisterJob => S = {"approval", "firstSubscription"}
               /\ j \in CardJob => S = {"subscription", "cardPayment"}
               /\ j \in SaveJob => S = {"subscription"}
               /\ j \in JudgeJob => S = {"verdict", "subscription"}
               /\ j \in CancelJob => S = {"subscription", "tenantStatus", "members"}
               /\ j \in SuspendJob => S = {"subscription", "business", "members", "users"}
               /\ j \in DeleteJob => S = DeleteSteps \cup {"spend"}
               /\ j \in MorningJob => S = {"list"}
  BY JobList
<1>2. s \in S
  BY <1>1, ListElements
<1> QED BY <1>1, <1>2 DEF PlatformJob, SavingJob, DeleteSteps

LEMMA StepTells ==
  ASSUME JobsTyped, NEW w \in Workers, NEW s, Left(w, s)
  PROVE  /\ ~Free(w) /\ job[w] \in PlatformJob
         /\ s \in {"approval", "firstSubscription"} => job[w] \in RegisterJob
         /\ s = "subscription" => job[w] \in SavingJob
         /\ s = "cardPayment" => job[w] \in CardJob
         /\ s = "verdict" => job[w] \in JudgeJob
         /\ s = "tenantStatus" => job[w] \in CancelJob
         /\ s = "members" => job[w] \in CancelJob \cup SuspendJob
         /\ s \in {"business", "users"} => job[w] \in SuspendJob
         /\ s \in DeleteSteps \cup {"spend"} => job[w] \in DeleteJob
         /\ s = "list" => job[w] \in MorningJob
<1>1. ~Free(w) /\ job[w] \in PlatformJob /\ \E i \in 1 .. Len(job[w].todo) : job[w].todo[i] = s
  BY DEF Left, JobsTyped
<1> QED BY <1>1, StepOf

LEMMA JobKeeps ==
  ASSUME NEW j \in PlatformJob, j.todo # << >>, NEW k, k = [j EXCEPT !.todo = Tail(@)]
  PROVE  k \in PlatformJob /\ KeepsAll(j, k)
<1> USE Kinds
<1> USE DEF PlatformJob, SavingJob
<1>1. CASE j \in RegisterJob
  <2>a. j.todo \in Seq({"approval", "firstSubscription"})
    BY <1>1 DEF RegisterJob
  <2>b. Tail(j.todo) \in Seq({"approval", "firstSubscription"})
    BY <2>a, ListTail
  <2>1. k \in RegisterJob /\ k.op = j.op /\ k.tenant = j.tenant /\ k.todo = Tail(j.todo) /\ k.plan = j.plan
    BY <1>1, <2>b DEF RegisterJob
  <2> QED BY <1>1, <2>1 DEF KeepsAll
<1>2. CASE j \in CardJob
  <2>a. j.todo \in Seq({"subscription", "cardPayment"})
    BY <1>2 DEF CardJob
  <2>b. Tail(j.todo) \in Seq({"subscription", "cardPayment"})
    BY <2>a, ListTail
  <2>1. /\ k \in CardJob /\ k.op = j.op /\ k.tenant = j.tenant /\ k.todo = Tail(j.todo)
        /\ k.image = j.image /\ k.intent = j.intent
    BY <1>2, <2>b DEF CardJob
  <2> QED BY <1>2, <2>1 DEF KeepsAll
<1>3. CASE j \in SaveJob
  <2>1. /\ k \in SaveJob /\ k.op = j.op /\ k.tenant = j.tenant /\ k.todo = Tail(j.todo) /\ k.image = j.image
    BY <1>3 DEF SaveJob
  <2> QED BY <1>3, <2>1 DEF KeepsAll
<1>4. CASE j \in JudgeJob
  <2>1. Tail(j.todo) \in {<<"verdict", "subscription">>, <<"subscription">>, << >>}
    BY <1>4, JudgeList DEF JudgeJob
  <2>2. /\ k \in JudgeJob /\ k.op = j.op /\ k.tenant = j.tenant /\ k.todo = Tail(j.todo)
        /\ k.image = j.image /\ k.payment = j.payment /\ k.verdict = j.verdict
    BY <1>4, <2>1 DEF JudgeJob
  <2> QED BY <1>4, <2>2 DEF KeepsAll
<1>5. CASE j \in CancelJob
  <2>a. j.todo \in Seq({"subscription", "tenantStatus", "members"})
    BY <1>5 DEF CancelJob
  <2>b. Tail(j.todo) \in Seq({"subscription", "tenantStatus", "members"})
    BY <2>a, ListTail
  <2>1. /\ k \in CancelJob /\ k.op = j.op /\ k.tenant = j.tenant /\ k.todo = Tail(j.todo) /\ k.image = j.image
    BY <1>5, <2>b DEF CancelJob
  <2> QED BY <1>5, <2>1 DEF KeepsAll
<1>6. CASE j \in SuspendJob
  <2>a. j.todo \in Seq({"subscription", "business", "members", "users"})
    BY <1>6 DEF SuspendJob
  <2>b. Tail(j.todo) \in Seq({"subscription", "business", "members", "users"})
    BY <2>a, ListTail
  <2>1. /\ k \in SuspendJob /\ k.op = j.op /\ k.tenant = j.tenant /\ k.todo = Tail(j.todo) /\ k.image = j.image
    BY <1>6, <2>b DEF SuspendJob
  <2> QED BY <1>6, <2>1 DEF KeepsAll
<1>7. CASE j \in DeleteJob
  <2>1. j.todo = DeletionSteps \/ j.todo \in DeleteLists
    BY <1>7 DEF DeleteJob
  <2>2. Tail(j.todo) \in DeleteLists
    BY <2>1, DeletionList, DeleteTail
  <2>3. /\ k \in DeleteJob /\ k.op = j.op /\ k.tenant = j.tenant /\ k.todo = Tail(j.todo)
        /\ k.token = j.token /\ k.users = j.users
    BY <1>7, <2>2 DEF DeleteJob
  <2> QED BY <1>7, <2>3 DEF KeepsAll
<1>8. CASE j \in MorningJob
  <2>a. j.todo \in Seq({"list"})
    BY <1>8 DEF MorningJob
  <2>b. Tail(j.todo) \in Seq({"list"})
    BY <2>a, ListTail
  <2>1. /\ k \in MorningJob /\ k.op = j.op /\ k.tenant = j.tenant /\ k.todo = Tail(j.todo)
        /\ k.list = j.list /\ k.copies = j.copies
    BY <1>8, <2>b DEF MorningJob
  <2> QED BY <1>8, <2>1 DEF KeepsAll
<1> QED BY <1>1, <1>2, <1>3, <1>4, <1>5, <1>6, <1>7, <1>8

LEMMA NotIdle ==
  ASSUME NEW j \in PlatformJob
  PROVE  j # Idle /\ "op" \in DOMAIN j
<1>1. j.op # "idle"
  BY Kinds DEF PlatformJob, SavingJob
<1>2. "op" \in DOMAIN j
  BY DEF PlatformJob, SavingJob, RegisterJob, CardJob, SaveJob, JudgeJob, CancelJob, SuspendJob, DeleteJob, MorningJob
<1> QED BY <1>1, <1>2 DEF Idle

(* One step is done, and the others of the list remain. *)
Popped(w, s) ==
  /\ Acts(w) /\ ~Free(w) /\ ~Free(w)' /\ Left(w, s) /\ Todo(w, s)
  /\ job[w] \in PlatformJob /\ job'[w] \in PlatformJob /\ KeepsAll(job[w], job'[w])
  /\ s = "verdict" => job'[w].todo = <<"subscription">>
  /\ s = "spend" => job'[w].todo \in DeleteLists
  /\ s = "deleteTenant" => ~Left(w, "deleteBusiness")'
  /\ \A r : Left(w, r)' => Left(w, r)
  /\ \A r : Left(w, r) /\ r # s => Left(w, r)'

LEMMA GoOnPops ==
  ASSUME JobsShape, JobsTyped, NEW w \in Workers, NEW s, Todo(w, s), GoOn(w)
  PROVE  Popped(w, s)
<1>1. ~Free(w) /\ job[w] \in PlatformJob /\ job[w].todo # << >> /\ Head(job[w].todo) = s
  BY DEF Todo, JobsTyped
<1> DEFINE k == [job[w] EXCEPT !.todo = Tail(@)]
<1>2. k \in PlatformJob /\ KeepsAll(job[w], k)
  BY <1>1, JobKeeps
<1>3. k # Idle /\ "op" \in DOMAIN k
  BY <1>2, NotIdle
<1>4. Acts(w) /\ job'[w] = k
  <2> HIDE DEF k
  <2>1. Continue(w, k)
    BY DEF GoOn, k
  <2> QED BY <1>1, <1>3, <2>1, ContinueActs
<1> HIDE DEF k
<1>5. ~Free(w)'
  BY <1>3, <1>4 DEF Free
<1>6. job'[w].todo = Tail(job[w].todo)
  BY <1>2, <1>4 DEF KeepsAll
<1>7. PICK S : job[w].todo \in Seq(S)
  BY <1>1, JobList
<1>8. /\ \E i \in 1 .. Len(job[w].todo) : job[w].todo[i] = s
      /\ \A r : (\E i \in 1 .. Len(job'[w].todo) : job'[w].todo[i] = r)
                  => \E i \in 1 .. Len(job[w].todo) : job[w].todo[i] = r
      /\ \A r : (\E i \in 1 .. Len(job[w].todo) : job[w].todo[i] = r) /\ r # s
                  => \E i \in 1 .. Len(job'[w].todo) : job'[w].todo[i] = r
  <2> DEFINE list == job[w].todo
  <2>1. list \in Seq(S) /\ list # << >> /\ Head(list) = s /\ job'[w].todo = Tail(list)
    BY <1>1, <1>6, <1>7
  <2> HIDE DEF list
  <2>2. /\ \E i \in 1 .. Len(list) : list[i] = Head(list)
        /\ \A r : (\E i \in 1 .. Len(Tail(list)) : Tail(list)[i] = r)
                  => \E i \in 1 .. Len(list) : list[i] = r
        /\ \A r : (\E i \in 1 .. Len(list) : list[i] = r) /\ r # Head(list)
                  => \E i \in 1 .. Len(Tail(list)) : Tail(list)[i] = r
    BY <2>1, ListTail
  <2> QED BY <2>1, <2>2 DEF list
<1>9. Left(w, s) /\ (\A r : Left(w, r)' => Left(w, r)) /\ \A r : Left(w, r) /\ r # s => Left(w, r)'
  BY <1>1, <1>5, <1>8 DEF Left
<1>10. s = "verdict" => job'[w].todo = <<"subscription">>
  <2> SUFFICES ASSUME s = "verdict" PROVE job'[w].todo = <<"subscription">>
    OBVIOUS
  <2>1. job[w] \in JudgeJob
    BY <1>9, StepTells
  <2>2. job[w].todo \in {<<"verdict", "subscription">>, <<"subscription">>, << >>}
    BY <2>1 DEF JudgeJob
  <2> QED BY <1>1, <1>6, <2>2, JudgeList
<1>11. s = "spend" => job'[w].todo \in DeleteLists
  <2> SUFFICES ASSUME s = "spend" PROVE job'[w].todo \in DeleteLists
    OBVIOUS
  <2>1. job[w] \in DeleteJob
    BY <1>9, StepTells
  <2>2. job[w].todo = DeletionSteps \/ job[w].todo \in DeleteLists
    BY <2>1 DEF DeleteJob
  <2> QED BY <1>1, <1>6, <2>2, DeletionList, DeleteTail
<1>12. s = "deleteTenant" => ~Left(w, "deleteBusiness")'
  <2> SUFFICES ASSUME s = "deleteTenant" PROVE ~Left(w, "deleteBusiness")'
    OBVIOUS
  <2>1. job[w] \in DeleteJob
    BY <1>9, StepTells DEF DeleteSteps
  <2>2. job[w].todo = DeletionSteps \/ job[w].todo \in DeleteLists
    BY <2>1 DEF DeleteJob
  <2>3. ~\E i \in 1 .. Len(job'[w].todo) : job'[w].todo[i] = "deleteBusiness"
    BY <1>1, <1>6, <2>2, DeletionList, DeleteTail
  <2> QED BY <2>3 DEF Left
<1> QED BY <1>1, <1>2, <1>4, <1>5, <1>9, <1>10, <1>11, <1>12 DEF Popped

(* While nothing is marred, only one handler has anything to do. *)
LEMMA OnlyOne ==
  ASSUME NEW w \in Workers, Acts(w), Unmarred'
  PROVE  /\ Unmarred
         /\ \A v \in Workers \ {w} : /\ Free(v) /\ Free(v)' /\ job'[v] = job[v]
                                     /\ \A s : ~Left(v, s) /\ ~Left(v, s)'
BY DEF Acts, Unmarred, OneByOne, Free, Left

LEMMA IdleHasNothing ==
  ASSUME NEW w, Free(w)
  PROVE  \A s : ~Left(w, s) /\ ~Todo(w, s)
BY DEF Left, Todo

(* A handler that starts, ends, or does everything at once. *)
LEMMA BeginStarts ==
  ASSUME JobsShape, NEW w \in Workers, NEW j \in PlatformJob, Begin(w, j)
  PROVE  Acts(w) /\ Free(w) /\ ~Free(w)' /\ job'[w] = j
<1>1. j # Idle /\ "op" \in DOMAIN j
  BY NotIdle
<1> QED BY <1>1, BeginActs DEF Begin, Free, JobsShape

----
(* The handlers of the platform, one by one. *)
Handles(w) ==
  \/ RegisterTenant(w) \/ AskApproval(w) \/ FirstSubscription(w) \/ Join(w) \/ Review(w)
  \/ SaveSubscription(w) \/ SetByHand(w) \/ Done(w)
  \/ Paying(w) \/ Locking(w) \/ Deleting(w)
  \/ StartMorning(w) \/ MorningEntry(w) \/ EndMorning(w)
  \/ SwitchPlan(w) \/ OpenTicket(w) \/ UpdateTicket(w) \/ ReplyToTicket(w)

LEMMA GoOnActs ==
  ASSUME JobsShape, NEW w \in Workers, ~Free(w), GoOn(w)
  PROVE  Acts(w)
<1>1. "op" \in DOMAIN [job[w] EXCEPT !.todo = Tail(@)]
  BY DEF JobsShape
<1> QED BY <1>1, ContinueActs DEF GoOn

LEMMA BeginsActs ==
  ASSUME JobsShape, NEW w \in Workers, NEW j, "op" \in DOMAIN j, Begin(w, j)
  PROVE  Acts(w)
BY BeginActs DEF Begin, Free, JobsShape

LEMMA HandlesActs ==
  ASSUME JobsShape, NEW w \in Workers, Handles(w)
  PROVE  Acts(w)
<1> USE AtOnceActs, GoOnActs, BeginsActs, FinishActs, ContinueActs
<1>1. CASE RegisterTenant(w)
  <2>1. \E t, plan : Begin(w, [op |-> "register", tenant |-> t, todo |-> <<"approval", "firstSubscription">>, plan |-> plan])
    BY <1>1 DEF RegisterTenant
  <2> QED BY <2>1
<1>2. CASE AskApproval(w) \/ FirstSubscription(w) \/ SaveSubscription(w) \/ CardPayment(w) \/ SaveVerdict(w)
  BY <1>2 DEF AskApproval, FirstSubscription, SaveSubscription, CardPayment, SaveVerdict, Todo
<1>3. CASE Join(w) \/ Review(w) \/ CreateIntent(w) \/ Export(w)
  BY <1>3 DEF Join, Review, CreateIntent, Export
<1>4. CASE SwitchPlan(w) \/ OpenTicket(w) \/ UpdateTicket(w) \/ ReplyToTicket(w)
  BY <1>4 DEF SwitchPlan, OpenTicket, UpdateTicket, ReplyToTicket
<1>5. CASE SetByHand(w)
  <2>1. \E op, t, todo, image : Begin(w, [op |-> op, tenant |-> t, todo |-> todo, image |-> image])
    BY <1>5 DEF SetByHand, WithImage
  <2> QED BY <2>1
<1>6. CASE Done(w) \/ RefuseDeletion(w)
  BY <1>6 DEF Done, RefuseDeletion, Todo
<1>7. CASE ConfirmPayment(w) \/ Webhook(w)
  <2>1. \E op, t, i : Begin(w, CardPaid(op, t, i))
    BY <1>7 DEF ConfirmPayment, Webhook
  <2> QED BY <2>1 DEF CardPaid
<1>8. CASE SubmitPayment(w)
  <2>1. \E op, t, todo, image : Begin(w, [op |-> op, tenant |-> t, todo |-> todo, image |-> image])
    BY <1>8 DEF SubmitPayment, WithImage
  <2> QED BY <2>1
<1>9. CASE Judge(w)
  <2>1. \E op, t, todo, image, p, verdict :
          Begin(w, [op |-> op, tenant |-> t, todo |-> todo, image |-> image, payment |-> p, verdict |-> verdict])
    BY <1>9 DEF Judge
  <2> QED BY <2>1
<1>10. CASE LockOut(w)
  <2>1. \E op, t, todo, image : Begin(w, [op |-> op, tenant |-> t, todo |-> todo, image |-> image])
    BY <1>10 DEF LockOut, WithImage
  <2> QED BY <2>1
<1>11. CASE LetIn(w)
  <2>1. \E op, t, todo, image : Begin(w, [op |-> op, tenant |-> t, todo |-> todo, image |-> image])
    BY <1>11 DEF LetIn, WithImage
  <2> QED BY <2>1
<1>12. CASE SetTenantStatus(w) \/ SetBusiness(w) \/ SetMembers(w) \/ SetUsers(w) \/ SpendExport(w) \/ EndMorning(w)
  BY <1>12 DEF SetTenantStatus, SetBusiness, SetMembers, SetUsers, SpendExport, EndMorning, Todo
<1>13. CASE StartDeletion(w)
  <2>1. \E t, x, staff : Begin(w, [op |-> "delete", tenant |-> t, todo |-> DeletionSteps, token |-> x, users |-> staff])
    BY <1>13 DEF StartDeletion
  <2> QED BY <2>1
<1>14. CASE DeleteMembers(w) \/ DeleteUsers(w) \/ DeleteTenantBusiness(w) \/ DeleteRow(w)
  BY <1>14 DEF DeleteMembers, DeleteUsers, DeleteTenantBusiness, DeleteRow, Delete, Todo
<1>15. CASE StartMorning(w)
  <2>1. Begin(w, [op |-> duty, tenant |-> "many", todo |-> <<"list">>,
                  list |-> JobFinds(duty), copies |-> subscription])
    BY <1>15 DEF StartMorning
  <2> QED BY <2>1
<1>16. CASE MorningEntry(w)
  <2>1. PICK t : Continue(w, [job[w] EXCEPT !.list = @ \ {t}])
    BY <1>16 DEF MorningEntry
  <2>2. "op" \in DOMAIN [job[w] EXCEPT !.list = @ \ {t}]
    BY DEF JobsShape
  <2>3. ~Free(w)
    BY <1>16 DEF MorningEntry, Todo
  <2> QED BY <2>1, <2>2, <2>3
<1> QED BY <1>1, <1>2, <1>3, <1>4, <1>5, <1>6, <1>7, <1>8, <1>9, <1>10, <1>11, <1>12, <1>13, <1>14, <1>15, <1>16
        DEF Handles, Paying, Locking, Deleting

(* What each start puts into memory. *)
LEMMA RowIsTyped ==
  ASSUME PlatformTypeOK, NEW t \in Rows(subscription)
  PROVE  t \in Tenants /\ subscription[t] \in Subscription
BY DEF PlatformTypeOK, Rows, Exists

LEMMA ActivatedIs ==
  ASSUME PlatformTypeOK, PlatformAssumption, NEW row \in Subscription
  PROVE  /\ Activated(row) \in Subscription
         /\ Activated(row).status = "ACTIVE" /\ Activated(row).plan = row.plan /\ Activated(row).ends > now
<1>1. now + Period \in Nat /\ now + Period > now
  BY DEF PlatformTypeOK, PlatformAssumption
<1>2. "ACTIVE" \in SubscriptionStatus
  BY DEF SubscriptionStatus
<1> QED BY <1>1, <1>2 DEF Activated, Subscription

LEMMA StatusImage ==
  ASSUME NEW row \in Subscription, NEW s \in SubscriptionStatus
  PROVE  /\ [row EXCEPT !.status = s] \in Subscription
         /\ [row EXCEPT !.status = s].status = s /\ [row EXCEPT !.status = s].plan = row.plan
         /\ [row EXCEPT !.status = s].ends = row.ends
BY DEF Subscription

LEMMA RowIsThere ==
  ASSUME NEW row \in Subscription
  PROVE  row # Absent
BY DEF Subscription, SubscriptionStatus, Absent

Starts(w) == Acts(w) /\ Free(w) /\ ~Free(w)' /\ job'[w] \in PlatformJob

LEMMA TwoSteps ==
  ASSUME NEW a, NEW b
  PROVE  /\ \E i \in 1 .. Len(<<a, b>>) : <<a, b>>[i] = a
         /\ \E i \in 1 .. Len(<<a, b>>) : <<a, b>>[i] = b
<1>1. 1 \in 1 .. Len(<<a, b>>) /\ 2 \in 1 .. Len(<<a, b>>) /\ <<a, b>>[1] = a /\ <<a, b>>[2] = b
  OBVIOUS
<1> QED BY <1>1

LEMMA RegisterStarts ==
  ASSUME JobsShape, PlatformTypeOK, NEW w \in Workers, RegisterTenant(w)
  PROVE  /\ Starts(w) /\ job'[w] \in RegisterJob
         /\ Fresh(tenant) \in Tenants /\ ~Exists(tenant, Fresh(tenant)) /\ job'[w].tenant = Fresh(tenant)
         /\ Fresh(people) \in Persons /\ ~Exists(people, Fresh(people))
<1> DEFINE t == Fresh(tenant)
<1>1. t \in Tenants /\ ~Exists(tenant, t)
  BY DEF RegisterTenant, CanInsert, Fresh, PlatformTypeOK
<1>2. Fresh(people) \in Persons /\ ~Exists(people, Fresh(people))
  BY DEF RegisterTenant, CanInsert, Fresh, PlatformTypeOK
<1> HIDE DEF t
<1>3. PICK plan \in Plans : Begin(w, [op |-> "register", tenant |-> t,
                                      todo |-> <<"approval", "firstSubscription">>, plan |-> plan])
  BY DEF RegisterTenant, t
<1> DEFINE j == [op |-> "register", tenant |-> t, todo |-> <<"approval", "firstSubscription">>, plan |-> plan]
<1>4. <<"approval", "firstSubscription">> \in Seq({"approval", "firstSubscription"}) OBVIOUS
<1>5. j \in RegisterJob /\ j.tenant = t
  BY <1>1, <1>4 DEF RegisterJob
<1>6. j \in PlatformJob
  BY <1>5 DEF PlatformJob
<1> HIDE DEF j
<1>7. Begin(w, j)
  BY <1>3 DEF j
<1>8. Starts(w) /\ job'[w] = j
  BY <1>6, <1>7, BeginStarts DEF Starts
<1> QED BY <1>1, <1>2, <1>5, <1>8 DEF t

LEMMA CardStarts ==
  ASSUME JobsShape, PlatformTypeOK, PlatformAssumption, NEW w \in Workers, ConfirmPayment(w) \/ Webhook(w)
  PROVE  /\ Starts(w) /\ job'[w] \in CardJob /\ UNCHANGED platformVars
         /\ \E t \in Rows(subscription) : job'[w].tenant = t /\ job'[w].image = Activated(subscription[t])
         /\ Exists(intents, job'[w].intent) /\ intents[job'[w].intent].status = "succeeded"
         /\ Left(w, "cardPayment")'
<1>1. PICK t \in Rows(subscription), i \in Rows(intents), op \in {"confirm", "webhook"} :
        Succeeded(i, t) /\ Begin(w, CardPaid(op, t, i))
  BY DEF ConfirmPayment, Webhook
<1> DEFINE j == CardPaid(op, t, i)
<1>2. t \in Tenants /\ Activated(subscription[t]) \in Subscription
  BY RowIsTyped, ActivatedIs
<1>3. i \in Intents
  BY DEF Rows, PlatformTypeOK
<1>4. <<"subscription", "cardPayment">> \in Seq({"subscription", "cardPayment"}) OBVIOUS
<1>5. /\ j \in CardJob /\ j.tenant = t /\ j.image = Activated(subscription[t]) /\ j.intent = i
      /\ j.todo = <<"subscription", "cardPayment">>
  BY <1>2, <1>3, <1>4 DEF CardPaid, CardJob
<1>6. j \in PlatformJob
  BY <1>5 DEF PlatformJob, SavingJob
<1> HIDE DEF j
<1>7. Begin(w, j)
  BY <1>1 DEF j
<1>8. Starts(w) /\ job'[w] = j
  BY <1>6, <1>7, BeginStarts DEF Starts
<1>9. Left(w, "cardPayment")'
  <2>1. job'[w].todo = <<"subscription", "cardPayment">> /\ ~Free(w)'
    BY <1>5, <1>8 DEF Starts
  <2>2. \E k \in 1 .. Len(job'[w].todo) : job'[w].todo[k] = "cardPayment"
    BY <2>1, TwoSteps
  <2> QED BY <2>1, <2>2 DEF Left
<1>10. Exists(intents, i) /\ intents[i].status = "succeeded"
  BY <1>1 DEF Succeeded, Created
<1>11. UNCHANGED platformVars
  BY DEF ConfirmPayment, Webhook
<1>12. \E u \in Rows(subscription) : job'[w].tenant = u /\ job'[w].image = Activated(subscription[u])
  BY <1>5, <1>8
<1> QED BY <1>5, <1>8, <1>9, <1>10, <1>11, <1>12

(* One entity in memory, and its save to come. *)
LEMMA SaveStarts ==
  ASSUME JobsShape, NEW w \in Workers, NEW op \in {"submit", "markAsPaid", "updateSubscription"},
         NEW t \in Tenants, NEW image \in Subscription,
         Begin(w, WithImage(op, t, <<"subscription">>, image))
  PROVE  /\ Starts(w) /\ job'[w] \in SaveJob
         /\ job'[w].op = op /\ job'[w].tenant = t /\ job'[w].image = image
<1> DEFINE j == WithImage(op, t, <<"subscription">>, image)
<1>1. <<"subscription">> \in Seq({"subscription"}) OBVIOUS
<1>2. j \in SaveJob /\ j.op = op /\ j.tenant = t /\ j.image = image
  BY <1>1 DEF WithImage, SaveJob
<1>3. j \in PlatformJob
  BY <1>2 DEF PlatformJob, SavingJob
<1> HIDE DEF j
<1>4. Begin(w, j)
  BY DEF j
<1>5. Starts(w) /\ job'[w] = j
  BY <1>3, <1>4, BeginStarts DEF Starts
<1> QED BY <1>2, <1>5

LEMMA SubmitStarts ==
  ASSUME JobsShape, PlatformTypeOK, NEW w \in Workers, SubmitPayment(w)
  PROVE  \E t \in Rows(subscription) :
           /\ Starts(w) /\ job'[w] \in SaveJob /\ job'[w].tenant = t
           /\ job'[w].image = [subscription[t] EXCEPT !.status = "PAYMENT_SUBMITTED"]
           /\ payments' = [payments EXCEPT ![Fresh(payments)] =
                             [tenant |-> t, intent |-> "none", status |-> "PENDING_VERIFICATION"]]
           /\ Fresh(payments) \in Payments /\ ~Exists(payments, Fresh(payments))
<1>1. PICK t \in Rows(subscription) :
        /\ payments' = [payments EXCEPT ![Fresh(payments)] =
                          [tenant |-> t, intent |-> "none", status |-> "PENDING_VERIFICATION"]]
        /\ Begin(w, WithImage("submit", t, <<"subscription">>,
                              [subscription[t] EXCEPT !.status = "PAYMENT_SUBMITTED"]))
  BY DEF SubmitPayment
<1>2. t \in Tenants /\ subscription[t] \in Subscription
  BY RowIsTyped
<1>3. "PAYMENT_SUBMITTED" \in SubscriptionStatus
  BY DEF SubscriptionStatus
<1>4. [subscription[t] EXCEPT !.status = "PAYMENT_SUBMITTED"] \in Subscription
  BY <1>2, <1>3, StatusImage
<1>5. /\ Starts(w) /\ job'[w] \in SaveJob /\ job'[w].tenant = t
      /\ job'[w].image = [subscription[t] EXCEPT !.status = "PAYMENT_SUBMITTED"]
  BY <1>1, <1>2, <1>4, SaveStarts
<1>6. Fresh(payments) \in Payments /\ ~Exists(payments, Fresh(payments))
  BY DEF SubmitPayment, CanInsert, Fresh, PlatformTypeOK
<1> QED BY <1>1, <1>5, <1>6

LEMMA HandStarts ==
  ASSUME JobsShape, PlatformTypeOK, PlatformAssumption, NEW w \in Workers, SetByHand(w)
  PROVE  \E t \in Rows(subscription) :
           /\ Starts(w) /\ job'[w] \in SaveJob /\ job'[w].tenant = t /\ given' = given \cup {t}
<1>1. PICK t \in Rows(subscription) :
       /\ \/ Begin(w, WithImage("markAsPaid", t, <<"subscription">>, Activated(subscription[t])))
          \/ \E status \in SubscriptionStatus, plan \in {p \in Plans : plans[p]} :
               Begin(w, WithImage("updateSubscription", t, <<"subscription">>,
                                  [subscription[t] EXCEPT !.status = status, !.plan = plan]))
       /\ given' = given \cup {t}
  BY DEF SetByHand
<1>2. t \in Tenants /\ subscription[t] \in Subscription
  BY RowIsTyped
<1>3. CASE Begin(w, WithImage("markAsPaid", t, <<"subscription">>, Activated(subscription[t])))
  <2>1. Activated(subscription[t]) \in Subscription
    BY <1>2, ActivatedIs
  <2> QED BY <1>1, <1>2, <1>3, <2>1, SaveStarts
<1>4. ASSUME NEW status \in SubscriptionStatus, NEW plan \in {p \in Plans : plans[p]},
             Begin(w, WithImage("updateSubscription", t, <<"subscription">>,
                                [subscription[t] EXCEPT !.status = status, !.plan = plan]))
      PROVE  Starts(w) /\ job'[w] \in SaveJob /\ job'[w].tenant = t
  <2>1. [subscription[t] EXCEPT !.status = status, !.plan = plan] \in Subscription
    BY <1>2 DEF Subscription
  <2> QED BY <1>2, <1>4, <2>1, SaveStarts
<1> QED BY <1>1, <1>3, <1>4

LEMMA JudgeStarts ==
  ASSUME JobsShape, PlatformTypeOK, PlatformAssumption, NEW w \in Workers, Judge(w),
         \A p \in Rows(payments) : Exists(subscription, payments[p].tenant)
  PROVE  /\ Starts(w) /\ job'[w] \in JudgeJob /\ UNCHANGED platformVars
         /\ job'[w].payment \in PaymentsOf(job'[w].tenant)
         /\ payments[job'[w].payment].status = "PENDING_VERIFICATION"
         /\ Exists(subscription, job'[w].tenant)
         /\ job'[w].verdict = "VERIFIED" => Left(w, "verdict")' /\ job'[w].image.ends > now
         /\ job'[w].verdict # "VERIFIED" => job'[w].image.status = "PENDING_PAYMENT"
         /\ job'[w].image.status # "OVERDUE"
<1>1. PICK p \in Rows(payments), verdict \in {"VERIFIED", "REJECTED"} :
        /\ payments[p].status = "PENDING_VERIFICATION"
        /\ Begin(w, [op |-> "judge", tenant |-> payments[p].tenant, todo |-> <<"verdict", "subscription">>,
                     image |-> IF verdict = "VERIFIED" THEN Activated(subscription[payments[p].tenant])
                               ELSE [subscription[payments[p].tenant] EXCEPT !.status = "PENDING_PAYMENT"],
                     payment |-> p, verdict |-> verdict])
  BY DEF Judge
<1> DEFINE t == payments[p].tenant
           image == IF verdict = "VERIFIED" THEN Activated(subscription[t])
                    ELSE [subscription[t] EXCEPT !.status = "PENDING_PAYMENT"]
           j == [op |-> "judge", tenant |-> t, todo |-> <<"verdict", "subscription">>,
                 image |-> image, payment |-> p, verdict |-> verdict]
<1>2. p \in Payments /\ payments[p] \in Payment /\ p \in PaymentsOf(t)
  BY DEF Rows, Exists, PlatformTypeOK, PaymentsOf
<1>3. t \in Tenants /\ Exists(subscription, t)
  BY <1>2 DEF Payment
<1>4. t \in Rows(subscription)
  BY <1>3 DEF Rows, PlatformTypeOK
<1>5. subscription[t] \in Subscription
  BY <1>4, RowIsTyped
<1>6. "PENDING_PAYMENT" \in SubscriptionStatus
  BY DEF SubscriptionStatus
<1>7. /\ image \in Subscription
      /\ verdict = "VERIFIED" => image.ends > now /\ image.status = "ACTIVE"
      /\ verdict # "VERIFIED" => image.status = "PENDING_PAYMENT"
  BY <1>5, <1>6, ActivatedIs, StatusImage
<1> HIDE DEF image
<1>8. /\ j \in JudgeJob /\ j.tenant = t /\ j.image = image /\ j.payment = p /\ j.verdict = verdict
      /\ j.todo = <<"verdict", "subscription">>
  BY <1>2, <1>3, <1>7 DEF JudgeJob
<1>9. j \in PlatformJob
  BY <1>8 DEF PlatformJob, SavingJob
<1>10. Begin(w, j)
  BY <1>1 DEF image
<1> HIDE DEF j, t
<1>11. Starts(w) /\ job'[w] = j
  BY <1>9, <1>10, BeginStarts DEF Starts
<1>12. Left(w, "verdict")'
  <2>1. job'[w].todo = <<"verdict", "subscription">> /\ ~Free(w)'
    BY <1>8, <1>11 DEF Starts
  <2>2. \E k \in 1 .. Len(job'[w].todo) : job'[w].todo[k] = "verdict"
    BY <2>1, TwoSteps
  <2> QED BY <2>1, <2>2 DEF Left
<1>13. UNCHANGED platformVars
  BY DEF Judge
<1> QED BY <1>1, <1>2, <1>3, <1>7, <1>8, <1>11, <1>12, <1>13

(* The two ways to lock a tenant out: what the handler has in memory and
   which steps lie before it. *)
LEMMA LockSteps ==
  ASSUME NEW op \in DOMAIN Lock \cup DOMAIN Unlock, NEW todo,
         op \in DOMAIN Lock => todo = Lock[op], op \in DOMAIN Unlock => todo = Unlock[op]
  PROVE  /\ op \in {"suspendTenant", "unsuspendTenant"} =>
              todo = <<"subscription", "business", "members", "users">>
         /\ op \notin {"suspendTenant", "unsuspendTenant"} =>
              todo = <<"subscription", "tenantStatus", "members">>
BY LockDomains DEF Lock, Unlock

LEMMA ThreeSteps ==
  /\ <<"subscription", "tenantStatus", "members">> \in Seq({"subscription", "tenantStatus", "members"})
  /\ \A s \in {"subscription", "tenantStatus", "members"} :
       \E i \in 1 .. Len(<<"subscription", "tenantStatus", "members">>) :
         <<"subscription", "tenantStatus", "members">>[i] = s
<1> DEFINE l == <<"subscription", "tenantStatus", "members">>
<1>1. l \in Seq({"subscription", "tenantStatus", "members"}) OBVIOUS
<1>2. /\ 1 \in 1 .. Len(l) /\ 2 \in 1 .. Len(l) /\ 3 \in 1 .. Len(l)
      /\ l[1] = "subscription" /\ l[2] = "tenantStatus" /\ l[3] = "members"
  OBVIOUS
<1> HIDE DEF l
<1>3. \A s \in {"subscription", "tenantStatus", "members"} : \E i \in 1 .. Len(l) : l[i] = s
  BY <1>2
<1> QED BY <1>1, <1>3 DEF l

LEMMA FourSteps ==
  /\ <<"subscription", "business", "members", "users">> \in Seq({"subscription", "business", "members", "users"})
  /\ \A s \in {"subscription", "business", "members", "users"} :
       \E i \in 1 .. Len(<<"subscription", "business", "members", "users">>) :
         <<"subscription", "business", "members", "users">>[i] = s
<1> DEFINE l == <<"subscription", "business", "members", "users">>
<1>1. l \in Seq({"subscription", "business", "members", "users"}) OBVIOUS
<1>2. /\ 1 \in 1 .. Len(l) /\ 2 \in 1 .. Len(l) /\ 3 \in 1 .. Len(l) /\ 4 \in 1 .. Len(l)
      /\ l[1] = "subscription" /\ l[2] = "business" /\ l[3] = "members" /\ l[4] = "users"
  OBVIOUS
<1> HIDE DEF l
<1>3. \A s \in {"subscription", "business", "members", "users"} : \E i \in 1 .. Len(l) : l[i] = s
  BY <1>2
<1> QED BY <1>1, <1>3 DEF l

LEMMA BeginsLocking ==
  ASSUME JobsShape, NEW w \in Workers, NEW op \in DOMAIN Lock \cup DOMAIN Unlock,
         NEW t \in Tenants, NEW image \in Subscription, NEW todo,
         op \in DOMAIN Lock => todo = Lock[op], op \in DOMAIN Unlock => todo = Unlock[op],
         Begin(w, WithImage(op, t, todo, image))
  PROVE  /\ Starts(w) /\ job'[w] \in CancelJob \cup SuspendJob
         /\ job'[w].op = op /\ job'[w].tenant = t /\ job'[w].image = image
         /\ Left(w, "members")'
         /\ Way(op) = "tenant" => Left(w, "business")' /\ Left(w, "users")'
         /\ Way(op) = "subscription" => Left(w, "tenantStatus")'
<1> DEFINE j == WithImage(op, t, todo, image)
<1>1. j.op = op /\ j.tenant = t /\ j.image = image /\ j.todo = todo
  BY DEF WithImage
<1>2. CASE op \in {"suspendTenant", "unsuspendTenant"}
  <2>1. todo = <<"subscription", "business", "members", "users">>
    BY <1>2, LockSteps
  <2>2. j \in SuspendJob
    BY <1>2, <2>1, FourSteps DEF WithImage, SuspendJob
  <2>3. j \in PlatformJob
    BY <2>2 DEF PlatformJob, SavingJob
  <2> HIDE DEF j
  <2>4. Starts(w) /\ job'[w] = j
    <3>1. Begin(w, j)
      BY DEF j
    <3> QED BY <2>3, <3>1, BeginStarts DEF Starts
  <2>5. \A s \in {"subscription", "business", "members", "users"} :
          \E i \in 1 .. Len(job'[w].todo) : job'[w].todo[i] = s
    BY <1>1, <2>1, <2>4, FourSteps
  <2>6. ~Free(w)'
    BY <2>4 DEF Starts
  <2>7. Left(w, "members")' /\ Left(w, "business")' /\ Left(w, "users")'
    BY <2>5, <2>6 DEF Left
  <2> QED BY <1>1, <1>2, <2>2, <2>4, <2>7 DEF Way
<1>3. CASE op \notin {"suspendTenant", "unsuspendTenant"}
  <2>1. todo = <<"subscription", "tenantStatus", "members">>
    BY <1>3, LockSteps
  <2>2. j \in CancelJob
    BY <1>3, <2>1, ThreeSteps, LockDomains DEF WithImage, CancelJob
  <2>3. j \in PlatformJob
    BY <2>2 DEF PlatformJob, SavingJob
  <2> HIDE DEF j
  <2>4. Starts(w) /\ job'[w] = j
    <3>1. Begin(w, j)
      BY DEF j
    <3> QED BY <2>3, <3>1, BeginStarts DEF Starts
  <2>5. \A s \in {"subscription", "tenantStatus", "members"} :
          \E i \in 1 .. Len(job'[w].todo) : job'[w].todo[i] = s
    BY <1>1, <2>1, <2>4, ThreeSteps
  <2>6. ~Free(w)'
    BY <2>4 DEF Starts
  <2>7. Left(w, "members")' /\ Left(w, "tenantStatus")'
    BY <2>5, <2>6 DEF Left
  <2> QED BY <1>1, <1>3, <2>2, <2>4, <2>7 DEF Way
<1> QED BY <1>2, <1>3

LEMMA LockOutStarts ==
  ASSUME JobsShape, PlatformTypeOK, NEW w \in Workers, LockOut(w)
  PROVE  /\ Starts(w) /\ job'[w] \in CancelJob \cup SuspendJob
         /\ job'[w].op \in DOMAIN Lock /\ job'[w].tenant \in Rows(subscription)
         /\ job'[w].image.status \in {"CANCELLED", "SUSPENDED"}
         /\ lockedBy' = [lockedBy EXCEPT ![job'[w].tenant] = @ \cup {Way(job'[w].op)}]
<1>1. PICK t \in Rows(subscription), op \in DOMAIN Lock :
       /\ Begin(w, WithImage(op, t, Lock[op],
                     [subscription[t] EXCEPT !.status =
                        IF op = "cancelSubscription" THEN "CANCELLED" ELSE "SUSPENDED"]))
       /\ lockedBy' = [lockedBy EXCEPT ![t] = @ \cup {Way(op)}]
  BY DEF LockOut
<1> DEFINE s == IF op = "cancelSubscription" THEN "CANCELLED" ELSE "SUSPENDED"
           image == [subscription[t] EXCEPT !.status = s]
<1>2. t \in Tenants /\ subscription[t] \in Subscription
  BY RowIsTyped
<1>3. s \in SubscriptionStatus /\ s \in {"CANCELLED", "SUSPENDED"}
  BY DEF SubscriptionStatus
<1> HIDE DEF s
<1>4. image \in Subscription /\ image.status = s
  BY <1>2, <1>3, StatusImage
<1>5. Begin(w, WithImage(op, t, Lock[op], image))
  BY <1>1 DEF s
<1> HIDE DEF image
<1>6. op \in DOMAIN Lock \cup DOMAIN Unlock /\ op \notin DOMAIN Unlock
  BY LockDomains
<1>7. /\ Starts(w) /\ job'[w] \in CancelJob \cup SuspendJob
      /\ job'[w].op = op /\ job'[w].tenant = t /\ job'[w].image = image
  BY <1>2, <1>4, <1>5, <1>6, BeginsLocking
<1> QED BY <1>1, <1>3, <1>4, <1>7

LEMMA LetInStarts ==
  ASSUME JobsShape, PlatformTypeOK, PlatformAssumption, NEW w \in Workers, LetIn(w)
  PROVE  /\ Starts(w) /\ job'[w] \in CancelJob \cup SuspendJob
         /\ job'[w].op \in DOMAIN Unlock /\ job'[w].tenant \in Rows(subscription)
         /\ lockedBy' = [lockedBy EXCEPT ![job'[w].tenant] = @ \ {Way(job'[w].op)}]
         /\ given' = given \cup {job'[w].tenant}
         /\ Left(w, "members")'
         /\ Way(job'[w].op) = "tenant" => Left(w, "business")' /\ Left(w, "users")'
         /\ Way(job'[w].op) = "subscription" => Left(w, "tenantStatus")'
<1>1. PICK t \in Rows(subscription), op \in DOMAIN Unlock :
       /\ Begin(w, WithImage(op, t, Unlock[op],
                     IF op = "reactivateSubscription" THEN Activated(subscription[t])
                     ELSE [subscription[t] EXCEPT !.status = "ACTIVE"]))
       /\ lockedBy' = [lockedBy EXCEPT ![t] = @ \ {Way(op)}]
       /\ given' = given \cup {t}
  BY DEF LetIn
<1> DEFINE image == IF op = "reactivateSubscription" THEN Activated(subscription[t])
                    ELSE [subscription[t] EXCEPT !.status = "ACTIVE"]
<1>2. t \in Tenants /\ subscription[t] \in Subscription
  BY RowIsTyped
<1>3. "ACTIVE" \in SubscriptionStatus
  BY DEF SubscriptionStatus
<1>4. image \in Subscription
  BY <1>2, <1>3, StatusImage, ActivatedIs
<1> HIDE DEF image
<1>5. Begin(w, WithImage(op, t, Unlock[op], image))
  BY <1>1 DEF image
<1>6. op \in DOMAIN Lock \cup DOMAIN Unlock /\ op \notin DOMAIN Lock
  BY LockDomains
<1>7. /\ Starts(w) /\ job'[w] \in CancelJob \cup SuspendJob
      /\ job'[w].op = op /\ job'[w].tenant = t
      /\ Left(w, "members")'
      /\ Way(op) = "tenant" => Left(w, "business")' /\ Left(w, "users")'
      /\ Way(op) = "subscription" => Left(w, "tenantStatus")'
  BY <1>2, <1>4, <1>5, <1>6, BeginsLocking
<1> QED BY <1>1, <1>7

LEMMA DeletionStarts ==
  ASSUME JobsShape, PlatformTypeOK, NEW w \in Workers, StartDeletion(w)
  PROVE  /\ Starts(w) /\ job'[w] \in DeleteJob /\ Todo(w, "spend")'
         /\ job'[w].token \in Exports
         /\ exports[job'[w].token] = [tenant |-> job'[w].tenant, expired |-> FALSE]
         /\ deletions' = [deletions EXCEPT ![job'[w].tenant] = @ + 1]
<1>1. PICK t \in Rows(tenant), x \in Rows(exports) :
        /\ exports[x] = [tenant |-> t, expired |-> FALSE]
        /\ Begin(w, [op |-> "delete", tenant |-> t, todo |-> DeletionSteps, token |-> x, users |-> Members(t)])
        /\ deletions' = [deletions EXCEPT ![t] = @ + 1]
  BY DEF StartDeletion
<1> DEFINE j == [op |-> "delete", tenant |-> t, todo |-> DeletionSteps, token |-> x, users |-> Members(t)]
<1>2. t \in Tenants /\ x \in Exports /\ Members(t) \subseteq Persons
  BY DEF PlatformTypeOK, Rows, Members
<1>3. j \in DeleteJob /\ j.tenant = t /\ j.token = x /\ j.todo = DeletionSteps
  BY <1>2 DEF DeleteJob
<1>4. j \in PlatformJob
  BY <1>3 DEF PlatformJob
<1>5. Begin(w, j)
  BY <1>1
<1> HIDE DEF j
<1>6. Starts(w) /\ job'[w] = j
  BY <1>4, <1>5, BeginStarts DEF Starts
<1>7. Todo(w, "spend")'
  BY <1>3, <1>6, DeletionList DEF Todo, Starts
<1> QED BY <1>1, <1>2, <1>3, <1>6, <1>7

LEMMA MorningStarts ==
  ASSUME JobsShape, PlatformTypeOK, NEW w \in Workers, StartMorning(w)
  PROVE  /\ Starts(w) /\ job'[w] \in MorningJob /\ Left(w, "list")'
         /\ job'[w].op = duty /\ job'[w].list = JobFinds(duty) /\ job'[w].copies = subscription
         /\ JobFinds(duty) \subseteq Rows(subscription)
<1> DEFINE j == [op |-> duty, tenant |-> "many", todo |-> <<"list">>, list |-> JobFinds(duty), copies |-> subscription]
<1>1. JobFinds(duty) \subseteq Rows(subscription) /\ Rows(subscription) \subseteq Tenants
  BY DEF JobFinds, Rows, PlatformTypeOK
<1>2. <<"list">> \in Seq({"list"}) /\ 1 \in 1 .. Len(<<"list">>) /\ <<"list">>[1] = "list" OBVIOUS
<1>3. duty \in {"expire", "overdue"}
  BY DEF StartMorning, PlatformTypeOK
<1>4. /\ j \in MorningJob /\ j.op = duty /\ j.list = JobFinds(duty) /\ j.copies = subscription
      /\ j.todo = <<"list">>
  BY <1>1, <1>2, <1>3 DEF MorningJob, PlatformTypeOK
<1>5. j \in PlatformJob
  BY <1>4 DEF PlatformJob
<1>6. Begin(w, j)
  BY DEF StartMorning
<1> HIDE DEF j
<1>7. Starts(w) /\ job'[w] = j
  BY <1>5, <1>6, BeginStarts DEF Starts
<1>8. Left(w, "list")'
  <2>1. job'[w].todo = <<"list">> /\ ~Free(w)'
    BY <1>4, <1>7 DEF Starts
  <2>2. \E i \in 1 .. Len(job'[w].todo) : job'[w].todo[i] = "list"
    BY <1>2, <2>1
  <2> QED BY <2>1, <2>2 DEF Left
<1> QED BY <1>1, <1>4, <1>7, <1>8

(* The subscriptions, once a morning job has treated one of its list. *)
Fallen(w, t) ==
  IF job[w].op = "expire" THEN [subscription EXCEPT ![t] = [job[w].copies[t] EXCEPT !.status = "EXPIRED"]]
  ELSE IF Exists(subscription, t) THEN [subscription EXCEPT ![t].status = "OVERDUE"]
  ELSE subscription

(* One entry of a morning job. *)
LEMMA EntrySteps ==
  ASSUME JobsShape, JobsTyped, NEW w \in Workers, MorningEntry(w)
  PROVE  /\ Acts(w) /\ ~Free(w) /\ ~Free(w)' /\ Left(w, "list") /\ Left(w, "list")'
         /\ job[w] \in MorningJob /\ job'[w] \in MorningJob
         /\ job'[w].op = job[w].op /\ job'[w].copies = job[w].copies
         /\ job[w].list \subseteq Rows(job[w].copies)
         /\ \E t \in job[w].list :
              /\ job'[w].list = job[w].list \ {t}
              /\ subscription' = Fallen(w, t)
<1> USE DEF Fallen
<1>1. ~Free(w) /\ job[w] \in PlatformJob /\ job[w].todo # << >> /\ Head(job[w].todo) = "list"
  BY DEF MorningEntry, Todo, JobsTyped
<1>2. PICK S : job[w].todo \in Seq(S)
  BY <1>1, JobList
<1>3. Left(w, "list")
  BY <1>1, <1>2, ListTail DEF Left
<1>4. job[w] \in MorningJob /\ job[w].list \subseteq Rows(job[w].copies)
  BY <1>1, <1>3, StepTells DEF JobsTyped
<1>5. PICK t \in job[w].list :
       /\ subscription' =
            IF Doing(w, "expire") THEN [subscription EXCEPT ![t] = [job[w].copies[t] EXCEPT !.status = "EXPIRED"]]
            ELSE IF Exists(subscription, t) THEN [subscription EXCEPT ![t].status = "OVERDUE"]
            ELSE subscription
       /\ Continue(w, [job[w] EXCEPT !.list = @ \ {t}])
  BY DEF MorningEntry
<1> DEFINE k == [job[w] EXCEPT !.list = @ \ {t}]
<1>6. /\ k \in MorningJob /\ k.op = job[w].op /\ k.copies = job[w].copies /\ k.todo = job[w].todo
      /\ k.list = job[w].list \ {t}
  BY <1>4 DEF MorningJob
<1>7. k \in PlatformJob
  BY <1>6 DEF PlatformJob
<1> HIDE DEF k
<1>8. k # Idle /\ "op" \in DOMAIN k
  BY <1>7, NotIdle
<1>9. Acts(w) /\ job'[w] = k
  <2>1. Continue(w, k)
    BY <1>5 DEF k
  <2> QED BY <1>1, <1>8, <2>1, ContinueActs
<1>10. ~Free(w)'
  BY <1>8, <1>9 DEF Free
<1>11. Left(w, "list")'
  BY <1>3, <1>6, <1>9, <1>10 DEF Left
<1> QED BY <1>1, <1>3, <1>4, <1>5, <1>6, <1>9, <1>10, <1>11 DEF Doing

(* A handler that ends has nothing left to do but what a refusal ends. *)
LEMMA Ends ==
  ASSUME JobsShape, JobsTyped, NEW w \in Workers, Done(w) \/ RefuseDeletion(w)
  PROVE  /\ Acts(w) /\ ~Free(w) /\ Free(w)' /\ UNCHANGED platformVars
         /\ \A s : Left(w, s) => job[w] \in DeleteJob
         /\ ~Todo(w, "spend")
<1>1. CASE Done(w)
  <2>1. Acts(w) /\ ~Free(w) /\ Free(w)' /\ UNCHANGED platformVars /\ job[w].todo = << >>
    BY <1>1, FinishActs DEF Done, Free
  <2>2. \A s : ~Left(w, s)
    BY <2>1 DEF Left
  <2> QED BY <2>1, <2>2 DEF Todo
<1>2. CASE RefuseDeletion(w)
  <2>1. PICK step \in {"deleteUsers", "deleteSubscription", "deleteTenant"} : Todo(w, step)
    BY <1>2 DEF RefuseDeletion
  <2>2. Acts(w) /\ ~Free(w) /\ Free(w)' /\ UNCHANGED platformVars
    BY <1>2, <2>1, FinishActs DEF RefuseDeletion, Free, Todo
  <2>3. job[w] \in PlatformJob /\ job[w].todo # << >> /\ Head(job[w].todo) = step
    BY <2>1 DEF Todo, JobsTyped
  <2>4. PICK S : job[w].todo \in Seq(S)
    BY <2>3, JobList
  <2>5. Left(w, step)
    BY <2>2, <2>3, <2>4, ListTail DEF Left
  <2>6. job[w] \in DeleteJob
    BY <2>5, StepTells DEF DeleteSteps
  <2> QED BY <2>1, <2>2, <2>6 DEF Todo
<1> QED BY <1>1, <1>2

(* Which step each of the other handlers takes from its list. *)
LEMMA Pops ==
  ASSUME JobsShape, JobsTyped, NEW w \in Workers
  PROVE  /\ AskApproval(w) => Popped(w, "approval")
         /\ FirstSubscription(w) => Popped(w, "firstSubscription")
         /\ SaveSubscription(w) => Popped(w, "subscription")
         /\ CardPayment(w) => Popped(w, "cardPayment")
         /\ SaveVerdict(w) => Popped(w, "verdict")
         /\ SetTenantStatus(w) => Popped(w, "tenantStatus")
         /\ SetBusiness(w) => Popped(w, "business")
         /\ SetMembers(w) => Popped(w, "members")
         /\ SetUsers(w) => Popped(w, "users")
         /\ SpendExport(w) => Popped(w, "spend")
         /\ EndMorning(w) => Popped(w, "list") /\ job[w].list = {}
         /\ \A s : Delete(w, s) => Popped(w, s) /\ ~Refused(w, s)
BY GoOnPops DEF AskApproval, FirstSubscription, SaveSubscription, CardPayment, SaveVerdict, SetTenantStatus,
     SetBusiness, SetMembers, SetUsers, SpendExport, EndMorning, Delete

LEMMA JobFields ==
  ASSUME NEW j \in PlatformJob
  PROVE  /\ j \in RegisterJob \cup SavingJob \cup DeleteJob => j.tenant \in Tenants /\ j \notin MorningJob
         /\ j \in SavingJob => j.image \in Subscription
         /\ j \in RegisterJob => j.plan \in Plans
         /\ j \in CardJob => j.intent \in Intents
         /\ j \in JudgeJob => j.payment \in Payments /\ j.verdict \in {"VERIFIED", "REJECTED"}
         /\ j \in DeleteJob => j.token \in Exports /\ j.users \subseteq Persons
         /\ j \in MorningJob => j.list \subseteq Tenants /\ j.copies \in [Tenants -> Subscription \cup {Absent}]
<1>1. j \in RegisterJob => j.tenant \in Tenants /\ j.plan \in Plans
  BY DEF RegisterJob
<1>2. j \in CardJob => j.tenant \in Tenants /\ j.image \in Subscription /\ j.intent \in Intents
  BY DEF CardJob
<1>3. j \in SaveJob => j.tenant \in Tenants /\ j.image \in Subscription
  BY DEF SaveJob
<1>4. j \in JudgeJob => /\ j.tenant \in Tenants /\ j.image \in Subscription /\ j.payment \in Payments
                        /\ j.verdict \in {"VERIFIED", "REJECTED"}
  BY DEF JudgeJob
<1>5. j \in CancelJob => j.tenant \in Tenants /\ j.image \in Subscription
  BY DEF CancelJob
<1>6. j \in SuspendJob => j.tenant \in Tenants /\ j.image \in Subscription
  BY DEF SuspendJob
<1>7. j \in DeleteJob => j.tenant \in Tenants /\ j.token \in Exports /\ j.users \subseteq Persons
  BY DEF DeleteJob
<1>8. j \in MorningJob => j.list \subseteq Tenants /\ j.copies \in [Tenants -> Subscription \cup {Absent}]
  BY DEF MorningJob
<1>9. j \in RegisterJob \cup SavingJob \cup DeleteJob => j \notin MorningJob
  BY Kinds DEF SavingJob
<1> QED BY <1>1, <1>2, <1>3, <1>4, <1>5, <1>6, <1>7, <1>8, <1>9 DEF SavingJob

LEMMA JobsStayTyped ==
  ASSUME NEW w \in Workers, Acts(w), Unmarred',
         ~Free(w)' => /\ job'[w] \in PlatformJob
                      /\ job'[w] \in MorningJob => job'[w].list \subseteq Rows(job'[w].copies)
  PROVE  JobsTyped'
BY OnlyOne DEF JobsTyped

LEMMA PoppedTyped ==
  ASSUME JobsTyped, NEW w \in Workers, NEW s, Popped(w, s), Unmarred'
  PROVE  JobsTyped'
<1>1. Acts(w) /\ ~Free(w) /\ job[w] \in PlatformJob /\ job'[w] \in PlatformJob /\ KeepsAll(job[w], job'[w])
  BY DEF Popped
<1>2. ASSUME job'[w] \in MorningJob PROVE job'[w].list \subseteq Rows(job'[w].copies)
  <2>1. job[w] \in MorningJob
    BY <1>1, <1>2, Kinds DEF KeepsAll
  <2> QED BY <1>1, <2>1 DEF KeepsAll, JobsTyped
<1> QED BY <1>1, <1>2, JobsStayTyped

(* At once: nobody has anything to do, before and after. *)
LEMMA QuietStep ==
  ASSUME JobsShape, NEW w \in Workers, NEW op, AtOnce(w, op), Unmarred'
  PROVE  /\ Acts(w) /\ Unmarred /\ job' = job /\ \A v \in Workers : Free(v) /\ Free(v)'
         /\ \A v \in Workers : \A s : ~Left(v, s) /\ ~Left(v, s)' /\ ~Todo(v, s) /\ ~Todo(v, s)'
<1>1. Acts(w) /\ job'[w] = Idle /\ job' = job /\ Free(w)
  BY AtOnceActs
<1>2. \A v \in Workers : Free(v) /\ Free(v)'
  BY <1>1, OnlyOne DEF Free
<1> QED BY <1>1, <1>2, OnlyOne DEF Left, Todo

LEMMA JobsTypedStep ==
  ASSUME JobsShape, PlatformTypeOK, JobsTyped, PlatformAssumption, NEW w \in Workers, Handles(w), Unmarred',
         \A p \in Rows(payments) : Exists(subscription, payments[p].tenant)
  PROVE  JobsTyped'
<1>1. CASE RegisterTenant(w)
  <2>1. Starts(w) /\ job'[w] \in RegisterJob
    BY <1>1, RegisterStarts
  <2> QED BY <2>1, JobsStayTyped, JobFields DEF Starts
<1>2. CASE \/ AskApproval(w) \/ FirstSubscription(w) \/ SaveSubscription(w) \/ CardPayment(w) \/ SaveVerdict(w)
           \/ SetTenantStatus(w) \/ SetBusiness(w) \/ SetMembers(w) \/ SetUsers(w) \/ SpendExport(w) \/ EndMorning(w)
  BY <1>2, Pops, PoppedTyped
<1>3. CASE DeleteMembers(w) \/ DeleteUsers(w) \/ DeleteTenantBusiness(w) \/ DeleteRow(w)
  <2>1. \E s : Delete(w, s)
    BY <1>3 DEF DeleteMembers, DeleteUsers, DeleteTenantBusiness, DeleteRow
  <2> QED BY <2>1, Pops, PoppedTyped
<1>4. CASE \/ Join(w) \/ Review(w) \/ CreateIntent(w) \/ Export(w)
           \/ SwitchPlan(w) \/ OpenTicket(w) \/ UpdateTicket(w) \/ ReplyToTicket(w)
  <2>1. \E op : AtOnce(w, op)
    BY <1>4 DEF Join, Review, CreateIntent, Export, SwitchPlan, OpenTicket, UpdateTicket, ReplyToTicket
  <2> QED BY <2>1, QuietStep, JobsStayTyped
<1>5. CASE ConfirmPayment(w) \/ Webhook(w)
  <2>1. Starts(w) /\ job'[w] \in SavingJob
    BY <1>5, CardStarts DEF SavingJob
  <2> QED BY <2>1, JobsStayTyped, JobFields DEF Starts
<1>6. CASE SubmitPayment(w) \/ SetByHand(w)
  <2>1. Starts(w) /\ job'[w] \in SavingJob
    BY <1>6, SubmitStarts, HandStarts DEF SavingJob
  <2> QED BY <2>1, JobsStayTyped, JobFields DEF Starts
<1>7. CASE Judge(w)
  <2>1. Starts(w) /\ job'[w] \in SavingJob
    BY <1>7, JudgeStarts DEF SavingJob
  <2> QED BY <2>1, JobsStayTyped, JobFields DEF Starts
<1>8. CASE LockOut(w) \/ LetIn(w)
  <2>1. Starts(w) /\ job'[w] \in SavingJob
    BY <1>8, LockOutStarts, LetInStarts DEF SavingJob
  <2> QED BY <2>1, JobsStayTyped, JobFields DEF Starts
<1>9. CASE StartDeletion(w)
  <2>1. Starts(w) /\ job'[w] \in DeleteJob
    BY <1>9, DeletionStarts
  <2> QED BY <2>1, JobsStayTyped, JobFields DEF Starts
<1>10. CASE StartMorning(w)
  <2>1. Starts(w) /\ job'[w].list \subseteq Rows(job'[w].copies)
    BY <1>10, MorningStarts
  <2> QED BY <2>1, JobsStayTyped DEF Starts
<1>11. CASE MorningEntry(w)
  <2>1. /\ Acts(w) /\ job'[w] \in MorningJob /\ job'[w].copies = job[w].copies
        /\ job[w].list \subseteq Rows(job[w].copies)
        /\ \E t \in job[w].list : job'[w].list = job[w].list \ {t}
    BY <1>11, EntrySteps
  <2>2. job'[w] \in PlatformJob /\ job'[w].list \subseteq Rows(job'[w].copies)
    BY <2>1 DEF PlatformJob
  <2> QED BY <2>1, <2>2, JobsStayTyped
<1>12. CASE Done(w) \/ RefuseDeletion(w)
  BY <1>12, Ends, JobsStayTyped
<1> QED BY <1>1, <1>2, <1>3, <1>4, <1>5, <1>6, <1>7, <1>8, <1>9, <1>10, <1>11, <1>12
        DEF Handles, Paying, Locking, Deleting

(* The columns of the tables keep their types. *)
LEMMA PoppedFields ==
  ASSUME JobsTyped, NEW w \in Workers, NEW s, Popped(w, s)
  PROVE  /\ s \in {"approval", "firstSubscription"} => job[w] \in RegisterJob
         /\ s \in {"subscription", "cardPayment", "verdict", "tenantStatus", "business", "members", "users"}
              => job[w] \in SavingJob
         /\ s \in DeleteSteps \cup {"spend"} => job[w] \in DeleteJob
         /\ s # "list" => job[w].tenant \in Tenants
         /\ s \in {"subscription", "cardPayment", "verdict", "tenantStatus", "business", "members", "users"}
              => job[w].image \in Subscription
<1>1. Left(w, s) /\ job[w] \in PlatformJob
  BY DEF Popped
<1>2. /\ s \in {"approval", "firstSubscription"} => job[w] \in RegisterJob
      /\ s \in {"subscription", "cardPayment", "verdict", "tenantStatus", "business", "members", "users"}
           => job[w] \in SavingJob
      /\ s \in DeleteSteps \cup {"spend"} => job[w] \in DeleteJob
  BY <1>1, StepTells DEF SavingJob
<1>3. s # "list" => job[w] \in RegisterJob \cup SavingJob \cup DeleteJob
  <2> SUFFICES ASSUME job[w] \notin RegisterJob \cup SavingJob \cup DeleteJob PROVE s = "list"
    OBVIOUS
  <2>1. job[w] \in MorningJob
    BY <1>1 DEF PlatformJob
  <2>2. PICK S : job[w].todo \in Seq(S) /\ (job[w] \in MorningJob => S = {"list"})
    BY <1>1, JobList
  <2>3. s \in S
    BY <1>1, <2>2, ListElements DEF Left
  <2> QED BY <2>1, <2>2, <2>3
<1> QED BY <1>1, <1>2, <1>3, JobFields

LEMMA TypeStep ==
  ASSUME JobsShape, PlatformTypeOK, JobsTyped, Billed, Locked, PlatformAssumption, NEW w \in Workers, Handles(w), Unmarred'
  PROVE  PlatformTypeOK'
<1> USE DEF Fallen, PlatformTypeOK, rowVars, clockVars, ghostVars
<1>1. CASE RegisterTenant(w)
  <2>1. Fresh(tenant) \in Tenants /\ Fresh(people) \in Persons
    BY <1>1, RegisterStarts
  <2>2. [status |-> "active", business |-> "open"] \in Tenant
    BY Zenon DEF Tenant
  <2>3. [tenant |-> Fresh(tenant), owner |-> TRUE, member |-> "active", suspended |-> FALSE] \in Person
    BY <2>1 DEF Person
  <2>4. tenant' \in [Tenants -> Tenant \cup {Absent}] /\ people' \in [Persons -> Person \cup {Absent}]
    BY <1>1, <2>2, <2>3 DEF RegisterTenant
  <2> QED BY <1>1, <2>4 DEF RegisterTenant
<1>2. CASE AskApproval(w)
  <2>1. approval' \in [Tenants -> Approval \cup {Absent}]
    BY <1>2 DEF AskApproval, Approval
  <2> QED BY <1>2, <2>1 DEF AskApproval
<1>3. CASE FirstSubscription(w)
  <2>1. job[w].plan \in Plans
    BY <1>3, Pops, PoppedFields, JobFields DEF Popped
  <2>2. now + Length(job[w].plan) \in Nat
    BY DEF PlatformAssumption, Length
  <2>3. [status |-> "PENDING_PAYMENT", plan |-> job[w].plan, ends |-> now + Length(job[w].plan)] \in Subscription
    BY <2>1, <2>2 DEF Subscription, SubscriptionStatus
  <2>4. subscription' \in [Tenants -> Subscription \cup {Absent}]
    BY <1>3, <2>3 DEF FirstSubscription
  <2> QED BY <1>3, <2>4 DEF FirstSubscription
<1>4. CASE Join(w)
  <2>1. PICK t \in Rows(tenant) :
          people' = [people EXCEPT ![Fresh(people)] =
                       [tenant |-> t, owner |-> FALSE, member |-> "active", suspended |-> FALSE]]
    BY <1>4 DEF Join
  <2>2. [tenant |-> t, owner |-> FALSE, member |-> "active", suspended |-> FALSE] \in Person
    BY DEF Person, Rows
  <2>3. people' \in [Persons -> Person \cup {Absent}]
    BY <2>1, <2>2
  <2> QED BY <1>4, <2>3 DEF Join
<1>5. CASE Review(w)
  <2>1. PICK t \in Rows(tenant), verdict \in {"APPROVED", "REJECTED"} :
          Exists(approval, t) /\ approval' = [approval EXCEPT ![t].status = verdict]
    BY <1>5 DEF Review
  <2>2. t \in Tenants /\ approval[t] \in Approval
    BY <2>1 DEF Rows, Exists
  <2>3. [approval[t] EXCEPT !.status = verdict] \in Approval
    BY <2>2 DEF Approval
  <2>4. approval' = [approval EXCEPT ![t] = [approval[t] EXCEPT !.status = verdict]]
    BY <2>1
  <2>5. approval' \in [Tenants -> Approval \cup {Absent}]
    BY <2>3, <2>4
  <2> QED BY <1>5, <2>5 DEF Review
<1>6. CASE SaveSubscription(w)
  <2>1. job[w].tenant \in Tenants /\ job[w].image \in Subscription
    BY <1>6, Pops, PoppedFields
  <2>2. subscription' \in [Tenants -> Subscription \cup {Absent}]
    BY <1>6, <2>1 DEF SaveSubscription
  <2> QED BY <1>6, <2>2 DEF SaveSubscription
<1>7. CASE SetByHand(w)
  <2>1. \E t \in Rows(subscription) : given' = given \cup {t}
    BY <1>7, HandStarts
  <2>2. given' \subseteq Tenants
    BY <2>1, RowIsTyped
  <2> QED BY <1>7, <2>2 DEF SetByHand
<1>8. CASE Done(w) \/ RefuseDeletion(w) \/ ConfirmPayment(w) \/ Webhook(w) \/ Judge(w) \/ EndMorning(w)
  <2>1. UNCHANGED platformVars
    BY <1>8 DEF Done, RefuseDeletion, ConfirmPayment, Webhook, Judge, EndMorning
  <2> QED BY <2>1 DEF platformVars
<1>9. CASE CreateIntent(w)
  <2>1. PICK t \in Rows(subscription) :
          intents' = [intents EXCEPT ![Fresh(intents)] = [tenant |-> t, status |-> "created"]]
    BY <1>9 DEF CreateIntent
  <2>2. [tenant |-> t, status |-> "created"] \in Intent
    BY RowIsTyped DEF Intent
  <2>3. intents' \in [Intents -> Intent \cup {Absent}]
    BY <2>1, <2>2
  <2> QED BY <1>9, <2>3 DEF CreateIntent
<1>10. CASE CardPayment(w)
  <2>1. job[w] \in CardJob /\ job[w] \in PlatformJob /\ job[w].tenant \in Tenants
    BY <1>10, Pops, StepTells, PoppedFields DEF Popped
  <2>2. [tenant |-> job[w].tenant, intent |-> job[w].intent, status |-> "VERIFIED"] \in Payment
    BY <2>1, JobFields DEF Payment
  <2>3. payments' \in [Payments -> Payment \cup {Absent}]
    BY <1>10, <2>2 DEF CardPayment
  <2> QED BY <1>10, <2>3 DEF CardPayment
<1>11. CASE SubmitPayment(w)
  <2>1. PICK t \in Rows(subscription) :
           payments' = [payments EXCEPT ![Fresh(payments)] =
                             [tenant |-> t, intent |-> "none", status |-> "PENDING_VERIFICATION"]]
    BY <1>11, SubmitStarts
  <2>2. [tenant |-> t, intent |-> "none", status |-> "PENDING_VERIFICATION"] \in Payment
    BY RowIsTyped DEF Payment
  <2>3. payments' \in [Payments -> Payment \cup {Absent}]
    BY <2>1, <2>2
  <2> QED BY <1>11, <2>3 DEF SubmitPayment
<1>13. CASE LockOut(w)
  <2>1. job'[w].op \in DOMAIN Lock
        /\ lockedBy' = [lockedBy EXCEPT ![job'[w].tenant] = @ \cup {Way(job'[w].op)}]
    BY <1>13, LockOutStarts
  <2>2. Way(job'[w].op) \in {"subscription", "tenant"}
    BY DEF Way
  <2>3. lockedBy' \in [Tenants -> SUBSET {"subscription", "tenant"}]
    BY <2>1, <2>2
  <2> QED BY <1>13, <2>3 DEF LockOut
<1>14. CASE LetIn(w)
  <2>1. /\ job'[w].tenant \in Rows(subscription) /\ given' = given \cup {job'[w].tenant}
        /\ lockedBy' = [lockedBy EXCEPT ![job'[w].tenant] = @ \ {Way(job'[w].op)}]
    BY <1>14, LetInStarts
  <2>2. lockedBy' \in [Tenants -> SUBSET {"subscription", "tenant"}]
    BY <2>1
  <2>3. given' \subseteq Tenants
    BY <2>1, RowIsTyped
  <2> QED BY <1>14, <2>2, <2>3 DEF LetIn
<1>15. CASE SaveVerdict(w)
  <2>1. Left(w, "verdict") /\ job[w] \in JudgeJob /\ job[w] \in PlatformJob
    BY <1>15, Pops, StepTells DEF Popped
  <2>2. job[w].payment \in Payments /\ payments[job[w].payment] \in Payment /\ job[w].verdict \in {"VERIFIED", "REJECTED"}
    BY <2>1, JobFields DEF Billed, PaymentsOf, Rows, Exists
  <2>3. payments' = [payments EXCEPT ![job[w].payment] = [payments[job[w].payment] EXCEPT !.status = job[w].verdict]]
    BY <1>15 DEF SaveVerdict
  <2>4. [payments[job[w].payment] EXCEPT !.status = job[w].verdict] \in Payment
    BY <2>2 DEF Payment
  <2>5. payments' \in [Payments -> Payment \cup {Absent}]
    BY <2>3, <2>4
  <2> QED BY <1>15, <2>5 DEF SaveVerdict
<1>16. CASE SetTenantStatus(w)
  <2>1. job[w] \in SavingJob /\ job[w].tenant \in Tenants /\ ~Free(w)
    BY <1>16, Pops, PoppedFields DEF Popped
  <2>2. tenant[job[w].tenant] \in Tenant
    BY <2>1 DEF Locked, LockHeld, Exists
  <2>3. PICK s \in {"active", "suspended"} : tenant' = [tenant EXCEPT ![job[w].tenant].status = s]
    BY <1>16 DEF SetTenantStatus
  <2>4. [tenant[job[w].tenant] EXCEPT !.status = s] \in Tenant
    BY <2>2 DEF Tenant
  <2>5. tenant' \in [Tenants -> Tenant \cup {Absent}]
    BY <2>3, <2>4
  <2> QED BY <1>16, <2>5 DEF SetTenantStatus
<1>17. CASE SetBusiness(w)
  <2>1. job[w] \in SavingJob /\ job[w].tenant \in Tenants /\ ~Free(w)
    BY <1>17, Pops, PoppedFields DEF Popped
  <2>2. tenant[job[w].tenant] \in Tenant
    BY <2>1 DEF Locked, LockHeld, Exists
  <2>3. tenant[job[w].tenant].business \in {"open", "suspended", "gone"}
    BY <2>2 DEF Tenant
  <2> DEFINE s == CASE tenant[job[w].tenant].business = "gone" -> tenant[job[w].tenant].business
                    [] Opens(w) -> "open" [] OTHER -> "suspended"
  <2>4. tenant' = [tenant EXCEPT ![job[w].tenant].business = s]
    BY <1>17 DEF SetBusiness
  <2>7. s \in {"open", "suspended", "gone"}
    BY <2>3
  <2> HIDE DEF s
  <2>5. [tenant[job[w].tenant] EXCEPT !.business = s] \in Tenant
    BY <2>2, <2>7 DEF Tenant
  <2>6. tenant' \in [Tenants -> Tenant \cup {Absent}]
    BY <2>4, <2>5
  <2> QED BY <1>17, <2>6 DEF SetBusiness
<1>18. CASE DeleteTenantBusiness(w)
  <2>1. Popped(w, "deleteBusiness")
    BY <1>18, Pops DEF DeleteTenantBusiness
  <2>2. job[w] \in DeleteJob /\ job[w].tenant \in Tenants /\ ~Free(w) /\ Left(w, "deleteBusiness")
    BY <2>1, PoppedFields DEF Popped, DeleteSteps
  <2>3. tenant[job[w].tenant] \in Tenant
    BY <2>2 DEF Locked, LockHeld, Exists
  <2>4. [tenant[job[w].tenant] EXCEPT !.business = "gone"] \in Tenant
    BY <2>3 DEF Tenant
  <2>5. tenant' \in [Tenants -> Tenant \cup {Absent}]
    BY <1>18, <2>4 DEF DeleteTenantBusiness
  <2> QED BY <1>18, <2>5 DEF DeleteTenantBusiness
<1>19. CASE SetMembers(w) \/ DeleteMembers(w)
  <2>1. PICK s \in {"active", "inactive", "none"} :
          people' = [p \in Persons |-> IF p \in Members(job[w].tenant) THEN [people[p] EXCEPT !.member = s]
                                      ELSE people[p]]
    BY <1>19 DEF SetMembers, DeleteMembers
  <2>2. \A p \in Members(job[w].tenant) : [people[p] EXCEPT !.member = s] \in Person
    BY DEF Members, Rows, Exists, Person
  <2>3. people' \in [Persons -> Person \cup {Absent}]
    BY <2>1, <2>2
  <2> QED BY <1>19, <2>3 DEF SetMembers, DeleteMembers
<1>20. CASE SetUsers(w)
  <2>1. PICK s \in BOOLEAN :
          people' = [p \in Persons |-> IF p \in Members(job[w].tenant) THEN [people[p] EXCEPT !.suspended = s]
                                      ELSE people[p]]
    <3>1. people' = [p \in Persons |-> IF p \in Members(job[w].tenant) THEN [people[p] EXCEPT !.suspended = ~Opens(w)]
                                      ELSE people[p]]
      BY <1>20 DEF SetUsers, Touched
    <3>2. (~Opens(w)) \in BOOLEAN
      BY DEF Opens
    <3> QED BY <3>1, <3>2
  <2>2. \A p \in Members(job[w].tenant) : [people[p] EXCEPT !.suspended = s] \in Person
    BY DEF Members, Rows, Exists, Person
  <2>3. people' \in [Persons -> Person \cup {Absent}]
    BY <2>1, <2>2
  <2> QED BY <1>20, <2>3 DEF SetUsers
<1>21. CASE DeleteUsers(w)
  <2>1. people' \in [Persons -> Person \cup {Absent}]
    BY <1>21 DEF DeleteUsers
  <2> QED BY <1>21, <2>1 DEF DeleteUsers
<1>22. CASE Export(w)
  <2>1. PICK t \in Rows(tenant) :
       /\ exports' = [x \in Exports |->
                        CASE x = Fresh(exports) -> [tenant |-> t, expired |-> FALSE]
                          [] Exists(exports, x) /\ exports[x].expired -> Absent
                          [] OTHER -> exports[x]]
       /\ exported' = [exported EXCEPT ![t] = @ + 1]
    BY <1>22 DEF Export
  <2>2. t \in Tenants /\ [tenant |-> t, expired |-> FALSE] \in ExportToken
    BY DEF Rows, ExportToken
  <2>3. exports' \in [Exports -> ExportToken \cup {Absent}]
    BY <2>1, <2>2
  <2>4. exported' \in [Tenants -> Nat]
    BY <2>1, <2>2
  <2> QED BY <1>22, <2>3, <2>4 DEF Export
<1>23. CASE StartDeletion(w)
  <2>1. PICK t \in Tenants : deletions' = [deletions EXCEPT ![t] = @ + 1]
    BY <1>23, DeletionStarts, JobFields DEF PlatformJob
  <2>2. deletions' \in [Tenants -> Nat]
    BY <2>1
  <2> QED BY <1>23, <2>2 DEF StartDeletion
<1>24. CASE SpendExport(w)
  <2>1. exports' \in [Exports -> ExportToken \cup {Absent}]
    BY <1>24 DEF SpendExport
  <2> QED BY <1>24, <2>1 DEF SpendExport
<1>25. CASE DeleteRow(w)
  <2>1. /\ approval' \in [Tenants -> Approval \cup {Absent}] /\ subscription' \in [Tenants -> Subscription \cup {Absent}]
        /\ tickets' \in [Tickets -> Ticket \cup {Absent}] /\ tenant' \in [Tenants -> Tenant \cup {Absent}]
    BY <1>25 DEF DeleteRow
  <2> QED BY <1>25, <2>1 DEF DeleteRow
<1>26. CASE StartMorning(w)
  BY <1>26 DEF StartMorning
<1>27. CASE MorningEntry(w)
  <2>1. /\ job[w] \in MorningJob /\ job[w].list \subseteq Rows(job[w].copies)
        /\ \E t \in job[w].list :
              subscription' = Fallen(w, t)
    BY <1>27, EntrySteps
  <2>2. PICK t \in job[w].list :
              subscription' =
                   IF job[w].op = "expire"
                   THEN [subscription EXCEPT ![t] = [job[w].copies[t] EXCEPT !.status = "EXPIRED"]]
                   ELSE IF Exists(subscription, t) THEN [subscription EXCEPT ![t] = [subscription[t] EXCEPT !.status = "OVERDUE"]]
                   ELSE subscription
    BY <2>1
  <2>3. job[w].copies \in [Tenants -> Subscription \cup {Absent}] /\ job[w].list \subseteq Tenants
    BY <2>1, JobFields DEF PlatformJob
  <2>4. job[w].copies[t] \in Subscription /\ (Exists(subscription, t) => subscription[t] \in Subscription)
    BY <2>1, <2>3 DEF Rows, Exists
  <2>5. "EXPIRED" \in SubscriptionStatus /\ "OVERDUE" \in SubscriptionStatus
    BY DEF SubscriptionStatus
  <2>6. /\ [job[w].copies[t] EXCEPT !.status = "EXPIRED"] \in Subscription
        /\ Exists(subscription, t) => [subscription[t] EXCEPT !.status = "OVERDUE"] \in Subscription
    BY <2>4, <2>5, StatusImage
  <2>7. subscription' \in [Tenants -> Subscription \cup {Absent}]
    BY <2>2, <2>6
  <2> QED BY <1>27, <2>7 DEF MorningEntry
<1>28. CASE SwitchPlan(w)
  BY <1>28 DEF SwitchPlan
<1>29. CASE OpenTicket(w)
  <2>1. PICK t \in Rows(tenant) : tickets' = [tickets EXCEPT ![Fresh(tickets)] = [tenant |-> t, status |-> "OPEN"]]
    BY <1>29 DEF OpenTicket
  <2>2. [tenant |-> t, status |-> "OPEN"] \in Ticket
    BY DEF Rows, Ticket
  <2>3. tickets' \in [Tickets -> Ticket \cup {Absent}]
    BY <2>1, <2>2
  <2> QED BY <1>29, <2>3 DEF OpenTicket
<1>30. CASE UpdateTicket(w) \/ ReplyToTicket(w)
  <2>1. PICK k \in Rows(tickets) : \E s \in {"OPEN", "IN_PROGRESS", "RESOLVED", "CLOSED", tickets[k].status} :
          tickets' = [tickets EXCEPT ![k].status = s]
    BY <1>30 DEF UpdateTicket, ReplyToTicket
  <2>2. k \in Tickets /\ tickets[k] \in Ticket
    BY DEF Rows, Exists
  <2>3. PICK s \in {"OPEN", "IN_PROGRESS", "RESOLVED", "CLOSED"} :
          tickets' = [tickets EXCEPT ![k] = [tickets[k] EXCEPT !.status = s]]
    BY <2>1, <2>2 DEF Ticket
  <2>4. [tickets[k] EXCEPT !.status = s] \in Ticket
    BY <2>2 DEF Ticket
  <2>5. tickets' \in [Tickets -> Ticket \cup {Absent}]
    BY <2>3, <2>4
  <2> QED BY <1>30, <2>5 DEF UpdateTicket, ReplyToTicket
<1> QED BY <1>1, <1>2, <1>3, <1>4, <1>5, <1>6, <1>7, <1>8, <1>9, <1>10, <1>11, <1>13, <1>14, <1>15, <1>16, <1>17, <1>18,
           <1>19, <1>20, <1>21, <1>22, <1>23, <1>24, <1>25, <1>26, <1>27, <1>28, <1>29, <1>30
        DEF Handles, Paying, Locking, Deleting

----
(* Exports and deletions. *)
LEMMA SparesShrink ==
  ASSUME PlatformTypeOK, PlatformAssumption, Spent, NEW t \in Tenants, Spare(t)' \subseteq Spare(t),
         UNCHANGED <<exported, deletions>>
  PROVE  deletions'[t] + Cardinality(Spare(t)') <= exported'[t]
<1>1. IsFiniteSet(Exports) /\ Spare(t) \subseteq Exports
  BY DEF PlatformAssumption, Spare
<1>2. IsFiniteSet(Spare(t)) /\ IsFiniteSet(Spare(t)')
  BY <1>1, FS_Subset
<1>3. Cardinality(Spare(t)') <= Cardinality(Spare(t))
  BY <1>2, FS_Subset
<1>4. Cardinality(Spare(t)) \in Nat /\ Cardinality(Spare(t)') \in Nat
  BY <1>2, FS_CardinalityType
<1>5. deletions[t] + Cardinality(Spare(t)) <= exported[t] /\ deletions[t] \in Nat /\ exported[t] \in Nat
  BY DEF Spent, PlatformTypeOK
<1> QED BY <1>3, <1>4, <1>5

LEMMA SpentStays ==
  ASSUME PlatformTypeOK, PlatformAssumption, Spent, UNCHANGED <<exports, exported, deletions>>,
         NEW w \in Workers, Acts(w), Unmarred', ~Todo(w, "spend")
  PROVE  Spent'
<1>1. \A v \in Workers : ~Todo(v, "spend")
  BY OnlyOne, IdleHasNothing
<1>2. \A t \in Tenants : Spare(t)' \subseteq Spare(t)
  BY <1>1 DEF Spare
<1>3. \A t \in Tenants : deletions'[t] + Cardinality(Spare(t)') <= exported'[t]
  BY <1>2, SparesShrink
<1> QED BY <1>3 DEF Spent

LEMMA TodoOne ==
  ASSUME NEW w, NEW s, Todo(w, s), NEW r, r # s
  PROVE  ~Todo(w, r)
BY DEF Todo

LEMMA SpentStep ==
  ASSUME JobsShape, PlatformTypeOK, JobsTyped, PlatformAssumption, Billed, Spent,
         NEW w \in Workers, Handles(w), Unmarred'
  PROVE  Spent'
<1> USE DEF PlatformTypeOK, ghostVars
<1>1. CASE RegisterTenant(w)
  <2>1. Acts(w) /\ Free(w)
    BY <1>1, RegisterStarts DEF Starts
  <2> QED BY <1>1, <2>1, SpentStays, IdleHasNothing DEF RegisterTenant
<1>2. CASE AskApproval(w) \/ FirstSubscription(w) \/ SaveSubscription(w) \/ CardPayment(w) \/ SaveVerdict(w)
  <2>1. Acts(w) /\ ~Todo(w, "spend")
    BY <1>2, Pops, TodoOne DEF Popped
  <2> QED BY <1>2, <2>1, SpentStays
        DEF AskApproval, FirstSubscription, SaveSubscription, CardPayment, SaveVerdict
<1>3. CASE SetTenantStatus(w) \/ SetBusiness(w) \/ SetMembers(w) \/ SetUsers(w)
  <2>1. Acts(w) /\ ~Todo(w, "spend")
    BY <1>3, Pops, TodoOne DEF Popped
  <2> QED BY <1>3, <2>1, SpentStays DEF SetTenantStatus, SetBusiness, SetMembers, SetUsers
<1>4. CASE EndMorning(w)
  <2>1. Acts(w) /\ ~Todo(w, "spend")
    BY <1>4, Pops, TodoOne DEF Popped
  <2> QED BY <1>4, <2>1, SpentStays DEF EndMorning, platformVars, rowVars
<1>5. CASE DeleteMembers(w) \/ DeleteUsers(w) \/ DeleteTenantBusiness(w) \/ DeleteRow(w)
  <2>1. \E s \in DeleteSteps : Delete(w, s)
    BY <1>5 DEF DeleteMembers, DeleteUsers, DeleteTenantBusiness, DeleteRow, DeleteSteps
  <2>2. Acts(w) /\ ~Todo(w, "spend")
    BY <2>1, Pops, TodoOne DEF Popped, DeleteSteps
  <2> QED BY <1>5, <2>2, SpentStays DEF DeleteMembers, DeleteUsers, DeleteTenantBusiness, DeleteRow
<1>6. CASE \/ Join(w) \/ Review(w) \/ CreateIntent(w)
           \/ SwitchPlan(w) \/ OpenTicket(w) \/ UpdateTicket(w) \/ ReplyToTicket(w)
  <2>1. \E op : AtOnce(w, op)
    BY <1>6 DEF Join, Review, CreateIntent, SwitchPlan, OpenTicket, UpdateTicket, ReplyToTicket
  <2>2. Acts(w) /\ ~Todo(w, "spend")
    BY <2>1, QuietStep
  <2> QED BY <1>6, <2>2, SpentStays
        DEF Join, Review, CreateIntent, SwitchPlan, OpenTicket, UpdateTicket, ReplyToTicket
<1>7. CASE ConfirmPayment(w) \/ Webhook(w) \/ Judge(w) \/ StartMorning(w)
  <2>1. Acts(w) /\ Free(w)
    BY <1>7, CardStarts, JudgeStarts, MorningStarts DEF Starts, Billed
  <2>2. UNCHANGED <<exports, exported, deletions>>
    BY <1>7 DEF ConfirmPayment, Webhook, Judge, StartMorning, platformVars, rowVars
  <2> QED BY <2>1, <2>2, SpentStays, IdleHasNothing
<1>8. CASE SubmitPayment(w) \/ SetByHand(w) \/ LockOut(w) \/ LetIn(w)
  <2>1. Acts(w) /\ Free(w)
    BY <1>8, SubmitStarts, HandStarts, LockOutStarts, LetInStarts DEF Starts
  <2>2. UNCHANGED <<exports, exported, deletions>>
    BY <1>8 DEF SubmitPayment, SetByHand, LockOut, LetIn, rowVars
  <2> QED BY <2>1, <2>2, SpentStays, IdleHasNothing
<1>9. CASE MorningEntry(w)
  <2>1. Acts(w) /\ ~Todo(w, "spend")
    BY <1>9, EntrySteps, TodoOne DEF MorningEntry
  <2> QED BY <1>9, <2>1, SpentStays DEF MorningEntry
<1>10. CASE Done(w) \/ RefuseDeletion(w)
  <2>1. Acts(w) /\ ~Todo(w, "spend") /\ UNCHANGED <<exports, exported, deletions>>
    BY <1>10, Ends DEF platformVars, rowVars
  <2> QED BY <2>1, SpentStays
<1>11. CASE Export(w)
  <2>1. PICK t \in Rows(tenant) :
       /\ exports' = [x \in Exports |->
                        CASE x = Fresh(exports) -> [tenant |-> t, expired |-> FALSE]
                          [] Exists(exports, x) /\ exports[x].expired -> Absent
                          [] OTHER -> exports[x]]
       /\ exported' = [exported EXCEPT ![t] = @ + 1]
    BY <1>11 DEF Export
  <2>2. t \in Tenants /\ deletions' = deletions /\ Fresh(exports) \in Exports /\ ~Exists(exports, Fresh(exports))
    BY <1>11 DEF Export, Rows, CanInsert, Fresh
  <2>3. \A v \in Workers : ~Todo(v, "spend") /\ ~Todo(v, "spend")'
    BY <1>11, QuietStep DEF Export
  <2>4. \A u \in Tenants : Spare(u)' \subseteq Spare(u) \cup {Fresh(exports)}
    <3>1. \A u \in Tenants : [tenant |-> u, expired |-> FALSE] # Absent
      BY DEF Absent
    <3> QED BY <2>1, <2>3, <3>1 DEF Spare
  <2>5. \A u \in Tenants \ {t} : Spare(u)' \subseteq Spare(u)
    <3>1. \A u \in Tenants \ {t} : [tenant |-> u, expired |-> FALSE] # [tenant |-> t, expired |-> FALSE]
      <4>1. ASSUME NEW u \in Tenants \ {t}, [tenant |-> u, expired |-> FALSE] = [tenant |-> t, expired |-> FALSE]
            PROVE  FALSE
        <5>1. [tenant |-> u, expired |-> FALSE].tenant = [tenant |-> t, expired |-> FALSE].tenant
          BY <4>1
        <5> QED BY <4>1, <5>1
      <4> QED BY <4>1
    <3>2. PICK f : f = Fresh(exports) OBVIOUS
    <3>3. exports'[f] = [tenant |-> t, expired |-> FALSE]
      BY <2>1, <2>2, <3>2
    <3>4. \A u \in Tenants \ {t} : f \notin Spare(u)'
      BY <3>1, <3>3 DEF Spare
    <3> QED BY <2>4, <3>2, <3>4
  <2>6. \A u \in Tenants \ {t} : deletions'[u] + Cardinality(Spare(u)') <= exported'[u]
    <3> TAKE u \in Tenants \ {t}
    <3>1. exported'[u] = exported[u]
      BY <2>1
    <3>2. IsFiniteSet(Spare(u)) /\ IsFiniteSet(Spare(u)')
      BY <2>5, FS_Subset DEF Spare, PlatformAssumption
    <3>3. Cardinality(Spare(u)') <= Cardinality(Spare(u)) /\ Cardinality(Spare(u)) \in Nat /\ Cardinality(Spare(u)') \in Nat
      BY <2>5, <3>2, FS_Subset, FS_CardinalityType
    <3>4. deletions[u] + Cardinality(Spare(u)) <= exported[u] /\ deletions[u] \in Nat /\ exported[u] \in Nat
      BY DEF Spent
    <3> QED BY <2>2, <3>1, <3>3, <3>4
  <2>7. deletions'[t] + Cardinality(Spare(t)') <= exported'[t]
    <3> DEFINE More == Spare(t) \cup {Fresh(exports)}
    <3>1. exported'[t] = exported[t] + 1
      BY <2>1, <2>2
    <3>2. IsFiniteSet(Spare(t)) /\ IsFiniteSet(More)
      BY FS_Subset, FS_AddElement DEF Spare, PlatformAssumption
    <3>3. Cardinality(More) <= Cardinality(Spare(t)) + 1 /\ Cardinality(Spare(t)) \in Nat /\ Cardinality(More) \in Nat
      <4>1. IsFiniteSet(Spare(t)) /\ Cardinality(Spare(t)) \in Nat /\ Cardinality(More) \in Nat
        BY <3>2, FS_CardinalityType
      <4>2. Cardinality(More) = IF Fresh(exports) \in Spare(t) THEN Cardinality(Spare(t)) ELSE Cardinality(Spare(t)) + 1
        BY <4>1, FS_AddElement
      <4> QED BY <4>1, <4>2
    <3>4. Cardinality(Spare(t)') <= Cardinality(More) /\ Cardinality(Spare(t)') \in Nat
      <4>1. Spare(t)' \subseteq More
        BY <2>2, <2>4
      <4> QED BY <3>2, <4>1, FS_Subset, FS_CardinalityType
    <3>5. deletions[t] + Cardinality(Spare(t)) <= exported[t] /\ deletions[t] \in Nat /\ exported[t] \in Nat
      BY <2>2 DEF Spent
    <3> HIDE DEF More
    <3> QED BY <2>2, <3>1, <3>3, <3>4, <3>5
  <2> QED BY <2>6, <2>7 DEF Spent
<1>12. CASE StartDeletion(w)
  <2>1. /\ Starts(w) /\ Todo(w, "spend")' /\ job'[w].token \in Exports /\ job'[w] \in DeleteJob
        /\ exports[job'[w].token] = [tenant |-> job'[w].tenant, expired |-> FALSE]
        /\ deletions' = [deletions EXCEPT ![job'[w].tenant] = @ + 1]
    BY <1>12, DeletionStarts
  <2>2. PICK t, x : t = job'[w].tenant /\ x = job'[w].token OBVIOUS
  <2>3. t \in Tenants
    BY <2>1, <2>2 DEF DeleteJob
  <2>4. UNCHANGED <<exports, exported>>
    BY <1>12 DEF StartDeletion, rowVars
  <2>5. \A v \in Workers : ~Todo(v, "spend")
    BY <2>1, OnlyOne, IdleHasNothing DEF Starts
  <2>6. \A u \in Tenants : Spare(u)' \subseteq Spare(u)
    BY <2>4, <2>5 DEF Spare
  <2>7. x \in Spare(t) /\ x \notin Spare(t)'
    BY <2>1, <2>2, <2>5 DEF Spare
  <2>8. \A u \in Tenants : /\ IsFiniteSet(Spare(u)) /\ IsFiniteSet(Spare(u)')
                           /\ Cardinality(Spare(u)) \in Nat /\ Cardinality(Spare(u)') \in Nat
                           /\ Cardinality(Spare(u)') <= Cardinality(Spare(u))
                           /\ deletions[u] + Cardinality(Spare(u)) <= exported[u]
                           /\ deletions[u] \in Nat /\ exported[u] \in Nat
    <3> TAKE u \in Tenants
    <3>1. IsFiniteSet(Spare(u)) /\ IsFiniteSet(Spare(u)')
      BY <2>6, FS_Subset DEF Spare, PlatformAssumption
    <3>2. Cardinality(Spare(u)') <= Cardinality(Spare(u)) /\ Cardinality(Spare(u)) \in Nat /\ Cardinality(Spare(u)') \in Nat
      BY <2>6, <3>1, FS_Subset, FS_CardinalityType
    <3> QED BY <3>1, <3>2 DEF Spent
  <2>9. Cardinality(Spare(t)') < Cardinality(Spare(t))
    <3>1. Spare(t)' \subseteq Spare(t) /\ Spare(t)' # Spare(t) /\ IsFiniteSet(Spare(t))
          /\ Cardinality(Spare(t)) \in Nat /\ Cardinality(Spare(t)') \in Nat
      BY <2>3, <2>6, <2>7, <2>8
    <3>2. Cardinality(Spare(t)') <= Cardinality(Spare(t))
          /\ (Cardinality(Spare(t)') = Cardinality(Spare(t)) => Spare(t)' = Spare(t))
      BY <3>1, FS_Subset
    <3> QED BY <3>1, <3>2
  <2>10. \A u \in Tenants : deletions'[u] = IF u = t THEN deletions[u] + 1 ELSE deletions[u]
    BY <2>1, <2>2
  <2>11. \A u \in Tenants : deletions'[u] + Cardinality(Spare(u)') <= exported'[u]
    BY <2>3, <2>4, <2>8, <2>9, <2>10
  <2> QED BY <2>11 DEF Spent
<1>13. CASE SpendExport(w)
  <2>1. Popped(w, "spend") /\ job[w] \in DeleteJob /\ job[w].token \in Exports
    BY <1>13, Pops, PoppedFields, JobFields DEF Popped
  <2>2. exports' = [exports EXCEPT ![job[w].token] = Absent] /\ UNCHANGED <<exported, deletions>>
    BY <1>13 DEF SpendExport
  <2>3. \A v \in Workers \ {w} : ~Todo(v, "spend")
    BY <2>1, OnlyOne, IdleHasNothing DEF Popped
  <2>4. \A t \in Tenants : [tenant |-> t, expired |-> FALSE] # Absent
    BY DEF Absent
  <2>5. \A t \in Tenants : Spare(t)' \subseteq Spare(t)
    BY <2>2, <2>3, <2>4 DEF Spare
  <2>6. \A t \in Tenants : deletions'[t] + Cardinality(Spare(t)') <= exported'[t]
    BY <2>2, <2>5, SparesShrink
  <2> QED BY <2>6 DEF Spent
<1> QED BY <1>1, <1>2, <1>3, <1>4, <1>5, <1>6, <1>7, <1>8, <1>9, <1>10, <1>11, <1>12, <1>13
        DEF Handles, Paying, Locking, Deleting

----
(* Paying.  A step that writes no payment and no active subscription, and
   leaves the lists of the paying handlers as they are. *)
BillingSteps == {"subscription", "cardPayment", "verdict"}
SameJobs(v) ==
  \A s \in BillingSteps :
    /\ Left(v, s)' <=> Left(v, s)
    /\ Left(v, s) => /\ job'[v].tenant = job[v].tenant
                     /\ s = "subscription" => job'[v].image = job[v].image
                     /\ s = "cardPayment" => job'[v].intent = job[v].intent
                     /\ s = "verdict" => job'[v].payment = job[v].payment /\ job'[v].verdict = job[v].verdict
PaymentsStay ==
  /\ \A p \in Rows(payments) : p \in Rows(payments)' /\ payments'[p] = payments[p]
  /\ \A i \in Intents : intents[i].status = "succeeded" => intents'[i].status = "succeeded"
NewPayments ==
  \A p \in Rows(payments)' : p \in Rows(payments) \/ (Exists(subscription, payments'[p].tenant) /\ payments'[p].intent = "none")
NothingPriced ==
  /\ \A t \in Tenants : Exists(subscription, t) =>
       Exists(subscription, t)' \/ (PaymentsOf(t) = {} /\ \A v \in Workers : ~Left(v, "cardPayment"))
  /\ \A t \in Rows(subscription)' :
       (t \in Rows(subscription) /\ subscription'[t] = subscription[t]) \/ ~Priced(subscription'[t])

LEMMA PaidStays ==
  ASSUME PaymentsStay, NEW t, Paid(t)
  PROVE  Paid(t)'
BY DEF PaymentsStay, Paid, PaymentsOf

LEMMA BilledStays ==
  ASSUME PlatformTypeOK, PlatformTypeOK', JobsTyped, JobsTyped', Billed, given \subseteq given', PaymentsStay, NewPayments, NothingPriced,
         \A v \in Workers : SameJobs(v),
         Rows(payments)' = Rows(payments) \/ subscription' = subscription
  PROVE  Billed'
<1>1. \A t : Covered(t) => Covered(t)'
  <2> SUFFICES ASSUME NEW t, Covered(t) PROVE Covered(t)'
    OBVIOUS
  <2>1. CASE Paid(t)
    BY <2>1, PaidStays DEF Covered
  <2>2. ASSUME NEW v \in Workers, Owes(v, t) PROVE Owes(v, t)'
    BY <2>2 DEF Owes, SameJobs, BillingSteps
  <2> QED BY <2>1, <2>2 DEF Covered
<1>2. \A t \in Rows(subscription)' \ given' : Priced(subscription'[t]) => Covered(t)'
  BY <1>1 DEF Billed, NothingPriced
<1>3. ASSUME NEW v \in Workers, Left(v, "subscription")', job'[v].tenant \notin given', Priced(job'[v].image)
      PROVE  Covered(job[v].tenant)'
  <2>1. Left(v, "subscription") /\ job'[v].tenant = job[v].tenant /\ job'[v].image = job[v].image
    BY <1>3 DEF SameJobs, BillingSteps
  <2>2. Covered(job[v].tenant)
    BY <1>3, <2>1 DEF Billed
  <2>3. PICK t : t = job[v].tenant OBVIOUS
  <2>4. Covered(t)'
    BY <1>1, <2>2, <2>3
  <2> QED BY <2>1, <2>3, <2>4
<1>4. ASSUME NEW v \in Workers, Left(v, "cardPayment")'
      PROVE  Exists(subscription, job[v].tenant)' /\ intents'[job'[v].intent].status = "succeeded"
  <2>1. Left(v, "cardPayment") /\ job'[v].tenant = job[v].tenant /\ job'[v].intent = job[v].intent
    BY <1>4 DEF SameJobs, BillingSteps
  <2>2. job[v] \in CardJob /\ job[v].tenant \in Tenants /\ job[v].intent \in Intents
    BY <2>1, StepTells DEF CardJob
  <2>3. Exists(subscription, job[v].tenant) /\ intents[job[v].intent].status = "succeeded"
    BY <2>1 DEF Billed
  <2>4. PICK t \in Tenants : t = job[v].tenant
    BY <2>2
  <2>5. Exists(subscription, t)'
    BY <2>1, <2>3, <2>4 DEF NothingPriced
  <2>6. intents'[job[v].intent].status = "succeeded"
    BY <2>2, <2>3 DEF PaymentsStay
  <2> QED BY <2>1, <2>4, <2>5, <2>6 DEF Exists
<1>5. ASSUME NEW v \in Workers, Left(v, "verdict")'
      PROVE  (job[v].payment \in PaymentsOf(job[v].tenant))' /\ payments'[job'[v].payment].status = "PENDING_VERIFICATION"
  <2>1. Left(v, "verdict") /\ job'[v].tenant = job[v].tenant /\ job'[v].payment = job[v].payment
    BY <1>5 DEF SameJobs, BillingSteps
  <2>2. job[v].payment \in PaymentsOf(job[v].tenant) /\ payments[job[v].payment].status = "PENDING_VERIFICATION"
    BY <2>1 DEF Billed
  <2>3. PICK p, t : p = job[v].payment /\ t = job[v].tenant OBVIOUS
  <2>4. p \in PaymentsOf(t)' /\ payments'[p].status = "PENDING_VERIFICATION"
    BY <2>2, <2>3 DEF PaymentsOf, PaymentsStay
  <2> QED BY <2>1, <2>3, <2>4 DEF PaymentsOf
<1>6. ASSUME NEW p \in Rows(payments)'
      PROVE  /\ Exists(subscription, payments[p].tenant)'
             /\ payments'[p].intent # "none" => intents'[payments'[p].intent].status = "succeeded"
  <2>1. CASE p \in Rows(payments)
    <3>1. /\ payments'[p] = payments[p] /\ payments[p] \in Payment /\ p \in PaymentsOf(payments[p].tenant)
      BY <2>1 DEF PaymentsStay, PlatformTypeOK, Rows, Exists, PaymentsOf
    <3>2. PICK t \in Tenants : t = payments[p].tenant
      BY <3>1 DEF Payment
    <3>3. Exists(subscription, t) /\ (payments[p].intent # "none" => intents[payments[p].intent].status = "succeeded")
      BY <2>1, <3>2 DEF Billed
    <3>4. Exists(subscription, t)'
      BY <3>1, <3>2, <3>3 DEF NothingPriced
    <3>5. payments[p].intent # "none" => payments[p].intent \in Intents
      BY <3>1 DEF Payment
    <3>6. payments[p].intent # "none" => intents'[payments[p].intent].status = "succeeded"
      BY <3>3, <3>5 DEF PaymentsStay
    <3> QED BY <3>1, <3>2, <3>4, <3>6 DEF Exists
  <2>2. CASE p \notin Rows(payments)
    <3>1. subscription' = subscription
      BY <2>2
    <3>2. Exists(subscription, payments'[p].tenant) /\ payments'[p].intent = "none"
      BY <2>2 DEF NewPayments
    <3> QED BY <3>1, <3>2 DEF Exists
  <2> QED BY <2>1, <2>2
<1> QED BY <1>2, <1>3, <1>4, <1>5, <1>6 DEF Billed

(* A handler that starts. *)
LEMMA BilledStarts ==
  ASSUME PlatformTypeOK, PlatformTypeOK', JobsTyped, JobsTyped', Billed, NEW w \in Workers, Starts(w), Unmarred',
         given \subseteq given', PaymentsStay, NewPayments, subscription' = subscription,
         Left(w, "subscription")' /\ job'[w].tenant \notin given' /\ Priced(job'[w].image)
           => Left(w, "cardPayment")' \/ (Left(w, "verdict")' /\ job'[w].verdict = "VERIFIED"),
         Left(w, "cardPayment")' =>
           Exists(subscription, job'[w].tenant) /\ intents'[job'[w].intent].status = "succeeded",
         Left(w, "verdict")' => /\ job'[w].payment \in PaymentsOf(job'[w].tenant)
                                /\ payments[job'[w].payment].status = "PENDING_VERIFICATION"
  PROVE  Billed'
<1>1. \A v \in Workers : \A t : ~Owes(v, t)
  BY OnlyOne, IdleHasNothing DEF Starts, Owes
<1>2. ASSUME NEW t \in Rows(subscription)' \ given', Priced(subscription'[t]) PROVE Covered(t)'
  <2>1. Covered(t)
    BY <1>2 DEF Billed
  <2> QED BY <1>1, <2>1, PaidStays DEF Covered
<1>3. ASSUME NEW v \in Workers, Left(v, "subscription")', job'[v].tenant \notin given', Priced(job'[v].image)
      PROVE  Covered(job[v].tenant)'
  <2>1. v = w
    BY <1>3, OnlyOne DEF Starts
  <2>2. Owes(w, job[w].tenant)'
    BY <1>3, <2>1 DEF Owes
  <2> QED BY <2>1, <2>2 DEF Covered
<1>4. ASSUME NEW v \in Workers, Left(v, "cardPayment")'
      PROVE  Exists(subscription, job[v].tenant)' /\ intents'[job'[v].intent].status = "succeeded"
  <2>1. v = w
    BY <1>4, OnlyOne DEF Starts
  <2> QED BY <1>4, <2>1 DEF Exists
<1>5. ASSUME NEW v \in Workers, Left(v, "verdict")'
      PROVE  (job[v].payment \in PaymentsOf(job[v].tenant))' /\ payments'[job'[v].payment].status = "PENDING_VERIFICATION"
  <2>1. v = w
    BY <1>5, OnlyOne DEF Starts
  <2>2. job'[w].payment \in PaymentsOf(job'[w].tenant) /\ payments[job'[w].payment].status = "PENDING_VERIFICATION"
    BY <1>5, <2>1
  <2>3. PICK p, t : p = job'[w].payment /\ t = job'[w].tenant OBVIOUS
  <2>4. p \in PaymentsOf(t)' /\ payments'[p].status = "PENDING_VERIFICATION"
    BY <2>2, <2>3 DEF PaymentsOf, PaymentsStay
  <2> QED BY <2>1, <2>3, <2>4 DEF PaymentsOf
<1>6. ASSUME NEW p \in Rows(payments)'
      PROVE  /\ Exists(subscription, payments[p].tenant)'
             /\ payments'[p].intent # "none" => intents'[payments'[p].intent].status = "succeeded"
  <2>1. CASE p \in Rows(payments)
    <3>1. payments'[p] = payments[p] /\ payments[p] \in Payment
      BY <2>1 DEF PaymentsStay, PlatformTypeOK, Rows, Exists
    <3>2. Exists(subscription, payments[p].tenant) /\ (payments[p].intent # "none" => intents[payments[p].intent].status = "succeeded")
      BY <2>1 DEF Billed
    <3>3. payments[p].intent # "none" => payments[p].intent \in Intents
      BY <3>1 DEF Payment
    <3>4. payments[p].intent # "none" => intents'[payments[p].intent].status = "succeeded"
      BY <3>2, <3>3 DEF PaymentsStay
    <3> QED BY <3>1, <3>2, <3>4 DEF Exists
  <2>2. CASE p \notin Rows(payments)
    <3>1. Exists(subscription, payments'[p].tenant) /\ payments'[p].intent = "none"
      BY <2>2 DEF NewPayments
    <3> QED BY <3>1 DEF Exists
  <2> QED BY <2>1, <2>2
<1> QED BY <1>2, <1>3, <1>4, <1>5, <1>6 DEF Billed

(* Which handlers leave the lists of the paying ones as they are. *)
LEMMA SameWhenPopped ==
  ASSUME NEW w \in Workers, NEW s, Popped(w, s), s \notin BillingSteps, Unmarred', JobsTyped
  PROVE  \A v \in Workers : SameJobs(v)
<1>1. Acts(w) /\ KeepsAll(job[w], job'[w])
  BY DEF Popped
<1>2. \A v \in Workers \ {w} : SameJobs(v)
  BY <1>1, OnlyOne DEF SameJobs
<1>3. \A r \in BillingSteps : Left(w, r)' <=> Left(w, r)
  BY DEF Popped
<1>4. /\ Left(w, "subscription") => job[w] \in SavingJob
      /\ Left(w, "cardPayment") => job[w] \in CardJob
      /\ Left(w, "verdict") => job[w] \in JudgeJob
  BY StepTells
<1>5. SameJobs(w)
  BY <1>1, <1>3, <1>4 DEF SameJobs, BillingSteps, KeepsAll
<1> QED BY <1>2, <1>5

LEMMA SameWhenIdle ==
  ASSUME \A v \in Workers : \A s : ~Left(v, s) /\ ~Left(v, s)'
  PROVE  \A v \in Workers : SameJobs(v)
BY DEF SameJobs

LEMMA SameWithout ==
  ASSUME NEW w \in Workers, Acts(w), Unmarred', \A s \in BillingSteps : ~Left(w, s) /\ ~Left(w, s)'
  PROVE  \A v \in Workers : SameJobs(v)
BY OnlyOne DEF SameJobs

LEMMA Pays ==
  ASSUME NEW j \in PlatformJob
  PROVE  /\ (\E s \in BillingSteps : \E i \in 1 .. Len(j.todo) : j.todo[i] = s) => j \in SavingJob
         /\ (\E i \in 1 .. Len(j.todo) : j.todo[i] = "cardPayment") => j \in CardJob
         /\ (\E i \in 1 .. Len(j.todo) : j.todo[i] = "verdict") => j \in JudgeJob
         /\ j \in RegisterJob \cup DeleteJob \cup MorningJob => j \notin SavingJob
         /\ j \in SaveJob \cup CancelJob \cup SuspendJob => j \notin CardJob /\ j \notin JudgeJob
         /\ j \in JudgeJob => j \notin CardJob
         /\ j \in CardJob => j \notin JudgeJob
<1>1. (\E s \in BillingSteps : \E i \in 1 .. Len(j.todo) : j.todo[i] = s) => j \in SavingJob
  BY StepOf DEF BillingSteps, SavingJob
<1>2. /\ (\E i \in 1 .. Len(j.todo) : j.todo[i] = "cardPayment") => j \in CardJob
      /\ (\E i \in 1 .. Len(j.todo) : j.todo[i] = "verdict") => j \in JudgeJob
  BY StepOf
<1>3. j \in RegisterJob \cup DeleteJob \cup MorningJob => j \notin SavingJob
  <2> SUFFICES ASSUME j \in RegisterJob \cup DeleteJob \cup MorningJob, j \in SavingJob PROVE FALSE
    OBVIOUS
  <2>1. j \in CardJob \/ j \in SaveJob \/ j \in JudgeJob \/ j \in CancelJob \/ j \in SuspendJob
    BY DEF SavingJob
  <2>2. j.op \in {"confirm", "webhook", "submit", "markAsPaid", "updateSubscription", "judge", "cancelSubscription",
                  "suspendSubscription", "reactivateSubscription", "unsuspendSubscription", "suspendTenant", "unsuspendTenant"}
    BY <2>1, Kinds
  <2>3. j.op \in {"register", "delete", "expire", "overdue"}
    BY Kinds
  <2> QED BY <2>2, <2>3
<1>4. /\ j \in SaveJob \cup CancelJob \cup SuspendJob => j \notin CardJob /\ j \notin JudgeJob
      /\ j \in JudgeJob => j \notin CardJob
      /\ j \in CardJob => j \notin JudgeJob
  BY Kinds
<1> QED BY <1>1, <1>2, <1>3, <1>4

LEMMA NotPaying ==
  ASSUME NEW w, ~Free(w) => job[w] \in PlatformJob /\ job[w] \in RegisterJob \cup DeleteJob \cup MorningJob
  PROVE  \A s \in BillingSteps : ~Left(w, s)
BY Pays DEF Left

LEMMA NotPayingThen ==
  ASSUME NEW w, ~Free(w)' => job'[w] \in PlatformJob /\ job'[w] \in RegisterJob \cup DeleteJob \cup MorningJob
  PROVE  \A s \in BillingSteps : ~Left(w, s)'
BY Pays DEF Left

LEMMA NothingNew ==
  ASSUME UNCHANGED <<payments, intents>>
  PROVE  PaymentsStay /\ NewPayments /\ Rows(payments)' = Rows(payments)
BY DEF PaymentsStay, NewPayments, Rows, Exists

LEMMA NothingSaved ==
  ASSUME UNCHANGED subscription
  PROVE  NothingPriced
BY DEF NothingPriced, Rows, Exists

(* The three commits of a handler that pays. *)
LEMMA BilledSaves ==
  ASSUME JobsShape, PlatformTypeOK, PlatformTypeOK', JobsTyped, JobsTyped', Billed,
         NEW w \in Workers, SaveSubscription(w), Unmarred'
  PROVE  Billed'
<1>1. /\ Popped(w, "subscription") /\ job[w] \in SavingJob /\ job[w].tenant \in Tenants
      /\ job[w].image \in Subscription
  BY Pops, PoppedFields
<1>2. /\ Acts(w) /\ job[w] \in PlatformJob /\ KeepsAll(job[w], job'[w]) /\ Left(w, "subscription")
      /\ \A r : Left(w, r)' => Left(w, r)
      /\ \A r : Left(w, r) /\ r # "subscription" => Left(w, r)'
  BY <1>1 DEF Popped
<1>3. job'[w].tenant = job[w].tenant /\ job'[w].image = job[w].image
  BY <1>1, <1>2 DEF KeepsAll
<1>4. UNCHANGED <<payments, intents, given>>
  BY DEF SaveSubscription, ghostVars
<1>5. \A t \in Tenants : subscription'[t] = IF t = job[w].tenant THEN job[w].image ELSE subscription[t]
  BY <1>1 DEF SaveSubscription, PlatformTypeOK
<1>6. DOMAIN subscription = Tenants /\ DOMAIN subscription' = Tenants
  BY DEF PlatformTypeOK
<1>7. job[w].image # Absent
  BY <1>1, RowIsThere
<1>8. \A t \in Tenants : Exists(subscription, t) => Exists(subscription, t)'
  BY <1>5, <1>7 DEF Exists
<1>9. \A v \in Workers \ {w} : job'[v] = job[v] /\ \A s : ~Left(v, s) /\ ~Left(v, s)'
  BY <1>2, OnlyOne
<1>10. ASSUME NEW t, Covered(t) PROVE Covered(t)'
  <2>1. CASE Paid(t)
    BY <1>4, <2>1 DEF Covered, Paid, PaymentsOf, Rows, Exists
  <2>2. ASSUME NEW v \in Workers, Owes(v, t) PROVE Owes(v, t)'
    <3>1. v = w
      BY <1>9, <2>2 DEF Owes
    <3>2. Left(w, "verdict") => job[w] \in JudgeJob
      BY StepTells
    <3>3. Left(w, "verdict") => job'[w].verdict = job[w].verdict
      BY <1>2, <3>2 DEF KeepsAll
    <3>4. (Left(w, "cardPayment") => Left(w, "cardPayment")') /\ (Left(w, "verdict") => Left(w, "verdict")')
      BY <1>2
    <3> QED BY <1>3, <2>2, <3>1, <3>3, <3>4 DEF Owes
  <2> QED BY <1>10, <2>1, <2>2 DEF Covered
<1>11. ASSUME NEW t \in Rows(subscription)' \ given', Priced(subscription'[t]) PROVE Covered(t)'
  <2>1. Covered(t)
    <3>1. t \in Tenants /\ t \notin given
      BY <1>4, <1>6 DEF Rows
    <3>2. CASE t = job[w].tenant
      BY <1>2, <1>5, <1>11, <3>1, <3>2 DEF Billed
    <3>3. CASE t # job[w].tenant
      BY <1>5, <1>6, <1>11, <3>1, <3>3 DEF Billed, Rows, Exists
    <3> QED BY <3>2, <3>3
  <2> QED BY <1>10, <2>1
<1>12. ASSUME NEW v \in Workers, Left(v, "subscription")', job'[v].tenant \notin given', Priced(job'[v].image)
       PROVE  Covered(job[v].tenant)'
  <2>1. v = w
    BY <1>9, <1>12
  <2>2. Covered(job[w].tenant)
    BY <1>2, <1>3, <1>4, <1>12, <2>1 DEF Billed
  <2>3. PICK t : t = job[w].tenant OBVIOUS
  <2>4. Covered(t)'
    BY <1>10, <2>2, <2>3
  <2> QED BY <1>3, <2>1, <2>3, <2>4
<1>13. ASSUME NEW v \in Workers, Left(v, "cardPayment")'
       PROVE  Exists(subscription, job[v].tenant)' /\ intents'[job'[v].intent].status = "succeeded"
  <2>1. v = w /\ Left(w, "cardPayment")
    BY <1>2, <1>9, <1>13
  <2>2. job[w] \in CardJob /\ job'[w].intent = job[w].intent
    BY <1>2, <2>1, StepTells DEF KeepsAll
  <2>3. intents[job[w].intent].status = "succeeded"
    BY <2>1 DEF Billed
  <2>4. PICK t \in Tenants : t = job[w].tenant
    BY <1>1
  <2>5. Exists(subscription, t)'
    BY <1>5, <1>7, <2>4 DEF Exists
  <2> QED BY <1>3, <1>4, <2>1, <2>2, <2>3, <2>4, <2>5 DEF Exists
<1>14. ASSUME NEW v \in Workers, Left(v, "verdict")'
       PROVE  (job[v].payment \in PaymentsOf(job[v].tenant))' /\ payments'[job'[v].payment].status = "PENDING_VERIFICATION"
  <2>1. v = w /\ Left(w, "verdict")
    BY <1>2, <1>9, <1>14
  <2>2. job[w] \in JudgeJob /\ job'[w].payment = job[w].payment
    BY <1>2, <2>1, StepTells DEF KeepsAll
  <2>3. job[w].payment \in PaymentsOf(job[w].tenant) /\ payments[job[w].payment].status = "PENDING_VERIFICATION"
    BY <2>1 DEF Billed
  <2>4. job'[w].payment \in PaymentsOf(job'[w].tenant)
    BY <1>3, <2>2, <2>3
  <2> QED BY <1>4, <2>1, <2>2, <2>3, <2>4 DEF PaymentsOf, Rows, Exists
<1>15. ASSUME NEW p \in Rows(payments)'
       PROVE  /\ Exists(subscription, payments[p].tenant)'
              /\ payments'[p].intent # "none" => intents'[payments'[p].intent].status = "succeeded"
  <2>1. p \in Rows(payments)
    BY <1>4 DEF Rows, Exists
  <2>2. payments[p] \in Payment
    BY <2>1 DEF Rows, Exists, PlatformTypeOK
  <2>3. PICK t \in Tenants : t = payments[p].tenant
    BY <2>2 DEF Payment
  <2>4. Exists(subscription, t)'
    BY <1>8, <2>1, <2>3 DEF Billed
  <2> QED BY <1>4, <2>1, <2>3, <2>4 DEF Billed, Exists
<1> QED BY <1>11, <1>12, <1>13, <1>14, <1>15 DEF Billed

LEMMA BilledCard ==
  ASSUME JobsShape, PlatformTypeOK, PlatformTypeOK', JobsTyped, JobsTyped', Billed,
         NEW w \in Workers, CardPayment(w), Unmarred'
  PROVE  Billed'
<1>1. Popped(w, "cardPayment") /\ job[w].tenant \in Tenants
  BY Pops, PoppedFields
<1>2. /\ Acts(w) /\ job[w] \in PlatformJob /\ KeepsAll(job[w], job'[w]) /\ Left(w, "cardPayment")
      /\ \A r : Left(w, r)' => Left(w, r)
  BY <1>1 DEF Popped
<1>3. job[w] \in CardJob /\ job[w] \in SavingJob
  BY <1>2, StepTells DEF SavingJob
<1>4. job'[w].tenant = job[w].tenant /\ job'[w].image = job[w].image /\ job'[w].intent = job[w].intent
  BY <1>2, <1>3 DEF KeepsAll
<1>5. UNCHANGED <<subscription, intents, given>>
  BY DEF CardPayment, ghostVars
<1>6. PICK f \in Payments, t \in Tenants, i \in Intents :
        /\ f = Fresh(payments) /\ t = job[w].tenant /\ i = job[w].intent /\ ~Exists(payments, f)
  <2>1. Fresh(payments) \in Payments /\ ~Exists(payments, Fresh(payments))
    BY DEF CardPayment, CanInsert, Fresh, PlatformTypeOK
  <2>2. job[w].intent \in Intents
    BY <1>2, <1>3, JobFields
  <2> QED BY <1>1, <2>1, <2>2
<1>7. \A p \in Payments : payments'[p] = IF p = f THEN [tenant |-> t, intent |-> i, status |-> "VERIFIED"] ELSE payments[p]
  BY <1>6 DEF CardPayment, PlatformTypeOK
<1>8. DOMAIN payments = Payments /\ DOMAIN payments' = Payments
  BY DEF PlatformTypeOK
<1>9. Exists(subscription, t) /\ intents[i].status = "succeeded"
  BY <1>2, <1>6 DEF Billed
<1>10. PaymentsStay
  BY <1>5, <1>6, <1>7, <1>8 DEF PaymentsStay, Rows, Exists
<1>11. \A v \in Workers \ {w} : job'[v] = job[v] /\ \A s : ~Left(v, s) /\ ~Left(v, s)'
  BY <1>2, OnlyOne
<1>12. Paid(t)'
  <2>1. payments'[f] = [tenant |-> t, intent |-> i, status |-> "VERIFIED"]
    BY <1>7
  <2>2. payments'[f] # Absent /\ payments'[f].tenant = t /\ payments'[f].status = "VERIFIED"
    BY <2>1 DEF Absent
  <2>3. f \in PaymentsOf(t)'
    BY <1>8, <2>2 DEF PaymentsOf, Rows, Exists
  <2> QED BY <2>2, <2>3 DEF Paid
<1>13. ~Left(w, "verdict") /\ ~Left(w, "verdict")'
  BY <1>2, <1>3, Pays DEF Left
<1>14. ASSUME NEW u, Covered(u) PROVE Covered(u)'
  <2>1. CASE Paid(u)
    BY <1>10, <2>1, PaidStays DEF Covered
  <2>2. ASSUME NEW v \in Workers, Owes(v, u) PROVE u = t
    BY <1>6, <1>11, <2>2 DEF Owes
  <2> QED BY <1>12, <1>14, <2>1, <2>2 DEF Covered
<1>15. ASSUME NEW u \in Rows(subscription)' \ given', Priced(subscription'[u]) PROVE Covered(u)'
  <2>1. Covered(u)
    BY <1>5, <1>15 DEF Billed, Rows, Exists
  <2> QED BY <1>14, <2>1
<1>16. ASSUME NEW v \in Workers, Left(v, "subscription")' PROVE Covered(job[v].tenant)'
  <2>1. v = w
    BY <1>11, <1>16
  <2>2. Paid(job[w].tenant)'
    BY <1>4, <1>6, <1>12
  <2> QED BY <2>1, <2>2 DEF Covered
<1>17. ASSUME NEW v \in Workers, Left(v, "cardPayment")'
       PROVE  Exists(subscription, job[v].tenant)' /\ intents'[job'[v].intent].status = "succeeded"
  <2>1. v = w
    BY <1>11, <1>17
  <2> QED BY <1>4, <1>5, <1>6, <1>9, <2>1 DEF Exists
<1>18. ASSUME NEW v \in Workers, Left(v, "verdict")' PROVE FALSE
  BY <1>11, <1>13, <1>18
<1>19. ASSUME NEW p \in Rows(payments)'
       PROVE  /\ Exists(subscription, payments[p].tenant)'
              /\ payments'[p].intent # "none" => intents'[payments'[p].intent].status = "succeeded"
  <2>0. p \in Payments
    BY <1>8 DEF Rows
  <2>1. CASE p = f
    <3>1. payments'[p] = [tenant |-> t, intent |-> i, status |-> "VERIFIED"]
      BY <1>7, <2>1
    <3>2. payments'[p].tenant = t /\ payments'[p].intent = i
      BY <3>1
    <3> QED BY <1>5, <1>9, <3>2 DEF Exists
  <2>2. CASE p # f
    <3>1. p \in Rows(payments) /\ payments'[p] = payments[p]
      BY <1>7, <1>8, <2>0, <2>2 DEF Rows, Exists
    <3>2. Exists(subscription, payments[p].tenant) /\ (payments[p].intent # "none" => intents[payments[p].intent].status = "succeeded")
      BY <3>1 DEF Billed
    <3> QED BY <1>5, <3>1, <3>2 DEF Exists
  <2> QED BY <2>1, <2>2
<1> QED BY <1>15, <1>16, <1>17, <1>18, <1>19 DEF Billed

LEMMA BilledVerdict ==
  ASSUME JobsShape, PlatformTypeOK, PlatformTypeOK', JobsTyped, JobsTyped', Billed,
         NEW w \in Workers, SaveVerdict(w), Unmarred'
  PROVE  Billed'
<1>1. Popped(w, "verdict") /\ job[w].tenant \in Tenants
  BY Pops, PoppedFields
<1>2. /\ Acts(w) /\ job[w] \in PlatformJob /\ KeepsAll(job[w], job'[w]) /\ Left(w, "verdict")
      /\ job'[w].todo = <<"subscription">>
      /\ \A r : Left(w, r)' => Left(w, r)
  BY <1>1 DEF Popped
<1>3. job[w] \in JudgeJob /\ job[w] \in SavingJob
  BY <1>2, StepTells DEF SavingJob
<1>4. /\ job'[w].tenant = job[w].tenant /\ job'[w].image = job[w].image
      /\ job'[w].payment = job[w].payment /\ job'[w].verdict = job[w].verdict
  BY <1>2, <1>3 DEF KeepsAll
<1>5. UNCHANGED <<subscription, intents, given>>
  BY DEF SaveVerdict, ghostVars
<1>6. PICK q \in Payments, t \in Tenants, verdict \in {"VERIFIED", "REJECTED"} :
        /\ q = job[w].payment /\ t = job[w].tenant /\ verdict = job[w].verdict
        /\ q \in PaymentsOf(t) /\ payments[q].status = "PENDING_VERIFICATION"
  <2>1. job[w].payment \in Payments /\ job[w].verdict \in {"VERIFIED", "REJECTED"}
    BY <1>2, <1>3, JobFields
  <2> QED BY <1>1, <1>2, <2>1 DEF Billed
<1>7. payments[q] \in Payment /\ payments[q].tenant = t
  BY <1>6 DEF PaymentsOf, Rows, Exists, PlatformTypeOK
<1>8. \A p \in Payments : payments'[p] = IF p = q THEN [payments[q] EXCEPT !.status = verdict] ELSE payments[p]
  BY <1>6 DEF SaveVerdict, PlatformTypeOK
<1>9. DOMAIN payments = Payments /\ DOMAIN payments' = Payments
  BY DEF PlatformTypeOK
<1>10. /\ payments'[q].tenant = t /\ payments'[q].intent = payments[q].intent /\ payments'[q].status = verdict
       /\ payments'[q] # Absent
  <2>1. payments'[q] = [payments[q] EXCEPT !.status = verdict]
    BY <1>8
  <2>2. payments'[q].tenant = t /\ payments'[q].intent = payments[q].intent /\ payments'[q].status = verdict
    BY <1>7, <2>1 DEF Payment
  <2>3. verdict \in {"VERIFIED", "REJECTED"}
    BY <1>2, <1>3, <1>6, JobFields
  <2> QED BY <2>2, <2>3 DEF Absent
<1>11. \A v \in Workers \ {w} : job'[v] = job[v] /\ \A s : ~Left(v, s) /\ ~Left(v, s)'
  BY <1>2, OnlyOne
<1>12. ~Left(w, "cardPayment") /\ ~Left(w, "cardPayment")' /\ ~Left(w, "verdict")'
  <2>1. ~Left(w, "cardPayment") /\ ~Left(w, "cardPayment")'
    BY <1>2, <1>3, Pays DEF Left
  <2>2. ~Left(w, "verdict")'
    BY <1>2 DEF Left
  <2> QED BY <2>1, <2>2
<1>13. ASSUME NEW u, Covered(u) PROVE Covered(u)'
  <2>1. CASE Paid(u)
    <3>1. PICK p \in PaymentsOf(u) : payments[p].status = "VERIFIED"
      BY <2>1 DEF Paid
    <3>2. p # q /\ p \in Payments
      BY <1>6, <1>9, <3>1 DEF PaymentsOf, Rows
    <3>3. p \in PaymentsOf(u)' /\ payments'[p].status = "VERIFIED"
      BY <1>8, <1>9, <3>1, <3>2 DEF PaymentsOf, Rows, Exists
    <3> QED BY <3>3 DEF Covered, Paid
  <2>2. ASSUME NEW v \in Workers, Owes(v, u) PROVE Covered(u)'
    <3>1. v = w /\ u = t /\ verdict = "VERIFIED"
      BY <1>6, <1>11, <1>12, <2>2 DEF Owes
    <3>2. q \in PaymentsOf(t)'
      BY <1>9, <1>10 DEF PaymentsOf, Rows, Exists
    <3> QED BY <1>10, <3>1, <3>2 DEF Covered, Paid
  <2> QED BY <1>13, <2>1, <2>2 DEF Covered
<1>14. ASSUME NEW u \in Rows(subscription)' \ given', Priced(subscription'[u]) PROVE Covered(u)'
  <2>1. Covered(u)
    BY <1>5, <1>14 DEF Billed, Rows, Exists
  <2> QED BY <1>13, <2>1
<1>15. ASSUME NEW v \in Workers, Left(v, "subscription")', job'[v].tenant \notin given', Priced(job'[v].image)
       PROVE  Covered(job[v].tenant)'
  <2>1. v = w /\ Left(w, "subscription")
    BY <1>2, <1>11, <1>15
  <2>2. Covered(job[w].tenant)
    BY <1>4, <1>5, <1>15, <2>1 DEF Billed
  <2>3. Covered(t)'
    BY <1>6, <1>13, <2>2
  <2> QED BY <1>4, <1>6, <2>1, <2>3
<1>16. ASSUME NEW p \in Rows(payments)'
       PROVE  /\ Exists(subscription, payments[p].tenant)'
              /\ payments'[p].intent # "none" => intents'[payments'[p].intent].status = "succeeded"
  <2>0. p \in Payments
    BY <1>9 DEF Rows
  <2>1. p \in Rows(payments) /\ payments'[p].tenant = payments[p].tenant /\ payments'[p].intent = payments[p].intent
    <3>1. CASE p = q
      BY <1>6, <1>7, <1>10, <3>1 DEF PaymentsOf
    <3>2. CASE p # q
      BY <1>8, <1>9, <1>16, <2>0, <3>2 DEF Rows, Exists
    <3> QED BY <3>1, <3>2
  <2>2. Exists(subscription, payments[p].tenant) /\ (payments[p].intent # "none" => intents[payments[p].intent].status = "succeeded")
    BY <2>1 DEF Billed
  <2> QED BY <1>5, <2>1, <2>2 DEF Exists
<1> QED BY <1>11, <1>12, <1>14, <1>15, <1>16 DEF Billed

LEMMA StartsNotPaying ==
  ASSUME PlatformTypeOK, PlatformTypeOK', JobsTyped, JobsTyped', Billed, NEW w \in Workers, Starts(w), Unmarred',
         UNCHANGED <<payments, intents, subscription, given>>,
         job'[w] \in RegisterJob \cup DeleteJob \cup MorningJob
  PROVE  Billed'
<1>1. job'[w] \in PlatformJob
  BY DEF Starts
<1>2. \A s \in BillingSteps : ~Left(w, s)'
  BY <1>1, NotPayingThen
<1>3. ~Left(w, "subscription")' /\ ~Left(w, "cardPayment")' /\ ~Left(w, "verdict")'
  BY <1>2 DEF BillingSteps
<1>4. PaymentsStay /\ NewPayments
  BY NothingNew
<1> QED BY <1>3, <1>4, BilledStarts

LEMMA StartsSaving ==
  ASSUME PlatformTypeOK, PlatformTypeOK', JobsTyped, JobsTyped', Billed, NEW w \in Workers, Starts(w), Unmarred',
         given \subseteq given', PaymentsStay, NewPayments, subscription' = subscription,
         job'[w] \in SaveJob \cup CancelJob \cup SuspendJob,
         job'[w].tenant \in given' \/ ~Priced(job'[w].image)
  PROVE  Billed'
<1>1. job'[w] \in PlatformJob
  BY DEF Starts
<1>2. ~Left(w, "cardPayment")' /\ ~Left(w, "verdict")'
  <2>1. job'[w] \notin CardJob /\ job'[w] \notin JudgeJob
    BY <1>1, Pays
  <2> QED BY <1>1, <2>1, Pays DEF Left
<1> QED BY <1>2, BilledStarts

LEMMA NotPricedNow ==
  ASSUME NEW row, row.status # "ACTIVE"
  PROVE  ~Priced(row)
BY DEF Priced

LEMMA BilledStep ==
  ASSUME JobsShape, PlatformTypeOK, PlatformTypeOK', JobsTyped, JobsTyped', PlatformAssumption, Billed,
         NEW w \in Workers, Handles(w), Unmarred'
  PROVE  Billed'
<1> USE DEF Fallen, PlatformTypeOK, ghostVars
<1>1. CASE RegisterTenant(w)
  <2>1. Starts(w) /\ job'[w] \in RegisterJob
    BY <1>1, RegisterStarts
  <2> QED BY <1>1, <2>1, StartsNotPaying DEF RegisterTenant
<1>2. CASE StartDeletion(w)
  <2>1. Starts(w) /\ job'[w] \in DeleteJob
    BY <1>2, DeletionStarts
  <2> QED BY <1>2, <2>1, StartsNotPaying DEF StartDeletion, rowVars
<1>3. CASE StartMorning(w)
  <2>1. Starts(w) /\ job'[w] \in MorningJob
    BY <1>3, MorningStarts
  <2> QED BY <1>3, <2>1, StartsNotPaying DEF StartMorning, rowVars
<1>4. CASE FirstSubscription(w)
  <2>1. Popped(w, "firstSubscription") /\ job[w].tenant \in Tenants
    BY <1>4, Pops, PoppedFields
  <2>2. \A v \in Workers : SameJobs(v)
    BY <2>1, SameWhenPopped DEF BillingSteps
  <2>3. UNCHANGED <<payments, intents, given>>
    BY <1>4 DEF FirstSubscription
  <2>4. PICK row : row.status = "PENDING_PAYMENT" /\ row # Absent
                   /\ (subscription' = subscription \/ subscription' = [subscription EXCEPT ![job[w].tenant] = row])
    <3> DEFINE row == [status |-> "PENDING_PAYMENT", plan |-> job[w].plan, ends |-> now + Length(job[w].plan)]
    <3>1. row.status = "PENDING_PAYMENT" /\ row # Absent
      BY DEF Absent
    <3>2. subscription' = subscription \/ subscription' = [subscription EXCEPT ![job[w].tenant] = row]
      BY <1>4 DEF FirstSubscription
    <3> HIDE DEF row
    <3> QED BY <3>1, <3>2
  <2>5. NothingPriced
    <3>1. ~Priced(row)
      BY <2>4, NotPricedNow
    <3>2. CASE subscription' = subscription
      BY <3>2, NothingSaved
    <3>3. CASE subscription' = [subscription EXCEPT ![job[w].tenant] = row]
      <4>1. \A t \in Tenants : subscription'[t] = IF t = job[w].tenant THEN row ELSE subscription[t]
        BY <2>1, <3>3
      <4>2. DOMAIN subscription = Tenants /\ DOMAIN subscription' = Tenants OBVIOUS
      <4> QED BY <2>4, <3>1, <4>1, <4>2 DEF NothingPriced, Rows, Exists
    <3> QED BY <2>4, <3>2, <3>3
  <2> QED BY <2>2, <2>3, <2>5, NothingNew, BilledStays
<1>5. CASE AskApproval(w) \/ SetTenantStatus(w) \/ SetBusiness(w) \/ SetMembers(w) \/ SetUsers(w)
  <2>1. \A v \in Workers : SameJobs(v)
    <3>1. \E s : Popped(w, s) /\ s \notin BillingSteps
      BY <1>5, Pops DEF BillingSteps
    <3> QED BY <3>1, SameWhenPopped
  <2>2. UNCHANGED <<payments, intents, given, subscription>>
    BY <1>5 DEF AskApproval, SetTenantStatus, SetBusiness, SetMembers, SetUsers
  <2> QED BY <2>1, <2>2, NothingNew, NothingSaved, BilledStays
<1>6. CASE SpendExport(w) \/ EndMorning(w)
  <2>1. \A v \in Workers : SameJobs(v)
    <3>1. \E s : Popped(w, s) /\ s \notin BillingSteps
      BY <1>6, Pops DEF BillingSteps
    <3> QED BY <3>1, SameWhenPopped
  <2>2. UNCHANGED <<payments, intents, given, subscription>>
    BY <1>6 DEF SpendExport, EndMorning, rowVars, platformVars
  <2> QED BY <2>1, <2>2, NothingNew, NothingSaved, BilledStays
<1>7. CASE DeleteMembers(w) \/ DeleteUsers(w) \/ DeleteTenantBusiness(w) \/ DeleteRow(w)
  <2>1. PICK s \in DeleteSteps :
           /\ Delete(w, s)
           /\ ((subscription' = subscription)
               \/ (s = "deleteSubscription" /\ subscription' = [subscription EXCEPT ![job[w].tenant] = Absent]))
    BY <1>7 DEF DeleteMembers, DeleteUsers, DeleteTenantBusiness, DeleteRow, DeleteSteps
  <2>2. Popped(w, s) /\ ~Refused(w, s) /\ s \notin BillingSteps /\ job[w] \in DeleteJob /\ job[w].tenant \in Tenants
    BY <2>1, Pops, PoppedFields DEF DeleteSteps, BillingSteps
  <2>3. \A v \in Workers : SameJobs(v)
    BY <2>2, SameWhenPopped
  <2>4. UNCHANGED <<payments, intents, given>>
    BY <1>7 DEF DeleteMembers, DeleteUsers, DeleteTenantBusiness, DeleteRow
  <2>5. NothingPriced
    <3>1. CASE subscription' = subscription
      BY <3>1, NothingSaved
    <3>2. CASE s = "deleteSubscription" /\ subscription' = [subscription EXCEPT ![job[w].tenant] = Absent]
      <4>1. PaymentsOf(job[w].tenant) = {}
        BY <2>2, <3>2 DEF Refused
      <4>2. \A v \in Workers : ~Left(v, "cardPayment")
        <5>1. ~Left(w, "cardPayment")
          BY <2>2, NotPaying DEF Popped, BillingSteps
        <5> QED BY <2>2, <5>1, OnlyOne DEF Popped
      <4>3. \A t \in Tenants : subscription'[t] = IF t = job[w].tenant THEN Absent ELSE subscription[t]
        BY <2>2, <3>2
      <4>4. DOMAIN subscription = Tenants /\ DOMAIN subscription' = Tenants OBVIOUS
      <4> QED BY <4>1, <4>2, <4>3, <4>4 DEF NothingPriced, Rows, Exists
    <3> QED BY <2>1, <3>1, <3>2
  <2> QED BY <2>3, <2>4, <2>5, NothingNew, BilledStays
<1>8. CASE \/ Join(w) \/ Review(w) \/ CreateIntent(w) \/ Export(w)
           \/ SwitchPlan(w) \/ OpenTicket(w) \/ UpdateTicket(w) \/ ReplyToTicket(w)
  <2>1. \E op : AtOnce(w, op)
    BY <1>8 DEF Join, Review, CreateIntent, Export, SwitchPlan, OpenTicket, UpdateTicket, ReplyToTicket
  <2>2. \A v \in Workers : SameJobs(v)
    BY <2>1, QuietStep, SameWhenIdle
  <2>3. UNCHANGED <<payments, given, subscription>>
    BY <1>8 DEF Join, Review, CreateIntent, Export, SwitchPlan, OpenTicket, UpdateTicket, ReplyToTicket
  <2>4. \A i \in Intents : intents[i].status = "succeeded" => intents'[i].status = "succeeded"
    <3>1. CASE intents' = intents
      BY <3>1
    <3>2. CASE CreateIntent(w)
      <4>1. ~Exists(intents, Fresh(intents)) /\ Fresh(intents) \in Intents
        BY <3>2 DEF CreateIntent, CanInsert, Fresh
      <4>2. intents[Fresh(intents)].status # "succeeded"
        BY <4>1 DEF Exists, Absent
      <4>3. \A i \in Intents \ {Fresh(intents)} : intents'[i] = intents[i]
        BY <3>2, <4>1 DEF CreateIntent
      <4> QED BY <4>2, <4>3
    <3> QED BY <1>8, <3>1, <3>2 DEF Join, Review, Export, SwitchPlan, OpenTicket, UpdateTicket, ReplyToTicket
  <2>5. PaymentsStay /\ NewPayments /\ Rows(payments)' = Rows(payments)
    BY <2>3, <2>4 DEF PaymentsStay, NewPayments, Rows, Exists
  <2> QED BY <2>2, <2>3, <2>5, NothingSaved, BilledStays
<1>9. CASE ConfirmPayment(w) \/ Webhook(w)
  <2>1. /\ Starts(w) /\ job'[w] \in CardJob /\ UNCHANGED platformVars
        /\ \E t \in Rows(subscription) : job'[w].tenant = t
        /\ intents[job'[w].intent].status = "succeeded"
        /\ Left(w, "cardPayment")'
    BY <1>9, CardStarts
  <2>2. UNCHANGED <<payments, intents, subscription, given>>
    BY <2>1 DEF platformVars, rowVars
  <2>3. ~Left(w, "verdict")'
    BY <2>1, Pays DEF Left, Starts
  <2>4. Exists(subscription, job'[w].tenant)
    BY <2>1 DEF Rows
  <2> QED BY <2>1, <2>2, <2>3, <2>4, NothingNew, BilledStarts
<1>10. CASE Judge(w)
  <2>1. /\ Starts(w) /\ job'[w] \in JudgeJob /\ UNCHANGED platformVars
        /\ job'[w].payment \in PaymentsOf(job'[w].tenant)
        /\ payments[job'[w].payment].status = "PENDING_VERIFICATION"
        /\ job'[w].verdict = "VERIFIED" => Left(w, "verdict")'
        /\ job'[w].verdict # "VERIFIED" => job'[w].image.status = "PENDING_PAYMENT"
    BY <1>10, JudgeStarts DEF Billed
  <2>2. UNCHANGED <<payments, intents, subscription, given>>
    BY <2>1 DEF platformVars, rowVars
  <2>3. ~Left(w, "cardPayment")'
    BY <2>1, Pays DEF Left, Starts
  <2>4. job'[w].verdict # "VERIFIED" => ~Priced(job'[w].image)
    BY <2>1, NotPricedNow
  <2> QED BY <2>1, <2>2, <2>3, <2>4, NothingNew, BilledStarts
<1>11. CASE SubmitPayment(w)
  <2>1. PICK t \in Rows(subscription) :
           /\ Starts(w) /\ job'[w] \in SaveJob /\ job'[w].tenant = t
           /\ job'[w].image = [subscription[t] EXCEPT !.status = "PAYMENT_SUBMITTED"]
           /\ payments' = [payments EXCEPT ![Fresh(payments)] =
                             [tenant |-> t, intent |-> "none", status |-> "PENDING_VERIFICATION"]]
           /\ Fresh(payments) \in Payments /\ ~Exists(payments, Fresh(payments))
    BY <1>11, SubmitStarts
  <2>2. UNCHANGED <<intents, subscription, given>>
    BY <1>11 DEF SubmitPayment
  <2>3. ~Priced(job'[w].image)
    <3>1. subscription[t] \in Subscription
      BY RowIsTyped
    <3>2. job'[w].image.status = "PAYMENT_SUBMITTED"
      BY <2>1, <3>1 DEF Subscription
    <3> QED BY <3>2, NotPricedNow
  <2>4. PICK f : f = Fresh(payments) OBVIOUS
  <2>5. \A p \in Payments : payments'[p] =
           IF p = f THEN [tenant |-> t, intent |-> "none", status |-> "PENDING_VERIFICATION"] ELSE payments[p]
    BY <2>1, <2>4
  <2>6. DOMAIN payments = Payments /\ DOMAIN payments' = Payments OBVIOUS
  <2>7. PaymentsStay
    BY <2>1, <2>2, <2>4, <2>5, <2>6 DEF PaymentsStay, Rows, Exists
  <2>8. NewPayments
    <3>1. Exists(subscription, t)
      BY DEF Rows
    <3>2. ASSUME NEW p \in Rows(payments)', p \notin Rows(payments)
          PROVE  Exists(subscription, payments'[p].tenant) /\ payments'[p].intent = "none"
      <4>1. p = f /\ p \in Payments
        BY <3>2, <2>5, <2>6 DEF Rows, Exists
      <4>2. payments'[p] = [tenant |-> t, intent |-> "none", status |-> "PENDING_VERIFICATION"]
        BY <2>5, <4>1
      <4> QED BY <3>1, <4>2
    <3> QED BY <3>2 DEF NewPayments
  <2> QED BY <2>1, <2>2, <2>3, <2>7, <2>8, StartsSaving
<1>12. CASE SetByHand(w)
  <2>1. PICK t \in Rows(subscription) : Starts(w) /\ job'[w] \in SaveJob /\ job'[w].tenant = t /\ given' = given \cup {t}
    BY <1>12, HandStarts
  <2>2. UNCHANGED <<payments, intents, subscription>>
    BY <1>12 DEF SetByHand, rowVars
  <2> QED BY <2>1, <2>2, NothingNew, StartsSaving
<1>13. CASE LockOut(w)
  <2>1. Starts(w) /\ job'[w] \in CancelJob \cup SuspendJob /\ job'[w].image.status \in {"CANCELLED", "SUSPENDED"}
    BY <1>13, LockOutStarts
  <2>2. UNCHANGED <<payments, intents, subscription, given>>
    BY <1>13 DEF LockOut, rowVars
  <2> QED BY <2>1, <2>2, NothingNew, NotPricedNow, StartsSaving
<1>14. CASE LetIn(w)
  <2>1. Starts(w) /\ job'[w] \in CancelJob \cup SuspendJob /\ given' = given \cup {job'[w].tenant}
    BY <1>14, LetInStarts
  <2>2. UNCHANGED <<payments, intents, subscription>>
    BY <1>14 DEF LetIn, rowVars
  <2> QED BY <2>1, <2>2, NothingNew, StartsSaving
<1>15. CASE MorningEntry(w)
  <2>1. /\ Acts(w) /\ ~Free(w) /\ ~Free(w)' /\ job[w] \in MorningJob /\ job'[w] \in MorningJob
        /\ job[w].list \subseteq Rows(job[w].copies)
    BY <1>15, EntrySteps
  <2>2. PICK t \in job[w].list :
              subscription' = Fallen(w, t)
    BY <1>15, EntrySteps
  <2>3. job[w] \in PlatformJob /\ job'[w] \in PlatformJob
    BY <2>1 DEF JobsTyped
  <2>4. \A v \in Workers : SameJobs(v)
    BY <2>1, <2>3, NotPaying, NotPayingThen, SameWithout
  <2>5. UNCHANGED <<payments, intents, given>>
    BY <1>15 DEF MorningEntry
  <2>6. t \in Tenants /\ job[w].copies[t] \in Subscription
    <3>1. job[w].list \subseteq Tenants /\ job[w].copies \in [Tenants -> Subscription \cup {Absent}]
      BY <2>1, <2>3, JobFields
    <3>2. t \in Rows(job[w].copies)
      BY <2>1
    <3> QED BY <3>1, <3>2 DEF Rows, Exists
  <2>7. DOMAIN subscription = Tenants /\ DOMAIN subscription' = Tenants OBVIOUS
  <2>8. subscription' = subscription \/ (~Priced(subscription'[t]) /\ subscription'[t] # Absent
                                         /\ \A u \in Tenants \ {t} : subscription'[u] = subscription[u])
    <3>1. CASE job[w].op = "expire"
      <4>1. subscription'[t] = [job[w].copies[t] EXCEPT !.status = "EXPIRED"]
            /\ \A u \in Tenants \ {t} : subscription'[u] = subscription[u]
        BY <2>2, <2>6, <2>7, <3>1
      <4>2. subscription'[t].status = "EXPIRED"
        BY <2>6, <4>1 DEF Subscription
      <4> QED BY <4>1, <4>2 DEF Priced, Absent
    <3>2. CASE job[w].op # "expire" /\ Exists(subscription, t)
      <4>1. subscription'[t] = [subscription[t] EXCEPT !.status = "OVERDUE"]
            /\ \A u \in Tenants \ {t} : subscription'[u] = subscription[u]
        BY <2>2, <2>6, <2>7, <3>2
      <4>2. subscription[t] \in Subscription
        BY <2>6, <3>2 DEF Exists
      <4>3. subscription'[t].status = "OVERDUE"
        BY <4>1, <4>2 DEF Subscription
      <4> QED BY <4>1, <4>3 DEF Priced, Absent
    <3>3. CASE job[w].op # "expire" /\ ~Exists(subscription, t)
      BY <2>2, <3>3
    <3> QED BY <3>1, <3>2, <3>3
  <2>9. NothingPriced
    BY <2>6, <2>7, <2>8 DEF NothingPriced, Rows, Exists
  <2> QED BY <2>4, <2>5, <2>9, NothingNew, BilledStays
<1>16. CASE Done(w) \/ RefuseDeletion(w)
  <2>1. Acts(w) /\ Free(w)' /\ UNCHANGED platformVars /\ ~Free(w) /\ \A s : Left(w, s) => job[w] \in DeleteJob
    BY <1>16, Ends
  <2>2. \A s \in BillingSteps : ~Left(w, s) /\ ~Left(w, s)'
    <3>1. \A s : ~Left(w, s)'
      BY <2>1 DEF Left, Free
    <3>2. job[w] \in PlatformJob
      BY <2>1 DEF JobsTyped
    <3>3. \A s \in BillingSteps : ~Left(w, s)
      BY <2>1, <3>2, Pays DEF Left
    <3> QED BY <3>1, <3>3
  <2>3. UNCHANGED <<payments, intents, subscription, given>>
    BY <2>1 DEF platformVars, rowVars
  <2> QED BY <2>1, <2>2, <2>3, SameWithout, NothingNew, NothingSaved, BilledStays
<1>17. CASE SaveSubscription(w)
  BY <1>17, BilledSaves
<1>18. CASE CardPayment(w)
  BY <1>18, BilledCard
<1>19. CASE SaveVerdict(w)
  BY <1>19, BilledVerdict
<1> QED BY <1>1, <1>2, <1>3, <1>4, <1>5, <1>6, <1>7, <1>8, <1>9, <1>10, <1>11, <1>12, <1>13, <1>14, <1>15, <1>16,
           <1>17, <1>18, <1>19
        DEF Handles, Paying, Locking, Deleting

----
(* The morning jobs.  What is free and active has not ended, or the job of
   the hour is about to find it. *)
Timely(row) == row.status # "OVERDUE" /\ (row.status = "ACTIVE" => row.ends > now)
NoList(v) == (Left(v, "list") => job[v].list = {}) /\ (Left(v, "list")' => job'[v].list = {})
TimelyImages ==
  \A v \in Workers : Left(v, "subscription")' /\ job'[v].tenant \notin given' => Timely(job'[v].image)

LEMMA DawnStays ==
  ASSUME PlatformTypeOK, PlatformTypeOK', Dawn, UNCHANGED clockVars, given \subseteq given', TimelyImages,
         \A v \in Workers : NoList(v),
         \A t \in Tenants : \/ subscription'[t] = subscription[t]
                            \/ t \in given' \/ ~Exists(subscription, t)' \/ Timely(subscription'[t])
  PROVE  Dawn'
<1>1. UNCHANGED <<now, duty>> /\ now \in Nat
  BY DEF clockVars, PlatformTypeOK
<1>2. \A t : ToExpire(t) => duty = "expire"
  BY DEF ToExpire, NoList
<1>3. DOMAIN subscription = Tenants /\ DOMAIN subscription' = Tenants
  BY DEF PlatformTypeOK
<1>4. ASSUME NEW t \in FreeTrials'
      PROVE  \/ t \in FreeTrials /\ subscription'[t] = subscription[t]
             \/ Timely(subscription'[t])
  <2>1. t \in Tenants /\ t \notin given' /\ Exists(subscription, t)' /\ subscription'[t].plan = FreePlan
    BY <1>3, <1>4 DEF FreeTrials, Rows
  <2> QED BY <1>3, <2>1 DEF FreeTrials, Rows, Exists
<1>5. ASSUME NEW t \in FreeTrials', subscription'[t].status = "ACTIVE"
      PROVE  /\ now % 2 = 1 => subscription'[t].ends >= now \/ duty = "expire"
             /\ now % 2 = 0 => subscription'[t].ends + 1 >= now
  <2>1. subscription'[t].ends \in Nat
    BY <1>3, <1>5 DEF FreeTrials, Rows, Exists, PlatformTypeOK, Subscription
  <2>2. CASE t \in FreeTrials /\ subscription'[t] = subscription[t]
    BY <1>2, <1>5, <2>2 DEF Dawn
  <2>3. CASE Timely(subscription'[t])
    BY <1>1, <1>5, <2>1, <2>3 DEF Timely
  <2> QED BY <1>4, <1>5, <2>2, <2>3
<1>6. ASSUME NEW t \in FreeTrials', subscription'[t].status = "OVERDUE" PROVE subscription'[t].ends % 2 = 1
  BY <1>4, <1>6 DEF Dawn, Timely
<1>7. /\ duty' = "expire" => now' % 2 = 1
      /\ duty' = "overdue" => now' % 2 = 0
      /\ \A t \in FreeTrials' : subscription'[t].status = "ACTIVE" =>
           /\ now' % 2 = 1 => subscription'[t].ends >= now' \/ ToExpire(t)'
           /\ now' % 2 = 0 => subscription'[t].ends + 1 >= now'
  BY <1>1, <1>5 DEF Dawn, ToExpire
<1>8. \A v \in Workers : Left(v, "list")' /\ job'[v].op = "overdue" =>
        \A t \in job'[v].list \cap FreeTrials' : subscription'[t].ends % 2 = 1
  BY DEF NoList
<1>9. \A v \in Workers : Left(v, "subscription")' /\ job'[v].tenant \notin given' =>
        /\ job'[v].image.status = "ACTIVE" => job'[v].image.ends > now'
        /\ job'[v].image.status # "OVERDUE"
  BY <1>1 DEF TimelyImages, Timely
<1> QED BY <1>6, <1>7, <1>8, <1>9 DEF Dawn

LEMMA TimelyBefore ==
  ASSUME Dawn, NEW v \in Workers, Left(v, "subscription"), job[v].tenant \notin given
  PROVE  Timely(job[v].image)
BY DEF Dawn, Timely

LEMMA NotMorning ==
  ASSUME JobsTyped, NEW w \in Workers, NEW s, Popped(w, s), s # "list"
  PROVE  job[w] \notin MorningJob /\ ~Left(w, "list")
<1>1. Left(w, s) /\ job[w] \in PlatformJob
  BY DEF Popped
<1>2. job[w] \notin MorningJob
  <2> SUFFICES ASSUME job[w] \in MorningJob PROVE FALSE
    OBVIOUS
  <2>1. job[w].todo \in Seq({"list"})
    BY DEF MorningJob
  <2>2. s \in {"list"}
    BY <1>1, <2>1, ListElements DEF Left
  <2> QED BY <2>2
<1> QED BY <1>2, StepTells

(* Whoever is not the morning job has no list, nor has anybody else. *)
LEMMA PoppedDawn ==
  ASSUME JobsTyped, JobsTyped', Dawn, NEW w \in Workers, NEW s, Popped(w, s), s # "list", Unmarred', given \subseteq given'
  PROVE  TimelyImages /\ \A v \in Workers : NoList(v)
<1>1. Acts(w) /\ job[w] \in PlatformJob /\ KeepsAll(job[w], job'[w]) /\ \A r : Left(w, r)' => Left(w, r)
  BY DEF Popped
<1>2. \A v \in Workers \ {w} : job'[v] = job[v] /\ \A r : ~Left(v, r) /\ ~Left(v, r)'
  BY <1>1, OnlyOne
<1>3. ~Left(w, "list") /\ ~Left(w, "list")'
  <2>1. ~Left(w, "list")
    BY NotMorning
  <2> QED BY <1>1, <2>1
<1>4. \A v \in Workers : NoList(v)
  BY <1>2, <1>3 DEF NoList
<1>5. ASSUME Left(w, "subscription")', job'[w].tenant \notin given' PROVE Timely(job'[w].image)
  <2>1. Left(w, "subscription")
    BY <1>1, <1>5
  <2>2. job[w] \in SavingJob
    BY <2>1, StepTells
  <2>3. job'[w].image = job[w].image /\ job'[w].tenant = job[w].tenant
    BY <1>1, <2>2 DEF KeepsAll
  <2> QED BY <1>5, <2>1, <2>3, TimelyBefore
<1>6. TimelyImages
  BY <1>2, <1>5 DEF TimelyImages
<1> QED BY <1>4, <1>6

LEMMA StartsDawn ==
  ASSUME JobsTyped', NEW w \in Workers, Starts(w), Unmarred',
         job'[w] \notin MorningJob, job'[w] \in SavingJob => job'[w].tenant \in given' \/ Timely(job'[w].image)
  PROVE  TimelyImages /\ \A v \in Workers : NoList(v)
<1>1. \A v \in Workers \ {w} : \A r : ~Left(v, r) /\ ~Left(v, r)'
  BY OnlyOne DEF Starts
<1>2. \A r : ~Left(w, r)
  BY IdleHasNothing DEF Starts
<1>3. job'[w] \in PlatformJob
  BY DEF Starts
<1>4. ~Left(w, "list")' /\ (Left(w, "subscription")' => job'[w] \in SavingJob)
  BY <1>3, StepOf DEF Left, SavingJob
<1> QED BY <1>1, <1>2, <1>4 DEF TimelyImages, NoList

LEMMA QuietDawn ==
  ASSUME NEW w \in Workers, \A v \in Workers : \A r : ~Left(v, r) /\ ~Left(v, r)'
  PROVE  TimelyImages /\ \A v \in Workers : NoList(v)
BY DEF TimelyImages, NoList

(* The morning jobs themselves. *)
LEMMA DawnBegins ==
  ASSUME JobsShape, PlatformTypeOK, PlatformTypeOK', JobsTyped, JobsTyped', Dawn,
         NEW w \in Workers, StartMorning(w), Unmarred'
  PROVE  Dawn'
<1>1. /\ Starts(w) /\ job'[w] \in MorningJob /\ Left(w, "list")' /\ job'[w].op = duty
      /\ job'[w].list = JobFinds(duty)
  BY MorningStarts
<1>2. UNCHANGED <<subscription, now, given>> /\ duty' = "none" /\ duty \in {"expire", "overdue"}
  BY DEF StartMorning, rowVars, ghostVars, PlatformTypeOK
<1>3. \A v \in Workers : \A r : ~Left(v, r)
  BY <1>1, OnlyOne, IdleHasNothing DEF Starts
<1>4. \A v \in Workers \ {w} : \A r : ~Left(v, r)'
  BY <1>1, OnlyOne DEF Starts
<1>5. ~Left(w, "subscription")'
  BY <1>1, NotPayingThen DEF Starts, BillingSteps
<1>6. FreeTrials' = FreeTrials
  BY <1>2 DEF FreeTrials, Rows, Exists
<1>7. now \in Nat /\ \A t \in FreeTrials : subscription[t].ends \in Nat /\ subscription[t].plan = FreePlan /\ t \in Rows(subscription)
  BY DEF PlatformTypeOK, FreeTrials, Rows, Exists, Subscription
<1>8. ASSUME NEW t \in FreeTrials, subscription[t].status = "ACTIVE"
      PROVE  /\ now % 2 = 1 => subscription[t].ends >= now \/ ToExpire(t)'
             /\ now % 2 = 0 => subscription[t].ends + 1 >= now
  <2>1. now % 2 = 0 => subscription[t].ends + 1 >= now
    BY <1>8 DEF Dawn
  <2>2. ASSUME now % 2 = 1, ~(subscription[t].ends >= now) PROVE ToExpire(t)'
    <3>1. duty = "expire"
      BY <1>2, <1>7, <2>2 DEF Dawn
    <3>2. subscription[t].ends < now
      BY <1>7, <2>2
    <3>3. t \in job'[w].list
      BY <1>1, <1>7, <1>8, <3>1, <3>2 DEF JobFinds, Lapsed
    <3> QED BY <1>1, <3>1, <3>3 DEF ToExpire
  <2> QED BY <2>1, <2>2
<1>9. ASSUME Left(w, "list")', job'[w].op = "overdue", NEW t \in job'[w].list \cap FreeTrials
      PROVE  subscription[t].ends % 2 = 1
  <2>1. duty = "overdue" /\ now % 2 = 0
    BY <1>1, <1>9 DEF Dawn
  <2>2. subscription[t].status = "ACTIVE" /\ subscription[t].ends < now
    BY <1>1, <1>9 DEF JobFinds, Lapsed
  <2>3. subscription[t].ends + 1 >= now
    BY <1>9, <2>1, <2>2 DEF Dawn
  <2>4. subscription[t].ends = now - 1
    BY <1>7, <1>9, <2>2, <2>3
  <2> QED BY <1>7, <2>1, <2>4
<1>10. \A t \in FreeTrials : subscription[t].status = "OVERDUE" => subscription[t].ends % 2 = 1
  BY DEF Dawn
<1> QED BY <1>2, <1>4, <1>5, <1>6, <1>8, <1>9, <1>10 DEF Dawn

LEMMA DawnEntry ==
  ASSUME JobsShape, PlatformTypeOK, PlatformTypeOK', JobsTyped, JobsTyped', Dawn,
         NEW w \in Workers, MorningEntry(w), Unmarred'
  PROVE  Dawn'
<1> USE DEF Fallen
<1>1. /\ Acts(w) /\ Left(w, "list") /\ Left(w, "list")' /\ job[w] \in MorningJob /\ job'[w] \in MorningJob
      /\ job'[w].op = job[w].op /\ job[w].list \subseteq Rows(job[w].copies)
  BY EntrySteps
<1>2. PICK t \in job[w].list :
              /\ job'[w].list = job[w].list \ {t}
              /\ subscription' = Fallen(w, t)
  BY EntrySteps
<1>3. UNCHANGED <<now, duty, given>>
  BY DEF MorningEntry, clockVars, ghostVars
<1>4. \A v \in Workers \ {w} : \A r : ~Left(v, r) /\ ~Left(v, r)'
  BY <1>1, OnlyOne
<1>5. job[w] \in PlatformJob /\ job'[w] \in PlatformJob
  BY <1>1 DEF JobsTyped, Left
<1>6. ~Left(w, "subscription")'
  BY <1>1, <1>5, NotPayingThen DEF BillingSteps
<1>7. t \in Tenants /\ job[w].copies[t] \in Subscription
  <2>1. job[w].list \subseteq Tenants /\ job[w].copies \in [Tenants -> Subscription \cup {Absent}]
    BY <1>1, <1>5, JobFields
  <2>2. t \in Rows(job[w].copies)
    BY <1>1
  <2> QED BY <2>1, <2>2 DEF Rows, Exists
<1>8. DOMAIN subscription = Tenants /\ DOMAIN subscription' = Tenants
  BY DEF PlatformTypeOK
<1>9. \A u \in Tenants \ {t} : subscription'[u] = subscription[u]
  BY <1>2, <1>7, <1>8
<1>10. \A u \in Tenants \ {t} : u \in FreeTrials' => u \in FreeTrials
  BY <1>3, <1>8, <1>9 DEF FreeTrials, Rows, Exists
<1>11. CASE job[w].op = "expire"
  <2>1. subscription'[t].status = "EXPIRED"
    <3>1. subscription'[t] = [job[w].copies[t] EXCEPT !.status = "EXPIRED"]
      BY <1>2, <1>7, <1>8, <1>11
    <3> QED BY <1>7, <3>1 DEF Subscription
  <2>2. ASSUME NEW u \in FreeTrials', u # t
        PROVE  /\ u \in FreeTrials /\ subscription'[u] = subscription[u]
               /\ ToExpire(u) => ToExpire(u)'
    <3>1. u \in Tenants \ {t}
      BY <1>8, <2>2 DEF FreeTrials, Rows
    <3>2. ToExpire(u) => ToExpire(u)'
      BY <1>1, <1>2, <1>3, <1>4, <2>2 DEF ToExpire
    <3> QED BY <1>9, <1>10, <2>2, <3>1, <3>2
  <2>3. \A u \in FreeTrials' : subscription'[u].status = "ACTIVE" =>
          /\ now' % 2 = 1 => subscription'[u].ends >= now' \/ ToExpire(u)'
          /\ now' % 2 = 0 => subscription'[u].ends + 1 >= now'
    BY <1>3, <2>1, <2>2 DEF Dawn
  <2>4. \A u \in FreeTrials' : subscription'[u].status = "OVERDUE" => subscription'[u].ends % 2 = 1
    BY <2>1, <2>2 DEF Dawn
  <2>5. \A v \in Workers : ~(Left(v, "list")' /\ job'[v].op = "overdue")
    BY <1>1, <1>4, <1>11
  <2>6. (duty' = "expire" => now' % 2 = 1) /\ (duty' = "overdue" => now' % 2 = 0)
    BY <1>3 DEF Dawn
  <2> QED BY <1>4, <1>6, <2>3, <2>4, <2>5, <2>6 DEF Dawn
<1>12. CASE job[w].op # "expire"
  <2>1. \/ subscription'[t] = subscription[t]
        \/ /\ subscription'[t].status = "OVERDUE" /\ subscription'[t].ends = subscription[t].ends
           /\ subscription'[t].plan = subscription[t].plan /\ Exists(subscription, t)
    <3>1. CASE Exists(subscription, t)
      <4>1. subscription[t] \in Subscription
        BY <1>7, <3>1 DEF PlatformTypeOK, Exists
      <4>2. subscription'[t] = [subscription[t] EXCEPT !.status = "OVERDUE"]
        BY <1>2, <1>7, <1>8, <1>12, <3>1
      <4> QED BY <3>1, <4>1, <4>2 DEF Subscription
    <3>2. CASE ~Exists(subscription, t)
      BY <1>2, <1>12, <3>2
    <3> QED BY <3>1, <3>2
  <2>2. \A u \in FreeTrials' : u \in FreeTrials /\ subscription'[u].ends = subscription[u].ends
                            /\ (subscription'[u] = subscription[u] \/ (u = t /\ subscription'[u].status = "OVERDUE"))
    BY <1>3, <1>7, <1>8, <1>9, <2>1 DEF FreeTrials, Rows, Exists
  <2>3. job[w].op = "overdue"
    BY <1>1, <1>12 DEF MorningJob
  <2>4. \A u : ToExpire(u) => ToExpire(u)'
    BY <1>3, <1>4, <2>3 DEF ToExpire
  <2>5. \A u \in job[w].list \cap FreeTrials : subscription[u].ends % 2 = 1
    BY <1>1, <2>3 DEF Dawn
  <2>6. \A u \in FreeTrials' : subscription'[u].status = "ACTIVE" =>
          /\ now' % 2 = 1 => subscription'[u].ends >= now' \/ ToExpire(u)'
          /\ now' % 2 = 0 => subscription'[u].ends + 1 >= now'
    BY <1>3, <2>2, <2>4 DEF Dawn
  <2>7. \A u \in FreeTrials' : subscription'[u].status = "OVERDUE" => subscription'[u].ends % 2 = 1
    BY <1>2, <2>2, <2>5 DEF Dawn
  <2>8. \A v \in Workers : Left(v, "list")' /\ job'[v].op = "overdue" =>
          \A u \in job'[v].list \cap FreeTrials' : subscription'[u].ends % 2 = 1
    BY <1>2, <1>4, <2>2, <2>5
  <2>9. (duty' = "expire" => now' % 2 = 1) /\ (duty' = "overdue" => now' % 2 = 0)
    BY <1>3 DEF Dawn
  <2> QED BY <1>4, <1>6, <2>6, <2>7, <2>8, <2>9 DEF Dawn
<1> QED BY <1>11, <1>12

LEMMA DawnTicks ==
  ASSUME PlatformTypeOK, PlatformTypeOK', Dawn, NextTick, Unmarred'
  PROVE  Dawn'
<1>1. duty = "none" /\ AllFree
  BY DEF NextTick, Unmarred
<1>2. now' = now + 1 /\ UNCHANGED <<job, subscription, given>> /\ now \in Nat
  BY DEF NextTick, rowVars, ghostVars, PlatformTypeOK
<1>3. (now' % 2 = 1 => duty' = "expire") /\ (duty' = "expire" => now' % 2 = 1) /\ (duty' = "overdue" => now' % 2 = 0)
  <2>1. now' % 2 = 0 \/ now' % 2 = 1
    BY <1>2
  <2> QED BY <2>1 DEF NextTick
<1>4. \A v \in Workers : \A r : ~Left(v, r) /\ ~Left(v, r)'
  BY <1>1, <1>2 DEF AllFree, Left, Free
<1>5. FreeTrials' = FreeTrials
  BY <1>2 DEF FreeTrials, Rows, Exists
<1>6. \A t : ~ToExpire(t)
  BY <1>1, <1>4 DEF ToExpire
<1>7. ASSUME NEW t \in FreeTrials, subscription[t].status = "ACTIVE", now' % 2 = 0
      PROVE  subscription[t].ends + 1 >= now'
  <2>1. subscription[t].ends \in Nat
    BY DEF PlatformTypeOK, FreeTrials, Rows, Exists, Subscription
  <2>2. now % 2 = 1
    BY <1>2, <1>7
  <2>3. subscription[t].ends >= now
    BY <1>6, <1>7, <2>2 DEF Dawn
  <2> QED BY <1>2, <2>1, <2>3
<1>8. \A t \in FreeTrials : subscription[t].status = "OVERDUE" => subscription[t].ends % 2 = 1
  BY DEF Dawn
<1>9. \A t \in FreeTrials' : subscription'[t].status = "ACTIVE" =>
          /\ now' % 2 = 1 => subscription'[t].ends >= now' \/ ToExpire(t)'
          /\ now' % 2 = 0 => subscription'[t].ends + 1 >= now'
  BY <1>2, <1>3, <1>5, <1>7 DEF ToExpire
<1> QED BY <1>2, <1>3, <1>4, <1>5, <1>8, <1>9 DEF Dawn

LEMMA DawnStep ==
  ASSUME JobsShape, PlatformTypeOK, PlatformTypeOK', JobsTyped, JobsTyped', PlatformAssumption, Billed, Dawn,
         NEW w \in Workers, Handles(w), Unmarred'
  PROVE  Dawn'
<1> USE DEF ghostVars
<1>1. CASE RegisterTenant(w)
  <2>1. Starts(w) /\ job'[w] \in RegisterJob /\ job'[w] \in PlatformJob
    BY <1>1, RegisterStarts DEF Starts
  <2>2. job'[w] \notin MorningJob /\ job'[w] \notin SavingJob
    BY <2>1, JobFields, Pays
  <2>3. UNCHANGED <<clockVars, given, subscription>>
    BY <1>1 DEF RegisterTenant
  <2> QED BY <2>1, <2>2, <2>3, StartsDawn, DawnStays
<1>2. CASE StartDeletion(w)
  <2>1. Starts(w) /\ job'[w] \in DeleteJob /\ job'[w] \in PlatformJob
    BY <1>2, DeletionStarts DEF Starts
  <2>2. job'[w] \notin MorningJob /\ job'[w] \notin SavingJob
    BY <2>1, JobFields, Pays
  <2>3. UNCHANGED <<clockVars, given, subscription>>
    BY <1>2 DEF StartDeletion, rowVars
  <2> QED BY <2>1, <2>2, <2>3, StartsDawn, DawnStays
<1>3. CASE ConfirmPayment(w) \/ Webhook(w)
  <2>1. PICK t \in Rows(subscription) :
          Starts(w) /\ job'[w] \in CardJob /\ UNCHANGED platformVars /\ job'[w].image = Activated(subscription[t])
    BY <1>3, CardStarts
  <2>2. Timely(job'[w].image)
    <3>1. subscription[t] \in Subscription
      BY RowIsTyped
    <3> QED BY <2>1, <3>1, ActivatedIs DEF Timely
  <2>3. job'[w] \notin MorningJob
    BY <2>1, JobFields DEF SavingJob, Starts
  <2>4. UNCHANGED <<clockVars, given, subscription>>
    BY <2>1 DEF platformVars, rowVars
  <2> QED BY <2>1, <2>2, <2>3, <2>4, StartsDawn, DawnStays
<1>4. CASE Judge(w)
  <2>1. /\ Starts(w) /\ job'[w] \in JudgeJob /\ UNCHANGED platformVars
        /\ job'[w].verdict = "VERIFIED" => job'[w].image.ends > now
        /\ job'[w].verdict # "VERIFIED" => job'[w].image.status = "PENDING_PAYMENT"
        /\ job'[w].image.status # "OVERDUE"
    BY <1>4, JudgeStarts DEF Billed
  <2>2. Timely(job'[w].image)
    BY <2>1 DEF Timely
  <2>3. job'[w] \notin MorningJob
    BY <2>1, JobFields DEF SavingJob, Starts
  <2>4. UNCHANGED <<clockVars, given, subscription>>
    BY <2>1 DEF platformVars, rowVars
  <2> QED BY <2>1, <2>2, <2>3, <2>4, StartsDawn, DawnStays
<1>5. CASE SubmitPayment(w)
  <2>1. PICK t \in Rows(subscription) :
           /\ Starts(w) /\ job'[w] \in SaveJob
           /\ job'[w].image = [subscription[t] EXCEPT !.status = "PAYMENT_SUBMITTED"]
    BY <1>5, SubmitStarts
  <2>2. Timely(job'[w].image)
    <3>1. subscription[t] \in Subscription
      BY RowIsTyped
    <3>2. job'[w].image.status = "PAYMENT_SUBMITTED"
      BY <2>1, <3>1 DEF Subscription
    <3> QED BY <3>2 DEF Timely
  <2>3. job'[w] \notin MorningJob
    BY <2>1, JobFields DEF SavingJob, Starts
  <2>4. UNCHANGED <<clockVars, given, subscription>>
    BY <1>5 DEF SubmitPayment
  <2> QED BY <2>1, <2>2, <2>3, <2>4, StartsDawn, DawnStays
<1>6. CASE SetByHand(w)
  <2>1. PICK t \in Rows(subscription) : Starts(w) /\ job'[w] \in SaveJob /\ job'[w].tenant = t /\ given' = given \cup {t}
    BY <1>6, HandStarts
  <2>2. job'[w] \notin MorningJob
    BY <2>1, JobFields DEF SavingJob, Starts
  <2>3. UNCHANGED <<clockVars, subscription>>
    BY <1>6 DEF SetByHand, rowVars
  <2>4. TimelyImages /\ \A v \in Workers : NoList(v)
    BY <2>1, <2>2, StartsDawn
  <2> QED BY <2>1, <2>3, <2>4, DawnStays
<1>7. CASE LockOut(w)
  <2>1. Starts(w) /\ job'[w] \in CancelJob \cup SuspendJob /\ job'[w].image.status \in {"CANCELLED", "SUSPENDED"}
    BY <1>7, LockOutStarts
  <2>2. Timely(job'[w].image)
    BY <2>1 DEF Timely
  <2>3. job'[w] \notin MorningJob
    BY <2>1, JobFields DEF SavingJob, Starts
  <2>4. UNCHANGED <<clockVars, given, subscription>>
    BY <1>7 DEF LockOut, rowVars
  <2> QED BY <2>1, <2>2, <2>3, <2>4, StartsDawn, DawnStays
<1>8. CASE LetIn(w)
  <2>1. Starts(w) /\ job'[w] \in CancelJob \cup SuspendJob /\ given' = given \cup {job'[w].tenant}
    BY <1>8, LetInStarts
  <2>2. job'[w] \notin MorningJob
    BY <2>1, JobFields DEF SavingJob, Starts
  <2>3. UNCHANGED <<clockVars, subscription>>
    BY <1>8 DEF LetIn, rowVars
  <2>4. TimelyImages /\ \A v \in Workers : NoList(v)
    BY <2>1, <2>2, StartsDawn
  <2> QED BY <2>1, <2>3, <2>4, DawnStays
<1>9. CASE FirstSubscription(w) \/ SaveSubscription(w)
  <2>1. \E s \in {"firstSubscription", "subscription"} : Popped(w, s)
    BY <1>9, Pops
  <2>2. job[w].tenant \in Tenants
    BY <2>1, PoppedFields
  <2>3. UNCHANGED <<clockVars, given>>
    BY <1>9 DEF FirstSubscription, SaveSubscription
  <2>4. \A t \in Tenants \ {job[w].tenant} : subscription'[t] = subscription[t]
    BY <1>9, <2>2 DEF FirstSubscription, SaveSubscription, PlatformTypeOK
  <2>5. \/ subscription'[job[w].tenant] = subscription[job[w].tenant]
        \/ job[w].tenant \in given' \/ Timely(subscription'[job[w].tenant])
    <3>1. CASE FirstSubscription(w)
      <4>1. \/ subscription' = subscription
            \/ subscription'[job[w].tenant] = [status |-> "PENDING_PAYMENT", plan |-> job[w].plan,
                                               ends |-> now + Length(job[w].plan)]
        BY <2>2, <3>1 DEF FirstSubscription, PlatformTypeOK
      <4>2. \/ subscription' = subscription
            \/ subscription'[job[w].tenant].status = "PENDING_PAYMENT"
        BY <4>1
      <4> QED BY <4>2 DEF Timely
    <3>2. CASE SaveSubscription(w)
      <4>1. subscription'[job[w].tenant] = job[w].image
        BY <2>2, <3>2 DEF SaveSubscription, PlatformTypeOK
      <4>2. Left(w, "subscription")
        BY <3>2, Pops DEF Popped
      <4>3. job[w].tenant \in given \/ Timely(job[w].image)
        BY <4>2, TimelyBefore
      <4> QED BY <2>3, <4>1, <4>3
    <3> QED BY <1>9, <3>1, <3>2
  <2>6. TimelyImages /\ \A v \in Workers : NoList(v)
    BY <2>1, <2>3, PoppedDawn
  <2>7. \A t \in Tenants : \/ subscription'[t] = subscription[t]
                           \/ t \in given' \/ ~Exists(subscription, t)' \/ Timely(subscription'[t])
    BY <2>4, <2>5
  <2> QED BY <2>3, <2>6, <2>7, DawnStays
<1>10. CASE AskApproval(w) \/ CardPayment(w) \/ SaveVerdict(w)
  <2>1. \E s : Popped(w, s) /\ s # "list"
    <3>1. \E s \in {"approval", "cardPayment", "verdict"} : Popped(w, s)
      BY <1>10, Pops
    <3> QED BY <3>1
  <2>2. UNCHANGED <<clockVars, given, subscription>>
    BY <1>10 DEF AskApproval, CardPayment, SaveVerdict
  <2> QED BY <2>1, <2>2, PoppedDawn, DawnStays
<1>11. CASE SetTenantStatus(w) \/ SetBusiness(w) \/ SetMembers(w) \/ SetUsers(w) \/ SpendExport(w)
  <2>1. \E s : Popped(w, s) /\ s # "list"
    <3>1. \E s \in {"tenantStatus", "business", "members", "users", "spend"} : Popped(w, s)
      BY <1>11, Pops
    <3> QED BY <3>1
  <2>2. UNCHANGED <<clockVars, given, subscription>>
    BY <1>11 DEF SetTenantStatus, SetBusiness, SetMembers, SetUsers, SpendExport
  <2> QED BY <2>1, <2>2, PoppedDawn, DawnStays
<1>12. CASE DeleteMembers(w) \/ DeleteUsers(w) \/ DeleteTenantBusiness(w) \/ DeleteRow(w)
  <2>1. PICK s \in DeleteSteps : Delete(w, s)
    BY <1>12 DEF DeleteMembers, DeleteUsers, DeleteTenantBusiness, DeleteRow, DeleteSteps
  <2>2. Popped(w, s) /\ s # "list" /\ job[w].tenant \in Tenants
    BY <2>1, Pops, PoppedFields DEF DeleteSteps
  <2>3. UNCHANGED <<clockVars, given>>
    BY <1>12 DEF DeleteMembers, DeleteUsers, DeleteTenantBusiness, DeleteRow
  <2>4. subscription' = subscription \/ subscription' = [subscription EXCEPT ![job[w].tenant] = Absent]
    BY <1>12 DEF DeleteMembers, DeleteUsers, DeleteTenantBusiness, DeleteRow
  <2>5. \A t \in Tenants : subscription'[t] = subscription[t] \/ ~Exists(subscription, t)'
    BY <2>2, <2>4 DEF PlatformTypeOK, Exists
  <2> QED BY <2>2, <2>3, <2>5, PoppedDawn, DawnStays
<1>13. CASE \/ Join(w) \/ Review(w) \/ CreateIntent(w) \/ Export(w)
            \/ SwitchPlan(w) \/ OpenTicket(w) \/ UpdateTicket(w) \/ ReplyToTicket(w)
  <2>1. \E op : AtOnce(w, op)
    BY <1>13 DEF Join, Review, CreateIntent, Export, SwitchPlan, OpenTicket, UpdateTicket, ReplyToTicket
  <2>2. TimelyImages /\ \A v \in Workers : NoList(v)
    BY <2>1, QuietStep, QuietDawn
  <2>3. UNCHANGED <<clockVars, given, subscription>>
    BY <1>13 DEF Join, Review, CreateIntent, Export, SwitchPlan, OpenTicket, UpdateTicket, ReplyToTicket
  <2> QED BY <2>2, <2>3, DawnStays
<1>14. CASE Done(w) \/ RefuseDeletion(w)
  <2>1. /\ Acts(w) /\ Free(w)' /\ UNCHANGED platformVars /\ ~Free(w)
        /\ \A s : Left(w, s) => job[w] \in DeleteJob
    BY <1>14, Ends
  <2>2. \A v \in Workers \ {w} : \A r : ~Left(v, r) /\ ~Left(v, r)'
    BY <2>1, OnlyOne
  <2>3. \A r : ~Left(w, r)'
    BY <2>1 DEF Left, Free
  <2>4. ~Left(w, "list")
    <3>1. job[w] \in PlatformJob
      BY <2>1 DEF JobsTyped
    <3> QED BY <2>1, <3>1, StepTells, JobFields
  <2>5. TimelyImages /\ \A v \in Workers : NoList(v)
    BY <2>2, <2>3, <2>4 DEF TimelyImages, NoList
  <2>6. UNCHANGED <<clockVars, given, subscription>>
    BY <2>1 DEF platformVars, rowVars
  <2> QED BY <2>5, <2>6, DawnStays
<1>15. CASE EndMorning(w)
  <2>1. Popped(w, "list") /\ job[w].list = {}
    BY <1>15, Pops
  <2>2. Acts(w) /\ KeepsAll(job[w], job'[w]) /\ Left(w, "list") /\ job[w] \in PlatformJob
    BY <2>1 DEF Popped
  <2>3. job[w] \in MorningJob /\ job'[w].list = {}
    BY <2>1, <2>2, StepTells DEF KeepsAll
  <2>4. \A v \in Workers \ {w} : \A r : ~Left(v, r) /\ ~Left(v, r)'
    BY <2>2, OnlyOne
  <2>5. ~Left(w, "subscription")'
    <3>1. ~Left(w, "subscription")
      BY <2>2, <2>3, NotPaying DEF Popped, BillingSteps
    <3> QED BY <2>1, <3>1 DEF Popped
  <2>6. TimelyImages /\ \A v \in Workers : NoList(v)
    BY <2>1, <2>3, <2>4, <2>5 DEF TimelyImages, NoList
  <2>7. UNCHANGED <<clockVars, given, subscription>>
    BY <1>15 DEF EndMorning, platformVars, rowVars
  <2> QED BY <2>6, <2>7, DawnStays
<1>16. CASE StartMorning(w)
  BY <1>16, DawnBegins
<1>17. CASE MorningEntry(w)
  BY <1>17, DawnEntry
<1> QED BY <1>1, <1>2, <1>3, <1>4, <1>5, <1>6, <1>7, <1>8, <1>9, <1>10, <1>11, <1>12, <1>13, <1>14, <1>15, <1>16, <1>17
        DEF Handles, Paying, Locking, Deleting

----
(* Locking out and letting in. *)
OpeningSteps == {"tenantStatus", "business", "members", "users"}

LEMMA UnlockedStays ==
  ASSUME NEW t, Unlocked(t), lockedBy'[t] = lockedBy[t], tenant'[t] = tenant[t],
         \A p \in PeopleOf(t)' : p \in PeopleOf(t) /\ people'[p] = people[p],
         \A s \in OpeningSteps : Reopens(t, s) => Reopens(t, s)'
  PROVE  Unlocked(t)'
<1>1. /\ Reopens(t, "tenantStatus") => Reopens(t, "tenantStatus")'
      /\ Reopens(t, "business") => Reopens(t, "business")'
      /\ Reopens(t, "members") => Reopens(t, "members")'
      /\ Reopens(t, "users") => Reopens(t, "users")'
  BY DEF OpeningSteps
<1>2. Exists(tenant, t)' <=> Exists(tenant, t)
  BY DEF Exists
<1>3. Exists(tenant, t)' =>
        /\ "subscription" \notin lockedBy'[t] => tenant'[t].status = "active" \/ Reopens(t, "tenantStatus")'
        /\ "tenant" \notin lockedBy'[t] => tenant'[t].business = "open" \/ Reopens(t, "business")'
        /\ tenant'[t].business # "gone"
  BY <1>1, <1>2 DEF Unlocked
<1>4. ~Exists(tenant, t)' => PeopleOf(t)' = {}
  BY <1>2 DEF Unlocked
<1>5. "tenant" \notin lockedBy'[t] => Reopens(t, "users")' \/ \A p \in PeopleOf(t)' : ~people'[p].suspended
  BY <1>1 DEF Unlocked
<1>6. lockedBy'[t] = {} => Reopens(t, "members")' \/ \A p \in PeopleOf(t)' : people'[p].member # "inactive"
  BY <1>1 DEF Unlocked
<1>7. \A p \in PeopleOf(t)' : people'[p].member # "none"
  BY DEF Unlocked
<1> QED BY <1>3, <1>4, <1>5, <1>6, <1>7 DEF Unlocked

LEMMA LockedWith ==
  ASSUME NEW w \in Workers, Acts(w), Unmarred', ~Free(w)' => LockHeld(w)',
         \A t \in Tenants : deletions'[t] = 0 => Unlocked(t)',
         \A t \in Tenants : Exists(subscription, t)' => Exists(tenant, t)'
  PROVE  Locked'
BY OnlyOne DEF Locked

LEMMA LockedStays ==
  ASSUME Locked, NEW w \in Workers, Acts(w), Unmarred', ~Free(w)' => LockHeld(w)',
         UNCHANGED <<tenant, people, lockedBy>>,
         \A t \in Tenants : deletions'[t] = 0 => deletions[t] = 0,
         \A t \in Tenants : Exists(subscription, t)' => Exists(tenant, t),
         \A t \in Tenants : \A s \in OpeningSteps : Reopens(t, s) => Reopens(t, s)'
  PROVE  Locked'
<1>1. ASSUME NEW t \in Tenants, deletions'[t] = 0 PROVE Unlocked(t)'
  <2>1. Unlocked(t)
    BY <1>1 DEF Locked
  <2>2. \A p \in PeopleOf(t)' : p \in PeopleOf(t) /\ people'[p] = people[p]
    BY DEF PeopleOf, Rows, Exists
  <2> QED BY <2>1, <2>2, UnlockedStays
<1>2. \A t \in Tenants : Exists(subscription, t)' => Exists(tenant, t)'
  BY DEF Exists
<1> QED BY <1>1, <1>2, LockedWith

(* What the other handlers leave of the openings, and what a start, whom
   nobody was before, finds. *)
LEMMA OpeningKept ==
  ASSUME JobsTyped, NEW w \in Workers, NEW s, Popped(w, s), Unmarred', NEW t, NEW r, r # s, Reopens(t, r)
  PROVE  Reopens(t, r)'
<1>1. Acts(w) /\ KeepsAll(job[w], job'[w]) /\ \A q : Left(w, q) /\ q # s => Left(w, q)'
  BY DEF Popped
<1>2. Left(w, r) /\ Opens(w) /\ job[w].tenant = t
  BY <1>1, OnlyOne DEF Reopens
<1>3. Left(w, r)' /\ job'[w].op = job[w].op /\ job'[w].tenant = job[w].tenant
  BY <1>1, <1>2 DEF KeepsAll
<1> QED BY <1>2, <1>3 DEF Reopens, Opens

LEMMA NoOpening ==
  ASSUME \A v \in Workers : \A s : ~Left(v, s)
  PROVE  \A t, s : ~Reopens(t, s)
BY DEF Reopens

LEMMA LockHeldKept ==
  ASSUME JobsTyped, Locked, NEW w \in Workers, NEW s, Popped(w, s), UNCHANGED <<lockedBy, deletions>>,
         s = "deleteTenant" \/ \A u \in Tenants : Exists(tenant, u) => Exists(tenant, u)'
  PROVE  LockHeld(w)'
<1>1. /\ ~Free(w) /\ job[w] \in PlatformJob /\ job'[w] \in PlatformJob /\ KeepsAll(job[w], job'[w])
      /\ \A r : Left(w, r)' => Left(w, r)
  BY DEF Popped
<1>2. LockHeld(w)
  BY <1>1 DEF Locked
<1>3. /\ job'[w].op = job[w].op /\ job'[w].tenant = job[w].tenant
      /\ job'[w] \in DeleteJob <=> job[w] \in DeleteJob
      /\ job'[w] \in RegisterJob \cup SavingJob <=> job[w] \in RegisterJob \cup SavingJob
      /\ job'[w] \in MorningJob <=> job[w] \in MorningJob
      /\ job[w] \in MorningJob => job'[w].list = job[w].list
  <2>1. job'[w].op = job[w].op /\ job'[w].tenant = job[w].tenant
    BY <1>1 DEF KeepsAll
  <2>2. /\ job'[w] \in DeleteJob <=> job[w] \in DeleteJob
        /\ job'[w] \in RegisterJob <=> job[w] \in RegisterJob
        /\ job'[w] \in MorningJob <=> job[w] \in MorningJob
    BY <1>1, <2>1, Kinds
  <2>3. job'[w] \in SavingJob <=> job[w] \in SavingJob
    BY <1>1, <2>1, Kinds DEF SavingJob
  <2> QED BY <1>1, <2>1, <2>2, <2>3 DEF KeepsAll
<1>4. /\ job[w] \in RegisterJob \cup SavingJob \cup DeleteJob => job[w].tenant \in Tenants
      /\ job[w] \in MorningJob => job[w].list \subseteq Tenants
  BY <1>1, JobFields
<1>5. job'[w].op \in DOMAIN Lock => Way(job'[w].op) \in lockedBy'[job'[w].tenant]
  BY <1>2, <1>3 DEF LockHeld
<1>6. CASE \A u \in Tenants : Exists(tenant, u) => Exists(tenant, u)'
  <2>1. job'[w] \in DeleteJob =>
          deletions'[job'[w].tenant] # 0 /\ (Left(w, "deleteBusiness")' => Exists(tenant, job[w].tenant)')
    <3> SUFFICES ASSUME job[w] \in DeleteJob
                 PROVE  deletions[job[w].tenant] # 0 /\ (Left(w, "deleteBusiness")' => Exists(tenant, job[w].tenant)')
      BY <1>3
    <3>1. PICK t \in Tenants : t = job[w].tenant
      BY <1>4
    <3>2. deletions[t] # 0 /\ (Left(w, "deleteBusiness")' => Exists(tenant, t)')
      BY <1>1, <1>2, <1>6, <3>1 DEF LockHeld
    <3> QED BY <1>3, <3>1, <3>2 DEF Exists
  <2>2. job'[w] \in RegisterJob \cup SavingJob => Exists(tenant, job[w].tenant)'
    <3> SUFFICES ASSUME job[w] \in RegisterJob \cup SavingJob PROVE Exists(tenant, job[w].tenant)'
      BY <1>3
    <3>1. PICK t \in Tenants : t = job[w].tenant
      BY <1>4
    <3>2. Exists(tenant, t)'
      BY <1>2, <1>6, <3>1 DEF LockHeld
    <3> QED BY <1>3, <3>1, <3>2 DEF Exists
  <2>3. job'[w] \in MorningJob => \A t \in job'[w].list : Exists(tenant, t)'
    BY <1>2, <1>3, <1>4, <1>6 DEF LockHeld
  <2> QED BY <1>5, <2>1, <2>2, <2>3 DEF LockHeld
<1>7. CASE s = "deleteTenant"
  <2>1. job[w] \in DeleteJob /\ ~Left(w, "deleteBusiness")'
    BY <1>7, PoppedFields DEF Popped, DeleteSteps
  <2>2. job'[w] \notin RegisterJob \cup SavingJob /\ job'[w] \notin MorningJob
    <3>1. job[w] \notin MorningJob /\ job[w] \notin SavingJob /\ job[w] \notin RegisterJob
      BY <1>1, <2>1, JobFields, Pays, Kinds
    <3> QED BY <1>3, <3>1
  <2>3. deletions'[job'[w].tenant] # 0
    BY <1>2, <1>3, <2>1 DEF LockHeld
  <2> QED BY <1>5, <2>1, <2>2, <2>3 DEF LockHeld
<1> QED BY <1>6, <1>7

(* A handler that saves an entity of a tenant that is there. *)
LEMMA HoldsTenant ==
  ASSUME NEW w, job'[w] \in PlatformJob, job'[w] \in RegisterJob \cup SavingJob, Exists(tenant, job[w].tenant)',
         job'[w].op \in DOMAIN Lock => Way(job'[w].op) \in lockedBy'[job'[w].tenant]
  PROVE  LockHeld(w)'
<1>1. job'[w] \notin MorningJob
  BY JobFields
<1>2. job'[w] \notin DeleteJob
  BY Pays, Kinds
<1> QED BY <1>1, <1>2 DEF LockHeld

LEMMA NotLocking ==
  ASSUME NEW j \in PlatformJob, j \in RegisterJob \cup CardJob \cup SaveJob \cup JudgeJob \cup DeleteJob \cup MorningJob
  PROVE  j.op \notin DOMAIN Lock
BY Kinds, LockDomains

LEMMA OpensOwn ==
  ASSUME NEW w \in Workers, NEW s, Popped(w, s), Unmarred', NEW u, u # job[w].tenant, NEW r
  PROVE  ~Reopens(u, r)
BY OnlyOne DEF Reopens, Popped

(* A handler that starts with an entity of a tenant, or with nothing of
   one, and moves no lock. *)
LEMMA LockedStarts ==
  ASSUME PlatformTypeOK, Locked, NEW w \in Workers, Starts(w), Unmarred',
         UNCHANGED <<tenant, people, lockedBy, deletions, subscription>>,
         job'[w] \in CardJob \cup SaveJob \cup JudgeJob, job'[w].tenant \in Rows(subscription)
  PROVE  Locked'
<1>1. job'[w] \in SavingJob /\ job'[w] \in PlatformJob /\ Acts(w)
  BY DEF SavingJob, Starts
<1>2. job'[w].op \notin DOMAIN Lock
  BY <1>1, NotLocking
<1>3. \A t \in Tenants : Exists(subscription, t)' => Exists(tenant, t)
  BY DEF Locked, Exists
<1>4. Exists(tenant, job[w].tenant)'
  <2>1. PICK t \in Tenants : t = job'[w].tenant
    BY DEF Rows, PlatformTypeOK
  <2>2. Exists(tenant, t)
    BY <2>1 DEF Locked, Rows
  <2> QED BY <2>1, <2>2 DEF Exists
<1>5. LockHeld(w)'
  BY <1>1, <1>2, <1>4, HoldsTenant
<1>6. \A t \in Tenants : \A s \in OpeningSteps : Reopens(t, s) => Reopens(t, s)'
  <2>1. \A v \in Workers : \A s : ~Left(v, s)
    BY <1>1, OnlyOne, IdleHasNothing DEF Starts
  <2> QED BY <2>1, NoOpening
<1> QED BY <1>1, <1>3, <1>5, <1>6, LockedStays

LEMMA LockedQuiet ==
  ASSUME JobsShape, Locked, NEW w \in Workers, NEW op, AtOnce(w, op), Unmarred',
         UNCHANGED <<tenant, people, lockedBy, deletions, subscription>>
  PROVE  Locked'
<1>1. Acts(w) /\ Free(w)' /\ \A v \in Workers : \A s : ~Left(v, s)
  BY QuietStep
<1>2. \A t \in Tenants : \A s \in OpeningSteps : Reopens(t, s) => Reopens(t, s)'
  BY <1>1, NoOpening
<1>3. \A t \in Tenants : Exists(subscription, t)' => Exists(tenant, t)
  BY DEF Locked, Exists
<1> QED BY <1>1, <1>2, <1>3, LockedStays

LEMMA LockedPops ==
  ASSUME JobsTyped, Locked, NEW w \in Workers, NEW s, Popped(w, s), s \notin OpeningSteps, Unmarred',
         UNCHANGED <<tenant, people, lockedBy, deletions>>,
         \A t \in Tenants : Exists(subscription, t)' => Exists(tenant, t)
  PROVE  Locked'
<1>1. Acts(w)
  BY DEF Popped
<1>2. \A t \in Tenants : \A r \in OpeningSteps : Reopens(t, r) => Reopens(t, r)'
  BY OpeningKept
<1>3. LockHeld(w)'
  <2>1. \A u \in Tenants : Exists(tenant, u) => Exists(tenant, u)'
    BY DEF Exists
  <2> QED BY <2>1, LockHeldKept
<1> QED BY <1>1, <1>2, <1>3, LockedStays

(* A new tenant and its owner, a new member. *)
LEMMA LockedRegister ==
  ASSUME JobsShape, PlatformTypeOK, PlatformTypeOK', Locked, NEW w \in Workers, RegisterTenant(w), Unmarred'
  PROVE  Locked'
<1>1. /\ Starts(w) /\ job'[w] \in RegisterJob /\ Acts(w) /\ job'[w] \in PlatformJob
      /\ Fresh(tenant) \in Tenants /\ ~Exists(tenant, Fresh(tenant)) /\ job'[w].tenant = Fresh(tenant)
      /\ Fresh(people) \in Persons /\ ~Exists(people, Fresh(people))
  BY RegisterStarts DEF Starts
<1>2. PICK t \in Tenants, f \in Persons : t = Fresh(tenant) /\ f = Fresh(people)
  BY <1>1
<1>3. UNCHANGED <<subscription, lockedBy, deletions>>
  BY DEF RegisterTenant, ghostVars
<1>4. /\ \A u \in Tenants : tenant'[u] = IF u = t THEN [status |-> "active", business |-> "open"] ELSE tenant[u]
      /\ \A p \in Persons : people'[p] =
           IF p = f THEN [tenant |-> t, owner |-> TRUE, member |-> "active", suspended |-> FALSE] ELSE people[p]
  BY <1>2 DEF RegisterTenant, PlatformTypeOK
<1>5. DOMAIN people = Persons /\ DOMAIN people' = Persons
  BY DEF PlatformTypeOK
<1>6. /\ tenant'[t].status = "active" /\ tenant'[t].business = "open" /\ Exists(tenant, t)'
      /\ people'[f].tenant = t /\ people'[f].member = "active" /\ people'[f].suspended = FALSE
  BY <1>4 DEF Exists, Absent
<1>7. \A v \in Workers : \A s : ~Left(v, s)
  BY <1>1, OnlyOne, IdleHasNothing DEF Starts
<1>8. ASSUME NEW u \in Tenants, deletions'[u] = 0 PROVE Unlocked(u)'
  <2>1. Unlocked(u)
    BY <1>3, <1>8 DEF Locked
  <2>2. CASE u # t
    <3>1. \A p \in PeopleOf(u)' : p \in PeopleOf(u) /\ people'[p] = people[p]
      BY <1>4, <1>5, <1>6, <2>2 DEF PeopleOf, Rows, Exists
    <3>2. \A s \in OpeningSteps : Reopens(u, s) => Reopens(u, s)'
      BY <1>7, NoOpening
    <3> QED BY <1>3, <1>4, <2>1, <2>2, <3>1, <3>2, UnlockedStays
  <2>3. CASE u = t
    <3>1. PeopleOf(t) = {}
      BY <1>1, <1>2, <2>1, <2>3 DEF Unlocked
    <3>2. PeopleOf(t)' \subseteq {f}
      BY <1>4, <1>5, <3>1 DEF PeopleOf, Rows, Exists
    <3> QED BY <1>6, <2>3, <3>2 DEF Unlocked
  <2> QED BY <2>2, <2>3
<1>9. \A u \in Tenants : Exists(subscription, u)' => Exists(tenant, u)'
  BY <1>3, <1>4, <1>6 DEF Locked, Exists
<1>10. LockHeld(w)'
  <2>1. job'[w].op \notin DOMAIN Lock
    BY <1>1, NotLocking
  <2>2. Exists(tenant, job[w].tenant)'
    BY <1>1, <1>2, <1>6 DEF Exists
  <2> QED BY <1>1, <2>1, <2>2, HoldsTenant
<1> QED BY <1>1, <1>8, <1>9, <1>10, LockedWith

LEMMA LockedJoin ==
  ASSUME JobsShape, PlatformTypeOK, PlatformTypeOK', Locked, NEW w \in Workers, Join(w), Unmarred'
  PROVE  Locked'
<1>1. Acts(w) /\ Free(w)' /\ \A v \in Workers : \A s : ~Left(v, s)
  BY QuietStep DEF Join
<1>2. UNCHANGED <<tenant, subscription, lockedBy, deletions>>
  BY DEF Join, ghostVars
<1>3. PICK t \in Rows(tenant) :
        people' = [people EXCEPT ![Fresh(people)] =
                       [tenant |-> t, owner |-> FALSE, member |-> "active", suspended |-> FALSE]]
  BY DEF Join
<1>4. PICK f \in Persons : f = Fresh(people) /\ ~Exists(people, f)
  BY DEF Join, CanInsert, Fresh, PlatformTypeOK
<1>5. \A p \in Persons : people'[p] =
        IF p = f THEN [tenant |-> t, owner |-> FALSE, member |-> "active", suspended |-> FALSE] ELSE people[p]
  BY <1>3, <1>4 DEF PlatformTypeOK
<1>6. DOMAIN people = Persons /\ DOMAIN people' = Persons
  BY DEF PlatformTypeOK
<1>7. people'[f].tenant = t /\ people'[f].member = "active" /\ people'[f].suspended = FALSE
  BY <1>5
<1>8. ASSUME NEW u \in Tenants, deletions'[u] = 0 PROVE Unlocked(u)'
  <2>1. Unlocked(u)
    BY <1>2, <1>8 DEF Locked
  <2>2. CASE u # t
    <3>1. \A p \in PeopleOf(u)' : p \in PeopleOf(u) /\ people'[p] = people[p]
      BY <1>5, <1>6, <1>7, <2>2 DEF PeopleOf, Rows, Exists
    <3>2. \A s \in OpeningSteps : Reopens(u, s) => Reopens(u, s)'
      BY <1>1, NoOpening
    <3> QED BY <1>2, <2>1, <3>1, <3>2, UnlockedStays
  <2>3. CASE u = t
    <3>1. \A p \in PeopleOf(t)' : p = f \/ (p \in PeopleOf(t) /\ people'[p] = people[p])
      BY <1>5, <1>6 DEF PeopleOf, Rows, Exists
    <3>2. Exists(tenant, t) /\ \A s : ~Reopens(t, s)
      BY <1>1, NoOpening DEF Rows
    <3>3. Exists(tenant, t)' /\ tenant'[t] = tenant[t] /\ lockedBy'[t] = lockedBy[t]
      BY <1>2, <3>2 DEF Exists
    <3>4. /\ "tenant" \notin lockedBy[t] => \A p \in PeopleOf(t)' : ~people'[p].suspended
          /\ lockedBy[t] = {} => \A p \in PeopleOf(t)' : people'[p].member # "inactive"
          /\ \A p \in PeopleOf(t)' : people'[p].member # "none"
      BY <1>7, <2>1, <2>3, <3>1, <3>2 DEF Unlocked
    <3>5. /\ "subscription" \notin lockedBy[t] => tenant[t].status = "active"
          /\ "tenant" \notin lockedBy[t] => tenant[t].business = "open"
          /\ tenant[t].business # "gone"
      BY <2>1, <2>3, <3>2 DEF Unlocked
    <3> QED BY <2>3, <3>3, <3>4, <3>5 DEF Unlocked
  <2> QED BY <2>2, <2>3
<1>9. \A u \in Tenants : Exists(subscription, u)' => Exists(tenant, u)'
  BY <1>2 DEF Locked, Exists
<1> QED BY <1>1, <1>8, <1>9, LockedWith

(* Whoever locks holds the lock; whoever lets in is about to open. *)
LEMMA LockedLocks ==
  ASSUME JobsShape, PlatformTypeOK, PlatformTypeOK', Locked, PlatformAssumption,
         NEW w \in Workers, LockOut(w) \/ LetIn(w), Unmarred'
  PROVE  Locked'
<1>1. /\ Starts(w) /\ job'[w] \in CancelJob \cup SuspendJob /\ job'[w].tenant \in Rows(subscription)
      /\ Acts(w) /\ job'[w] \in PlatformJob /\ job'[w] \in SavingJob
  BY LockOutStarts, LetInStarts DEF Starts, SavingJob
<1>2. PICK t \in Tenants : t = job'[w].tenant
  BY <1>1 DEF Rows, PlatformTypeOK
<1>3. UNCHANGED <<tenant, people, subscription, deletions>>
  BY DEF LockOut, LetIn, rowVars
<1>4. \A v \in Workers : \A s : ~Left(v, s)
  BY <1>1, OnlyOne, IdleHasNothing DEF Starts
<1>5. \A u, s : ~Reopens(u, s)
  BY <1>4, NoOpening
<1>6. Exists(tenant, t) /\ Exists(tenant, t)'
  BY <1>1, <1>2, <1>3 DEF Locked, Rows, Exists
<1>7. \A u \in Tenants \ {t} : lockedBy'[u] = lockedBy[u]
  BY <1>1, <1>2, LockOutStarts, LetInStarts DEF PlatformTypeOK
<1>8. \A u : PeopleOf(u)' = PeopleOf(u)
  BY <1>3 DEF PeopleOf, Rows, Exists
<1>9. ASSUME Unlocked(t) PROVE Unlocked(t)'
  <2>1. /\ "subscription" \notin lockedBy[t] => tenant[t].status = "active"
        /\ "tenant" \notin lockedBy[t] => tenant[t].business = "open" /\ \A p \in PeopleOf(t) : ~people[p].suspended
        /\ lockedBy[t] = {} => \A p \in PeopleOf(t) : people[p].member # "inactive"
        /\ tenant[t].business # "gone" /\ \A p \in PeopleOf(t) : people[p].member # "none"
    BY <1>5, <1>6, <1>9 DEF Unlocked
  <2>2. CASE LockOut(w)
    <3>1. lockedBy[t] \subseteq lockedBy'[t]
      BY <1>2, <2>2, LockOutStarts DEF PlatformTypeOK
    <3>2. /\ "subscription" \notin lockedBy'[t] => tenant'[t].status = "active"
          /\ "tenant" \notin lockedBy'[t] => tenant'[t].business = "open" /\ \A p \in PeopleOf(t)' : ~people'[p].suspended
          /\ lockedBy'[t] = {} => \A p \in PeopleOf(t)' : people'[p].member # "inactive"
          /\ tenant'[t].business # "gone" /\ \A p \in PeopleOf(t)' : people'[p].member # "none"
      BY <1>3, <1>8, <2>1, <3>1
    <3> QED BY <1>6, <3>2 DEF Unlocked
  <2>3. CASE LetIn(w)
    <3>1. /\ job'[w].op \in DOMAIN Unlock /\ lockedBy'[t] = lockedBy[t] \ {Way(job'[w].op)}
          /\ Left(w, "members")'
          /\ Way(job'[w].op) = "tenant" => Left(w, "business")' /\ Left(w, "users")'
          /\ Way(job'[w].op) = "subscription" => Left(w, "tenantStatus")'
      BY <1>2, <2>3, LetInStarts DEF PlatformTypeOK
    <3>2. /\ Reopens(t, "members")'
          /\ Way(job'[w].op) = "tenant" => Reopens(t, "business")' /\ Reopens(t, "users")'
          /\ Way(job'[w].op) = "subscription" => Reopens(t, "tenantStatus")'
      BY <1>2, <3>1 DEF Reopens, Opens
    <3>3. Way(job'[w].op) \in {"tenant", "subscription"}
      BY DEF Way
    <3>4. /\ "subscription" \notin lockedBy'[t] => tenant'[t].status = "active" \/ Reopens(t, "tenantStatus")'
          /\ "tenant" \notin lockedBy'[t] => tenant'[t].business = "open" \/ Reopens(t, "business")'
          /\ "tenant" \notin lockedBy'[t] => Reopens(t, "users")' \/ \A p \in PeopleOf(t)' : ~people'[p].suspended
          /\ tenant'[t].business # "gone" /\ \A p \in PeopleOf(t)' : people'[p].member # "none"
      BY <1>3, <1>8, <2>1, <3>1, <3>2, <3>3
    <3> QED BY <1>6, <3>2, <3>4 DEF Unlocked
  <2> QED BY <2>2, <2>3
<1>10. ASSUME NEW u \in Tenants, deletions'[u] = 0 PROVE Unlocked(u)'
  <2>1. Unlocked(u)
    BY <1>3, <1>10 DEF Locked
  <2>2. CASE u # t
    <3>1. \A p \in PeopleOf(u)' : p \in PeopleOf(u) /\ people'[p] = people[p]
      BY <1>3, <1>8
    <3> QED BY <1>3, <1>5, <1>7, <2>1, <2>2, <3>1, UnlockedStays
  <2> QED BY <1>9, <2>1, <2>2
<1>11. \A u \in Tenants : Exists(subscription, u)' => Exists(tenant, u)'
  BY <1>3 DEF Locked, Exists
<1>12. LockHeld(w)'
  <2>1. job'[w].op \in DOMAIN Lock => Way(job'[w].op) \in lockedBy'[job'[w].tenant]
    <3>1. CASE LockOut(w)
      <4>1. lockedBy' = [lockedBy EXCEPT ![t] = @ \cup {Way(job'[w].op)}]
        BY <1>2, <3>1, LockOutStarts
      <4> QED BY <1>2, <4>1 DEF PlatformTypeOK
    <3>2. CASE LetIn(w)
      <4>1. job'[w].op \in DOMAIN Unlock
        BY <3>2, LetInStarts
      <4> QED BY <4>1, LockDomains
    <3> QED BY <3>1, <3>2
  <2>2. Exists(tenant, job[w].tenant)'
    BY <1>2, <1>6 DEF Exists
  <2> QED BY <1>1, <2>1, <2>2, HoldsTenant
<1> QED BY <1>1, <1>10, <1>11, <1>12, LockedWith

(* A step that writes the rows of one tenant only. *)
LEMMA LockedBut ==
  ASSUME JobsTyped, Locked, NEW w \in Workers, NEW s, Popped(w, s), Unmarred', NEW t, t = job[w].tenant,
         UNCHANGED <<subscription, people, lockedBy, deletions>>,
         \A u \in Tenants \ {t} : tenant'[u] = tenant[u],
         \A u \in Tenants : Exists(tenant, u) => Exists(tenant, u)',
         deletions[t] = 0 /\ Unlocked(t) => Unlocked(t)'
  PROVE  Locked'
<1>1. Acts(w) /\ LockHeld(w)'
  BY LockHeldKept DEF Popped
<1>2. ASSUME NEW u \in Tenants \ {t}, NEW r, Reopens(u, r) PROVE Reopens(u, r)'
  BY <1>2, OpensOwn
<1>3. ASSUME NEW u \in Tenants, deletions'[u] = 0 PROVE Unlocked(u)'
  <2>1. Unlocked(u)
    BY <1>3 DEF Locked
  <2>2. CASE u # t
    <3>1. \A p \in PeopleOf(u)' : p \in PeopleOf(u) /\ people'[p] = people[p]
      BY DEF PeopleOf, Rows, Exists
    <3> QED BY <1>2, <2>1, <2>2, <3>1, UnlockedStays
  <2> QED BY <1>3, <2>1, <2>2
<1>4. \A u \in Tenants : Exists(subscription, u)' => Exists(tenant, u)'
  BY DEF Locked, Exists
<1> QED BY <1>1, <1>3, <1>4, LockedWith

LEMMA LockedButPeople ==
  ASSUME JobsTyped, Locked, NEW w \in Workers, NEW s, Popped(w, s), Unmarred', NEW t, t = job[w].tenant,
         UNCHANGED <<subscription, tenant, lockedBy, deletions>>,
         \A u \in Tenants \ {t} : \A p \in PeopleOf(u)' : p \in PeopleOf(u) /\ people'[p] = people[p],
         deletions[t] = 0 /\ Unlocked(t) => Unlocked(t)'
  PROVE  Locked'
<1>1. Acts(w) /\ LockHeld(w)'
  <2>1. \A u \in Tenants : Exists(tenant, u) => Exists(tenant, u)'
    BY DEF Exists
  <2> QED BY <2>1, LockHeldKept DEF Popped
<1>2. ASSUME NEW u \in Tenants \ {t}, NEW r, Reopens(u, r) PROVE Reopens(u, r)'
  BY <1>2, OpensOwn
<1>3. ASSUME NEW u \in Tenants, deletions'[u] = 0 PROVE Unlocked(u)'
  <2>1. Unlocked(u)
    BY <1>3 DEF Locked
  <2>2. CASE u # t
    BY <1>2, <2>1, <2>2, UnlockedStays
  <2> QED BY <1>3, <2>1, <2>2
<1>4. \A u \in Tenants : Exists(subscription, u)' => Exists(tenant, u)'
  BY DEF Locked, Exists
<1> QED BY <1>1, <1>3, <1>4, LockedWith

(* The commits that lock and open. *)
LEMMA LockingTells ==
  ASSUME JobsTyped, Locked, NEW w \in Workers, NEW s \in OpeningSteps, Popped(w, s)
  PROVE  /\ job[w] \in CancelJob \cup SuspendJob /\ job[w].tenant \in Tenants /\ Exists(tenant, job[w].tenant)
         /\ s = "tenantStatus" => job[w] \in CancelJob
         /\ s \in {"business", "users"} => job[w] \in SuspendJob
         /\ ~Opens(w) => /\ lockedBy[job[w].tenant] # {}
                         /\ s = "tenantStatus" => "subscription" \in lockedBy[job[w].tenant]
                         /\ s \in {"business", "users"} => "tenant" \in lockedBy[job[w].tenant]
<1>1. Left(w, s) /\ job[w] \in PlatformJob /\ ~Free(w)
  BY DEF Popped
<1>2. /\ job[w] \in CancelJob \cup SuspendJob
      /\ s = "tenantStatus" => job[w] \in CancelJob
      /\ s \in {"business", "users"} => job[w] \in SuspendJob
  BY <1>1, StepTells DEF OpeningSteps
<1>3. job[w] \in SavingJob /\ job[w].tenant \in Tenants /\ LockHeld(w)
  BY <1>1, <1>2, JobFields DEF SavingJob, Locked
<1>4. Exists(tenant, job[w].tenant)
  BY <1>3 DEF LockHeld
<1>5. ASSUME ~Opens(w) PROVE Way(job[w].op) \in lockedBy[job[w].tenant]
  <2>1. job[w].op \in DOMAIN Lock
    BY <1>1, <1>2, <1>5, Kinds, LockDomains DEF Opens
  <2> QED BY <1>3, <2>1 DEF LockHeld
<1>6. (job[w] \in CancelJob => Way(job[w].op) = "subscription") /\ (job[w] \in SuspendJob => Way(job[w].op) = "tenant")
  BY <1>1, Kinds DEF Way
<1> QED BY <1>2, <1>3, <1>4, <1>5, <1>6

LEMMA LockedTenant ==
  ASSUME JobsShape, PlatformTypeOK, PlatformTypeOK', JobsTyped, JobsTyped', Locked,
         NEW w \in Workers, SetTenantStatus(w) \/ SetBusiness(w), Unmarred'
  PROVE  Locked'
<1>1. PICK s \in {"tenantStatus", "business"} :
        Popped(w, s) /\ (s = "tenantStatus" => SetTenantStatus(w)) /\ (s = "business" => SetBusiness(w))
  BY Pops
<1>2. /\ Acts(w) /\ job[w].tenant \in Tenants /\ Exists(tenant, job[w].tenant)
      /\ ~Opens(w) /\ s = "tenantStatus" => "subscription" \in lockedBy[job[w].tenant]
      /\ ~Opens(w) /\ s = "business" => "tenant" \in lockedBy[job[w].tenant]
  BY <1>1, LockingTells DEF OpeningSteps, Popped
<1>3. PICK t \in Tenants : t = job[w].tenant
  BY <1>2
<1>4. tenant[t] \in Tenant
  BY <1>2, <1>3 DEF PlatformTypeOK, Exists
<1>5. UNCHANGED <<subscription, people, lockedBy, deletions>>
  BY DEF SetTenantStatus, SetBusiness, ghostVars
<1>6. \A u \in Tenants \ {t} : tenant'[u] = tenant[u]
  BY <1>3 DEF SetTenantStatus, SetBusiness, PlatformTypeOK
<1>7. CASE s = "tenantStatus"
  <2>1. tenant'[t] = [tenant[t] EXCEPT !.status = IF Opens(w) THEN "active" ELSE "suspended"]
    BY <1>1, <1>3, <1>7 DEF SetTenantStatus, PlatformTypeOK
  <2>2. tenant'[t].business = tenant[t].business /\ (Opens(w) => tenant'[t].status = "active") /\ tenant'[t] \in Tenant
    BY <1>4, <2>1 DEF Tenant
  <2>3. Exists(tenant, t)'
    BY <2>2 DEF Exists, Tenant, Absent
  <2>4. \A r \in {"business", "members", "users"} : Reopens(t, r) => Reopens(t, r)'
    BY <1>1, <1>7, OpeningKept
  <2>5. ASSUME Unlocked(t) PROVE Unlocked(t)'
    <3>1. /\ "subscription" \notin lockedBy'[t] => tenant'[t].status = "active"
          /\ "tenant" \notin lockedBy'[t] => tenant'[t].business = "open" \/ Reopens(t, "business")'
          /\ tenant'[t].business # "gone"
      BY <1>2, <1>3, <1>5, <1>7, <2>2, <2>4, <2>5 DEF Unlocked
    <3>2. \A p \in PeopleOf(t)' : p \in PeopleOf(t) /\ people'[p] = people[p]
      BY <1>5 DEF PeopleOf, Rows, Exists
    <3>3. /\ "tenant" \notin lockedBy'[t] => Reopens(t, "users")' \/ \A p \in PeopleOf(t)' : ~people'[p].suspended
          /\ lockedBy'[t] = {} => Reopens(t, "members")' \/ \A p \in PeopleOf(t)' : people'[p].member # "inactive"
          /\ \A p \in PeopleOf(t)' : people'[p].member # "none"
      BY <1>5, <2>4, <2>5, <3>2 DEF Unlocked
    <3> QED BY <2>3, <3>1, <3>3 DEF Unlocked
  <2>6. \A u \in Tenants : Exists(tenant, u) => Exists(tenant, u)'
    BY <1>6, <2>3 DEF Exists
  <2> QED BY <1>1, <1>3, <1>5, <1>6, <2>5, <2>6, LockedBut
<1>8. CASE s = "business"
  <2>1. tenant'[t] = [tenant[t] EXCEPT !.business =
                        CASE @ = "gone" -> @ [] Opens(w) -> "open" [] OTHER -> "suspended"]
    BY <1>1, <1>3, <1>8 DEF SetBusiness, PlatformTypeOK
  <2>2. tenant[t].business # "gone" =>
          /\ tenant'[t].status = tenant[t].status /\ tenant'[t].business # "gone"
          /\ Opens(w) => tenant'[t].business = "open"
    <3> SUFFICES ASSUME tenant[t].business # "gone"
                 PROVE  /\ tenant'[t].status = tenant[t].status /\ tenant'[t].business # "gone"
                        /\ Opens(w) => tenant'[t].business = "open"
      OBVIOUS
    <3>1. CASE Opens(w)
      <4>1. tenant'[t] = [tenant[t] EXCEPT !.business = "open"]
        BY <2>1, <3>1
      <4> QED BY <1>4, <4>1 DEF Tenant
    <3>2. CASE ~Opens(w)
      <4>1. tenant'[t] = [tenant[t] EXCEPT !.business = "suspended"]
        BY <2>1, <3>2
      <4> QED BY <1>4, <3>2, <4>1 DEF Tenant
    <3> QED BY <3>1, <3>2
  <2>3. Exists(tenant, t)'
    <3>1. tenant'[t].status = tenant[t].status
      BY <1>4, <2>1 DEF Tenant
    <3> QED BY <1>4, <3>1 DEF Exists, Tenant, Absent
  <2>4. \A r \in {"tenantStatus", "members", "users"} : Reopens(t, r) => Reopens(t, r)'
    BY <1>1, <1>8, OpeningKept
  <2>5. ASSUME Unlocked(t) PROVE Unlocked(t)'
    <3>0. tenant[t].business # "gone"
      BY <1>2, <1>3, <2>5 DEF Unlocked
    <3>1. /\ "subscription" \notin lockedBy'[t] => tenant'[t].status = "active" \/ Reopens(t, "tenantStatus")'
          /\ "tenant" \notin lockedBy'[t] => tenant'[t].business = "open"
          /\ tenant'[t].business # "gone"
      BY <1>2, <1>3, <1>5, <1>8, <2>2, <2>4, <2>5, <3>0 DEF Unlocked
    <3>2. \A p \in PeopleOf(t)' : p \in PeopleOf(t) /\ people'[p] = people[p]
      BY <1>5 DEF PeopleOf, Rows, Exists
    <3>3. /\ "tenant" \notin lockedBy'[t] => Reopens(t, "users")' \/ \A p \in PeopleOf(t)' : ~people'[p].suspended
          /\ lockedBy'[t] = {} => Reopens(t, "members")' \/ \A p \in PeopleOf(t)' : people'[p].member # "inactive"
          /\ \A p \in PeopleOf(t)' : people'[p].member # "none"
      BY <1>5, <2>4, <2>5, <3>2 DEF Unlocked
    <3> QED BY <2>3, <3>1, <3>3 DEF Unlocked
  <2>6. \A u \in Tenants : Exists(tenant, u) => Exists(tenant, u)'
    BY <1>6, <2>3 DEF Exists
  <2> QED BY <1>1, <1>3, <1>5, <1>6, <2>5, <2>6, LockedBut
<1> QED BY <1>1, <1>7, <1>8

LEMMA LockedPeople ==
  ASSUME JobsShape, PlatformTypeOK, PlatformTypeOK', JobsTyped, JobsTyped', Locked,
         NEW w \in Workers, SetMembers(w) \/ SetUsers(w), Unmarred'
  PROVE  Locked'
<1> USE DEF PeopleOf
<1>1. PICK s \in {"members", "users"} :
        Popped(w, s) /\ (s = "members" => SetMembers(w)) /\ (s = "users" => SetUsers(w))
  BY Pops
<1>2. /\ Acts(w) /\ job[w].tenant \in Tenants /\ Exists(tenant, job[w].tenant)
      /\ ~Opens(w) => lockedBy[job[w].tenant] # {}
      /\ ~Opens(w) /\ s = "users" => "tenant" \in lockedBy[job[w].tenant]
  BY <1>1, LockingTells DEF OpeningSteps, Popped
<1>3. PICK t \in Tenants : t = job[w].tenant
  BY <1>2
<1>4. UNCHANGED <<subscription, tenant, lockedBy, deletions>>
  BY DEF SetMembers, SetUsers, ghostVars
<1>5. DOMAIN people = Persons /\ DOMAIN people' = Persons
  BY DEF PlatformTypeOK
<1>6. \A u \in Tenants : \A p \in PeopleOf(u) : p \in Persons /\ people[p] \in Person /\ people[p].tenant = u
  BY DEF Rows, Exists, PlatformTypeOK
<1>7. \A p \in Persons : p \notin Members(t) => people'[p] = people[p]
  BY <1>1, <1>3 DEF SetMembers, SetUsers, Touched
<1>8. \A p \in Members(t) : p \in PeopleOf(t) /\ p \in Persons /\ people[p] \in Person
  BY <1>6 DEF Members
<1>9. CASE s = "members"
  <2>1. \A p \in Members(t) : people'[p] = [people[p] EXCEPT !.member = IF Opens(w) THEN "active" ELSE "inactive"]
    BY <1>1, <1>3, <1>8, <1>9 DEF SetMembers
  <2>2. ASSUME NEW p \in Members(t)
        PROVE  /\ people'[p].tenant = t /\ people'[p].suspended = people[p].suspended /\ people'[p].member # "none"
               /\ Opens(w) => people'[p].member = "active"
    <3>1. people[p] \in Person /\ people[p].tenant = t
      BY <1>6, <1>8, <2>2
    <3>2. CASE Opens(w)
      <4>1. people'[p] = [people[p] EXCEPT !.member = "active"]
        BY <2>1, <2>2, <3>2
      <4> QED BY <3>1, <4>1 DEF Person
    <3>3. CASE ~Opens(w)
      <4>1. people'[p] = [people[p] EXCEPT !.member = "inactive"]
        BY <2>1, <2>2, <3>3
      <4> QED BY <3>1, <3>3, <4>1 DEF Person
    <3> QED BY <3>2, <3>3
  <2>3. ASSUME NEW p \in PeopleOf(t)', Unlocked(t) PROVE p \in Members(t)
    <3>1. p \in Persons
      BY <1>5, <2>3 DEF Rows
    <3>2. CASE p \notin Members(t)
      <4>1. people'[p] = people[p]
        BY <1>7, <3>1, <3>2
      <4>2. p \in PeopleOf(t)
        BY <1>5, <2>3, <3>1, <4>1 DEF Rows, Exists
      <4> QED BY <2>3, <3>2, <4>2 DEF Unlocked, Members
    <3> QED BY <3>2
  <2>4. \A r \in {"tenantStatus", "business", "users"} : Reopens(t, r) => Reopens(t, r)'
    BY <1>1, <1>9, OpeningKept
  <2>5. ASSUME Unlocked(t) PROVE Unlocked(t)'
    <3>1. \A p \in PeopleOf(t)' : p \in PeopleOf(t) /\ people'[p].suspended = people[p].suspended
                                 /\ people'[p].member # "none" /\ (Opens(w) => people'[p].member = "active")
      BY <1>8, <2>2, <2>3, <2>5
    <3>2. /\ "tenant" \notin lockedBy'[t] => Reopens(t, "users")' \/ \A p \in PeopleOf(t)' : ~people'[p].suspended
          /\ \A p \in PeopleOf(t)' : people'[p].member # "none"
      BY <1>4, <2>4, <2>5, <3>1 DEF Unlocked
    <3>3. lockedBy'[t] = {} => \A p \in PeopleOf(t)' : people'[p].member # "inactive"
      BY <1>2, <1>3, <1>4, <3>1
    <3>4. /\ Exists(tenant, t)'
          /\ "subscription" \notin lockedBy'[t] => tenant'[t].status = "active" \/ Reopens(t, "tenantStatus")'
          /\ "tenant" \notin lockedBy'[t] => tenant'[t].business = "open" \/ Reopens(t, "business")'
          /\ tenant'[t].business # "gone"
      BY <1>2, <1>3, <1>4, <2>4, <2>5 DEF Unlocked, Exists
    <3> QED BY <3>2, <3>3, <3>4 DEF Unlocked
  <2>6. \A u \in Tenants \ {t} : \A p \in PeopleOf(u)' : p \in PeopleOf(u) /\ people'[p] = people[p]
    BY <1>5, <1>7, <2>2 DEF Rows, Exists
  <2> QED BY <1>1, <1>2, <1>3, <1>4, <1>9, <2>5, <2>6, LockedButPeople DEF OpeningSteps
<1>10. CASE s = "users"
  <2>1. \A p \in Members(t) : people'[p] = [people[p] EXCEPT !.suspended = ~Opens(w)]
    BY <1>1, <1>3, <1>8, <1>10 DEF SetUsers, Touched
  <2>2. ASSUME NEW p \in Members(t)
        PROVE  /\ people'[p].tenant = t /\ people'[p].member = people[p].member
               /\ Opens(w) => ~people'[p].suspended
    <3>1. people[p] \in Person /\ people[p].tenant = t
      BY <1>6, <1>8, <2>2
    <3>2. people'[p] = [people[p] EXCEPT !.suspended = ~Opens(w)]
      BY <2>1, <2>2
    <3> HIDE DEF Opens
    <3> QED BY <3>1, <3>2 DEF Person
  <2>3. ASSUME NEW p \in PeopleOf(t)', Unlocked(t) PROVE p \in Members(t)
    <3>1. p \in Persons
      BY <1>5, <2>3 DEF Rows
    <3>2. CASE p \notin Members(t)
      <4>1. people'[p] = people[p]
        BY <1>7, <3>1, <3>2
      <4>2. p \in PeopleOf(t)
        BY <1>5, <2>3, <3>1, <4>1 DEF Rows, Exists
      <4> QED BY <2>3, <3>2, <4>2 DEF Unlocked, Members
    <3> QED BY <3>2
  <2>4. \A r \in {"tenantStatus", "business", "members"} : Reopens(t, r) => Reopens(t, r)'
    BY <1>1, <1>10, OpeningKept
  <2>5. ASSUME Unlocked(t) PROVE Unlocked(t)'
    <3>1. \A p \in PeopleOf(t)' : p \in PeopleOf(t) /\ people'[p].member = people[p].member
                                 /\ (Opens(w) => ~people'[p].suspended)
      BY <1>8, <2>2, <2>3, <2>5
    <3>2. /\ lockedBy'[t] = {} => Reopens(t, "members")' \/ \A p \in PeopleOf(t)' : people'[p].member # "inactive"
          /\ \A p \in PeopleOf(t)' : people'[p].member # "none"
      BY <1>4, <2>4, <2>5, <3>1 DEF Unlocked
    <3>3. "tenant" \notin lockedBy'[t] => \A p \in PeopleOf(t)' : ~people'[p].suspended
      BY <1>2, <1>3, <1>4, <1>10, <3>1
    <3>4. /\ Exists(tenant, t)'
          /\ "subscription" \notin lockedBy'[t] => tenant'[t].status = "active" \/ Reopens(t, "tenantStatus")'
          /\ "tenant" \notin lockedBy'[t] => tenant'[t].business = "open" \/ Reopens(t, "business")'
          /\ tenant'[t].business # "gone"
      BY <1>2, <1>3, <1>4, <2>4, <2>5 DEF Unlocked, Exists
    <3> QED BY <3>2, <3>3, <3>4 DEF Unlocked
  <2>6. \A u \in Tenants \ {t} : \A p \in PeopleOf(u)' : p \in PeopleOf(u) /\ people'[p] = people[p]
    BY <1>5, <1>7, <2>2 DEF Rows, Exists
  <2> QED BY <1>1, <1>2, <1>3, <1>4, <1>10, <2>5, <2>6, LockedButPeople DEF OpeningSteps
<1> QED BY <1>1, <1>9, <1>10

(* A deletion writes the rows of a tenant that counts it. *)
LEMMA LockedDeletes ==
  ASSUME JobsShape, PlatformTypeOK, PlatformTypeOK', JobsTyped, JobsTyped', Locked, NEW w \in Workers,
         DeleteMembers(w) \/ DeleteUsers(w) \/ DeleteTenantBusiness(w) \/ DeleteRow(w), Unmarred'
  PROVE  Locked'
<1> USE DEF PlatformTypeOK
<1>1. PICK s \in DeleteSteps :
        /\ Delete(w, s)
        /\ (tenant' = tenant
            \/ (s = "deleteBusiness" /\ DeleteTenantBusiness(w))
            \/ (s = "deleteTenant" /\ tenant' = [tenant EXCEPT ![job[w].tenant] = Absent]))
  BY DEF DeleteMembers, DeleteUsers, DeleteTenantBusiness, DeleteRow, DeleteSteps
<1>2. /\ Popped(w, s) /\ ~Refused(w, s) /\ job[w] \in DeleteJob /\ job[w].tenant \in Tenants
      /\ ~Free(w) /\ Acts(w) /\ Left(w, s)
  BY <1>1, Pops, PoppedFields DEF Popped, DeleteSteps
<1>3. PICK t \in Tenants : t = job[w].tenant
  BY <1>2
<1>4. deletions[t] # 0 /\ (Left(w, "deleteBusiness") => Exists(tenant, t))
  BY <1>2, <1>3 DEF Locked, LockHeld
<1>5. UNCHANGED <<lockedBy, deletions>>
  BY DEF DeleteMembers, DeleteUsers, DeleteTenantBusiness, DeleteRow, ghostVars
<1>6. \A u \in Tenants \ {t} : tenant'[u] = tenant[u]
  BY <1>1, <1>3 DEF DeleteTenantBusiness
<1>7. \A u \in Tenants : Exists(subscription, u)' => Exists(subscription, u)
  <2>1. subscription' = subscription \/ subscription' = [subscription EXCEPT ![t] = Absent]
    BY <1>3 DEF DeleteMembers, DeleteUsers, DeleteTenantBusiness, DeleteRow
  <2> QED BY <2>1 DEF Exists
<1>8. s = "deleteTenant" \/ \A u \in Tenants : Exists(tenant, u) => Exists(tenant, u)'
  <2>1. CASE tenant' = tenant
    BY <2>1 DEF Exists
  <2>2. CASE s = "deleteBusiness" /\ DeleteTenantBusiness(w)
    <3>1. tenant[t] \in Tenant
      BY <1>2, <1>4, <2>2 DEF Exists
    <3>2. tenant'[t] = [tenant[t] EXCEPT !.business = "gone"]
      BY <1>3, <2>2 DEF DeleteTenantBusiness
    <3>3. tenant'[t].status \in {"active", "suspended"}
      BY <3>1, <3>2 DEF Tenant
    <3>4. Exists(tenant, t)'
      BY <3>3 DEF Exists, Absent
    <3> QED BY <1>6, <3>4 DEF Exists
  <2> QED BY <1>1, <2>1, <2>2
<1>9. LockHeld(w)'
  BY <1>2, <1>5, <1>8, LockHeldKept
<1>10. ASSUME NEW u \in Tenants, Exists(subscription, u)' PROVE Exists(tenant, u)'
  <2>1. Exists(tenant, u)
    BY <1>7, <1>10 DEF Locked
  <2>2. CASE s = "deleteTenant" /\ u = t
    <3>1. ~Exists(subscription, t)
      BY <1>2, <1>3, <2>2 DEF Refused
    <3> QED BY <1>7, <1>10, <2>2, <3>1
  <2>3. CASE u # t
    BY <1>6, <2>1, <2>3 DEF Exists
  <2> QED BY <1>8, <2>1, <2>2, <2>3
<1>11. ASSUME NEW u \in Tenants, u # t, NEW p \in PeopleOf(u)' PROVE p \in PeopleOf(u) /\ people'[p] = people[p]
  <2>1. p \in Persons /\ people'[p] # Absent /\ people'[p].tenant = u
    BY <1>11 DEF PeopleOf, Rows, Exists
  <2>2. CASE DeleteMembers(w)
    <3>1. CASE p \in Members(t)
      <4>1. people[p] \in Person /\ people[p].tenant = t
        BY <2>1, <3>1 DEF Members, Rows, Exists
      <4>2. people'[p] = [people[p] EXCEPT !.member = "none"]
        BY <1>3, <2>1, <2>2, <3>1 DEF DeleteMembers
      <4>3. people'[p].tenant = t
        BY <4>1, <4>2 DEF Person
      <4> QED BY <1>11, <2>1, <4>3
    <3>2. CASE p \notin Members(t)
      BY <1>3, <2>1, <2>2, <3>2 DEF DeleteMembers, PeopleOf, Rows, Exists
    <3> QED BY <3>1, <3>2
  <2>3. CASE DeleteUsers(w)
    <3>1. people'[p] = people[p]
      BY <2>1, <2>3 DEF DeleteUsers
    <3> QED BY <2>1, <3>1 DEF PeopleOf, Rows, Exists
  <2>4. CASE DeleteTenantBusiness(w) \/ DeleteRow(w)
    <3>1. people' = people
      BY <2>4 DEF DeleteTenantBusiness, DeleteRow
    <3> QED BY <1>11, <3>1 DEF PeopleOf, Rows, Exists
  <2> QED BY <2>2, <2>3, <2>4
<1>12. ASSUME NEW u \in Tenants, deletions'[u] = 0 PROVE Unlocked(u)'
  <2>1. u # t /\ Unlocked(u)
    BY <1>4, <1>5, <1>12 DEF Locked
  <2>2. \A r \in OpeningSteps : Reopens(u, r) => Reopens(u, r)'
    BY <1>2, <1>3, <2>1, OpensOwn
  <2>3. \A p \in PeopleOf(u)' : p \in PeopleOf(u) /\ people'[p] = people[p]
    BY <1>11, <2>1
  <2> QED BY <1>5, <1>6, <2>1, <2>2, <2>3, UnlockedStays
<1> QED BY <1>2, <1>9, <1>10, <1>12, LockedWith

LEMMA LockedDeletion ==
  ASSUME JobsShape, PlatformTypeOK, PlatformTypeOK', Locked, NEW w \in Workers, StartDeletion(w), Unmarred'
  PROVE  Locked'
<1>1. /\ Starts(w) /\ job'[w] \in DeleteJob /\ Acts(w) /\ job'[w] \in PlatformJob
      /\ deletions' = [deletions EXCEPT ![job'[w].tenant] = @ + 1]
  BY DeletionStarts DEF Starts
<1>2. PICK t \in Tenants : t = job'[w].tenant /\ Exists(tenant, t)
  <2>1. PICK u \in Rows(tenant), x \in Rows(exports) :
          Begin(w, [op |-> "delete", tenant |-> u, todo |-> DeletionSteps, token |-> x, users |-> Members(u)])
    BY DEF StartDeletion
  <2>2. job'[w] = [op |-> "delete", tenant |-> u, todo |-> DeletionSteps, token |-> x, users |-> Members(u)]
    BY <2>1 DEF Begin, JobsShape
  <2>3. job'[w].tenant = u
    BY <2>2
  <2> QED BY <2>3 DEF Rows, PlatformTypeOK
<1>3. UNCHANGED <<tenant, people, subscription, lockedBy>>
  BY DEF StartDeletion, rowVars
<1>4. /\ deletions'[t] = deletions[t] + 1 /\ deletions[t] \in Nat
      /\ \A u \in Tenants \ {t} : deletions'[u] = deletions[u]
  BY <1>1, <1>2 DEF PlatformTypeOK
<1>5. \A u \in Tenants : deletions'[u] = 0 => deletions[u] = 0
  BY <1>4
<1>6. \A u \in Tenants : \A s \in OpeningSteps : Reopens(u, s) => Reopens(u, s)'
  <2>1. \A v \in Workers : \A s : ~Left(v, s)
    BY <1>1, OnlyOne, IdleHasNothing DEF Starts
  <2> QED BY <2>1, NoOpening
<1>7. LockHeld(w)'
  <2>1. job'[w] \notin RegisterJob \cup SavingJob /\ job'[w] \notin MorningJob
    BY <1>1, JobFields, Pays, Kinds
  <2>2. job'[w].op \notin DOMAIN Lock
    BY <1>1, NotLocking
  <2>3. deletions'[job'[w].tenant] # 0 /\ Exists(tenant, job[w].tenant)'
    <3>1. deletions'[t] # 0
      BY <1>4
    <3> QED BY <1>2, <1>3, <3>1 DEF Exists
  <2> QED BY <2>1, <2>2, <2>3 DEF LockHeld
<1>8. \A u \in Tenants : Exists(subscription, u)' => Exists(tenant, u)
  BY <1>3 DEF Locked, Exists
<1> QED BY <1>1, <1>3, <1>5, <1>6, <1>7, <1>8, LockedStays

LEMMA LockedMorning ==
  ASSUME JobsShape, PlatformTypeOK, PlatformTypeOK', JobsTyped, JobsTyped', Locked, NEW w \in Workers,
         StartMorning(w) \/ MorningEntry(w), Unmarred'
  PROVE  Locked'
<1> USE DEF Fallen
<1>1. UNCHANGED <<tenant, people, lockedBy, deletions>>
  BY DEF StartMorning, MorningEntry, rowVars, ghostVars
<1>2. CASE StartMorning(w)
  <2>1. /\ Starts(w) /\ job'[w] \in MorningJob /\ job'[w].list = JobFinds(duty) /\ Acts(w) /\ job'[w] \in PlatformJob
        /\ JobFinds(duty) \subseteq Rows(subscription)
    BY <1>2, MorningStarts DEF Starts
  <2>2. UNCHANGED subscription
    BY <1>2 DEF StartMorning, rowVars
  <2>3. \A u \in Tenants : \A s \in OpeningSteps : Reopens(u, s) => Reopens(u, s)'
    <3>1. \A v \in Workers : \A s : ~Left(v, s)
      BY <2>1, OnlyOne, IdleHasNothing DEF Starts
    <3> QED BY <3>1, NoOpening
  <2>4. \A u \in Tenants : Exists(subscription, u)' => Exists(tenant, u)
    BY <2>2 DEF Locked, Exists
  <2>5. \A u \in Rows(subscription) : Exists(tenant, u)'
    BY <1>1 DEF Locked, Rows, Exists, PlatformTypeOK
  <2>6. LockHeld(w)'
    <3>1. job'[w] \notin RegisterJob \cup SavingJob /\ job'[w] \notin DeleteJob
      BY <2>1, Pays, JobFields
    <3>2. job'[w].op \notin DOMAIN Lock
      BY <2>1, NotLocking
    <3> QED BY <2>1, <2>5, <3>1, <3>2 DEF LockHeld
  <2> QED BY <1>1, <2>1, <2>3, <2>4, <2>6, LockedStays
<1>3. CASE MorningEntry(w)
  <2>1. /\ Acts(w) /\ ~Free(w) /\ job[w] \in MorningJob /\ job'[w] \in MorningJob
        /\ job[w] \in PlatformJob /\ job'[w] \in PlatformJob
        /\ \A s : Left(w, s) => s = "list"
    <3>1. Acts(w) /\ ~Free(w) /\ ~Free(w)' /\ job[w] \in MorningJob /\ job'[w] \in MorningJob
      BY <1>3, EntrySteps
    <3>2. job[w].todo \in Seq({"list"})
      BY <3>1 DEF MorningJob
    <3>3. \A s : Left(w, s) => s \in {"list"}
      BY <3>2, ListElements DEF Left
    <3> QED BY <3>1, <3>3 DEF JobsTyped
  <2>2. PICK t \in job[w].list :
              /\ job'[w].list = job[w].list \ {t}
              /\ subscription' = Fallen(w, t)
    BY <1>3, EntrySteps
  <2>3. \A u \in job[w].list : Exists(tenant, u)
    BY <2>1 DEF Locked, LockHeld
  <2>4. ASSUME NEW u \in Tenants, Exists(subscription, u)' PROVE Exists(tenant, u)
    <3>1. CASE u = t
      BY <2>2, <2>3, <3>1
    <3>2. CASE u # t
      <4>1. subscription'[u] = subscription[u]
        BY <2>2, <2>4, <3>2 DEF PlatformTypeOK
      <4> QED BY <2>4, <4>1 DEF Locked, Exists
    <3> QED BY <3>1, <3>2
  <2>5. \A u \in Tenants : \A s \in OpeningSteps : Reopens(u, s) => Reopens(u, s)'
    BY <2>1, OnlyOne DEF Reopens, OpeningSteps
  <2>6. LockHeld(w)'
    <3>1. job'[w] \notin RegisterJob \cup SavingJob /\ job'[w] \notin DeleteJob
      BY <2>1, Pays, JobFields
    <3>2. job'[w].op \notin DOMAIN Lock
      BY <2>1, NotLocking
    <3>3. \A u \in job'[w].list : Exists(tenant, u)'
      BY <1>1, <2>2, <2>3 DEF Exists
    <3> QED BY <3>1, <3>2, <3>3 DEF LockHeld
  <2> QED BY <1>1, <2>1, <2>4, <2>5, <2>6, LockedStays
<1> QED BY <1>2, <1>3

LEMMA LockedStep ==
  ASSUME JobsShape, PlatformTypeOK, PlatformTypeOK', JobsTyped, JobsTyped', PlatformAssumption, Billed, Locked,
         NEW w \in Workers, Handles(w), Unmarred'
  PROVE  Locked'
<1>1. CASE RegisterTenant(w) \/ Join(w)
  BY <1>1, LockedRegister, LockedJoin
<1>2. CASE LockOut(w) \/ LetIn(w)
  BY <1>2, LockedLocks
<1>3. CASE SetTenantStatus(w) \/ SetBusiness(w)
  BY <1>3, LockedTenant
<1>4. CASE SetMembers(w) \/ SetUsers(w)
  BY <1>4, LockedPeople
<1>5. CASE DeleteMembers(w) \/ DeleteUsers(w) \/ DeleteTenantBusiness(w) \/ DeleteRow(w)
  BY <1>5, LockedDeletes
<1>6. CASE StartDeletion(w)
  BY <1>6, LockedDeletion
<1>7. CASE StartMorning(w) \/ MorningEntry(w)
  BY <1>7, LockedMorning
<1>8. CASE \/ Review(w) \/ CreateIntent(w) \/ Export(w)
           \/ SwitchPlan(w) \/ OpenTicket(w) \/ UpdateTicket(w) \/ ReplyToTicket(w)
  <2>1. \E op : AtOnce(w, op)
    BY <1>8 DEF Review, CreateIntent, Export, SwitchPlan, OpenTicket, UpdateTicket, ReplyToTicket
  <2>2. UNCHANGED <<tenant, people, lockedBy, deletions, subscription>>
    BY <1>8 DEF Review, CreateIntent, Export, SwitchPlan, OpenTicket, UpdateTicket, ReplyToTicket, ghostVars
  <2> QED BY <2>1, <2>2, LockedQuiet
<1>9. CASE ConfirmPayment(w) \/ Webhook(w) \/ Judge(w)
  <2>1. /\ Starts(w) /\ job'[w] \in CardJob \cup SaveJob \cup JudgeJob /\ job'[w].tenant \in Rows(subscription)
        /\ UNCHANGED platformVars
    <3>1. CASE ConfirmPayment(w) \/ Webhook(w)
      BY <3>1, CardStarts
    <3>2. CASE Judge(w)
      <4>1. /\ Starts(w) /\ job'[w] \in JudgeJob /\ Exists(subscription, job'[w].tenant) /\ UNCHANGED platformVars
        BY <3>2, JudgeStarts DEF Billed
      <4>2. job'[w].tenant \in Tenants
        BY <4>1 DEF JudgeJob
      <4> QED BY <4>1, <4>2 DEF Rows, PlatformTypeOK
    <3> QED BY <1>9, <3>1, <3>2
  <2>2. UNCHANGED <<tenant, people, lockedBy, deletions, subscription>>
    BY <2>1 DEF platformVars, rowVars, ghostVars
  <2> QED BY <2>1, <2>2, LockedStarts
<1>10. CASE SubmitPayment(w) \/ SetByHand(w)
  <2>1. Starts(w) /\ job'[w] \in CardJob \cup SaveJob \cup JudgeJob /\ job'[w].tenant \in Rows(subscription)
    BY <1>10, SubmitStarts, HandStarts
  <2>2. UNCHANGED <<tenant, people, lockedBy, deletions, subscription>>
    BY <1>10 DEF SubmitPayment, SetByHand, rowVars, ghostVars
  <2> QED BY <2>1, <2>2, LockedStarts
<1>11. CASE AskApproval(w) \/ CardPayment(w) \/ SaveVerdict(w) \/ SpendExport(w) \/ EndMorning(w)
  <2>1. PICK s \in {"approval", "cardPayment", "verdict", "spend", "list"} : Popped(w, s)
    BY <1>11, Pops
  <2>2. UNCHANGED <<tenant, people, lockedBy, deletions, subscription>>
    BY <1>11 DEF AskApproval, CardPayment, SaveVerdict, SpendExport, EndMorning, ghostVars, rowVars, platformVars
  <2>3. \A t \in Tenants : Exists(subscription, t)' => Exists(tenant, t)
    BY <2>2 DEF Locked, Exists
  <2> QED BY <2>1, <2>2, <2>3, LockedPops DEF OpeningSteps
<1>12. CASE FirstSubscription(w) \/ SaveSubscription(w)
  <2>1. PICK s \in {"firstSubscription", "subscription"} : Popped(w, s)
    BY <1>12, Pops
  <2>2. UNCHANGED <<tenant, people, lockedBy, deletions>>
    BY <1>12 DEF FirstSubscription, SaveSubscription, ghostVars
  <2>3. PICK t \in Tenants : t = job[w].tenant /\ Exists(tenant, t)
    <3>1. job[w] \in RegisterJob \cup SavingJob /\ job[w].tenant \in Tenants /\ LockHeld(w)
      BY <2>1, PoppedFields DEF Popped, Locked
    <3>2. Exists(tenant, job[w].tenant)
      BY <3>1 DEF LockHeld
    <3> QED BY <3>1, <3>2
  <2>4. \A u \in Tenants \ {t} : subscription'[u] = subscription[u]
    BY <1>12, <2>3 DEF FirstSubscription, SaveSubscription, PlatformTypeOK
  <2>5. \A u \in Tenants : Exists(subscription, u)' => Exists(tenant, u)
    BY <2>3, <2>4 DEF Locked, Exists
  <2> QED BY <2>1, <2>2, <2>5, LockedPops DEF OpeningSteps
<1>13. CASE Done(w) \/ RefuseDeletion(w)
  <2>1. /\ Acts(w) /\ ~Free(w) /\ Free(w)' /\ UNCHANGED platformVars
        /\ \A s : Left(w, s) => job[w] \in DeleteJob
    BY <1>13, Ends
  <2>2. UNCHANGED <<tenant, people, lockedBy, deletions, subscription>>
    BY <2>1 DEF platformVars, rowVars, ghostVars
  <2>3. \A t \in Tenants : Exists(subscription, t)' => Exists(tenant, t)
    BY <2>2 DEF Locked, Exists
  <2>4. \A s \in OpeningSteps : ~Left(w, s)
    <3>1. job[w] \in PlatformJob
      BY <2>1 DEF JobsTyped
    <3>2. \A s \in OpeningSteps : Left(w, s) => job[w] \in CancelJob \cup SuspendJob
      BY StepTells DEF OpeningSteps
    <3> QED BY <2>1, <3>1, <3>2, Kinds
  <2>5. \A t \in Tenants : \A s \in OpeningSteps : Reopens(t, s) => Reopens(t, s)'
    BY <2>1, <2>4, OnlyOne DEF Reopens
  <2> QED BY <2>1, <2>2, <2>3, <2>5, LockedStays
<1> QED BY <1>1, <1>2, <1>3, <1>4, <1>5, <1>6, <1>7, <1>8, <1>9, <1>10, <1>11, <1>12, <1>13
        DEF Handles, Paying, Locking, Deleting

----
(* The steps that are no handler's. *)
LEMMA TypeSame ==
  ASSUME PlatformTypeOK, UNCHANGED platformVars
  PROVE  PlatformTypeOK'
BY DEF PlatformTypeOK, platformVars, rowVars, clockVars, ghostVars

LEMMA JobsTypedSame ==
  ASSUME JobsTyped, job' = job
  PROVE  JobsTyped'
BY DEF JobsTyped, Free

LEMMA BilledSame ==
  ASSUME Billed, UNCHANGED <<job, subscription, given, payments, intents>>
  PROVE  Billed'
BY DEF Billed, Covered, Owes, Paid, PaymentsOf, Priced, Left, Free, Rows, Exists

LEMMA SpentSame ==
  ASSUME Spent, UNCHANGED <<job, exports, exported, deletions>>
  PROVE  Spent'
BY DEF Spent, Spare, Todo, Free

LEMMA DawnSame ==
  ASSUME Dawn, UNCHANGED <<job, subscription, given, now, duty>>
  PROVE  Dawn'
BY DEF Dawn, FreeTrials, ToExpire, Left, Free, Rows, Exists

LEMMA LockedSame ==
  ASSUME Locked, UNCHANGED <<job, tenant, people, subscription, lockedBy, deletions>>
  PROVE  Locked'
<1>1. \A w : \A s : (Left(w, s)' <=> Left(w, s)) /\ (Free(w)' <=> Free(w))
  BY DEF Left, Free
<1>2. \A t, s : Reopens(t, s)' <=> Reopens(t, s)
  BY <1>1 DEF Reopens, Opens
<1>3. ASSUME NEW t, Unlocked(t) PROVE Unlocked(t)'
  <2>1. \A p \in PeopleOf(t)' : p \in PeopleOf(t) /\ people'[p] = people[p]
    BY DEF PeopleOf, Rows, Exists
  <2> QED BY <1>2, <1>3, <2>1, UnlockedStays
<1>4. \A w : LockHeld(w) => LockHeld(w)'
  BY <1>1 DEF LockHeld, Exists
<1>5. \A t \in Tenants : Exists(subscription, t)' => Exists(tenant, t)'
  BY DEF Locked, Exists
<1> QED BY <1>1, <1>3, <1>4, <1>5 DEF Locked

Sound == PlatformTypeOK /\ JobsTyped /\ Billed /\ Spent /\ Dawn /\ Locked
PlatformInv == JobsShape /\ (Unmarred => Sound)

LEMMA ChargeStep ==
  ASSUME Sound, NEW i \in Intents, Charge(i)
  PROVE  Sound'
<1> USE DEF Sound
<1>1. /\ UNCHANGED <<job, tenant, approval, subscription, plans, people, payments, exports, tickets>>
      /\ UNCHANGED <<now, duty, given, lockedBy, exported, deletions>>
  BY DEF Charge, jobVars, clockVars, ghostVars
<1>2. Exists(intents, i) /\ intents' = [intents EXCEPT ![i].status = "succeeded"]
  BY DEF Charge
<1>3. intents[i] \in Intent
  BY <1>2 DEF Exists, PlatformTypeOK
<1>4. intents'[i] \in Intent /\ intents'[i].status = "succeeded" /\ \A k \in Intents \ {i} : intents'[k] = intents[k]
  <2>1. intents'[i] = [intents[i] EXCEPT !.status = "succeeded"]
    BY <1>2 DEF PlatformTypeOK
  <2> QED BY <1>2, <1>3, <2>1 DEF PlatformTypeOK, Intent
<1>5. intents' \in [Intents -> Intent \cup {Absent}]
  BY <1>2, <1>4 DEF PlatformTypeOK
<1>6. PlatformTypeOK'
  BY <1>1, <1>5 DEF PlatformTypeOK
<1>7. JobsTyped'
  BY <1>1, JobsTypedSame
<1>8. Billed'
  <2>1. \A k \in Intents : intents[k].status = "succeeded" => intents'[k].status = "succeeded"
    BY <1>4
  <2>2. PaymentsStay /\ NewPayments /\ Rows(payments)' = Rows(payments)
    BY <1>1, <2>1 DEF PaymentsStay, NewPayments, Rows, Exists
  <2>3. \A v \in Workers : SameJobs(v)
    BY <1>1 DEF SameJobs, Left, Free
  <2> QED BY <1>1, <1>6, <1>7, <2>2, <2>3, NothingSaved, BilledStays
<1> QED BY <1>1, <1>6, <1>7, <1>8, SpentSame, DawnSame, LockedSame

LEMMA ExpireStep ==
  ASSUME Sound, PlatformAssumption, NEW x \in Exports, ExpireExport(x)
  PROVE  Sound'
<1> USE DEF Sound
<1>1. /\ UNCHANGED <<job, tenant, approval, subscription, plans, people, payments, intents, tickets>>
      /\ UNCHANGED <<now, duty, given, lockedBy, exported, deletions>>
  BY DEF ExpireExport, jobVars, clockVars, ghostVars
<1>2. Exists(exports, x) /\ exports' = [exports EXCEPT ![x].expired = TRUE]
  BY DEF ExpireExport
<1>3. exports[x] \in ExportToken
  BY <1>2 DEF Exists, PlatformTypeOK
<1>4. exports'[x] \in ExportToken /\ exports'[x].expired = TRUE /\ \A k \in Exports \ {x} : exports'[k] = exports[k]
  <2>1. exports'[x] = [exports[x] EXCEPT !.expired = TRUE]
    BY <1>2 DEF PlatformTypeOK
  <2> QED BY <1>2, <1>3, <2>1 DEF PlatformTypeOK, ExportToken
<1>5. exports' \in [Exports -> ExportToken \cup {Absent}]
  BY <1>2, <1>4 DEF PlatformTypeOK
<1>6. PlatformTypeOK'
  BY <1>1, <1>5 DEF PlatformTypeOK
<1>7. Spent'
  <2>1. \A w \in Workers : Todo(w, "spend")' <=> Todo(w, "spend")
    BY <1>1 DEF Todo, Free
  <2>2. \A t \in Tenants : Spare(t)' \subseteq Spare(t)
    BY <1>1, <1>4, <2>1 DEF Spare
  <2>3. \A t \in Tenants : deletions'[t] + Cardinality(Spare(t)') <= exported'[t]
    BY <1>1, <2>2, SparesShrink
  <2> QED BY <2>3 DEF Spent
<1> QED BY <1>1, <1>6, <1>7, JobsTypedSame, BilledSame, DawnSame, LockedSame

LEMMA TickStep ==
  ASSUME Sound, NextTick, Unmarred'
  PROVE  Sound'
<1> USE DEF Sound
<1>1. /\ UNCHANGED <<job, tenant, approval, subscription, plans, people, payments, intents, exports, tickets>>
      /\ UNCHANGED <<given, lockedBy, exported, deletions>>
  BY DEF NextTick, rowVars, ghostVars
<1>2. now' \in Nat /\ duty' \in {"none", "expire", "overdue"}
  BY DEF NextTick, PlatformTypeOK
<1>3. PlatformTypeOK'
  BY <1>1, <1>2 DEF PlatformTypeOK
<1> QED BY <1>1, <1>3, JobsTypedSame, BilledSame, SpentSame, LockedSame, DawnTicks

LEMMA SoundSame ==
  ASSUME Sound, job' = job, UNCHANGED platformVars
  PROVE  Sound'
<1> USE DEF Sound
<1>1. UNCHANGED <<tenant, people, subscription, payments, intents, exports, now, duty, given, lockedBy, exported, deletions>>
  BY DEF platformVars, rowVars, clockVars, ghostVars
<1> QED BY <1>1, TypeSame, JobsTypedSame, BilledSame, SpentSame, DawnSame, LockedSame

(* A handler's step. *)
LEMMA HandlesSound ==
  ASSUME JobsShape, Sound, PlatformAssumption, NEW w \in Workers, Handles(w), Unmarred'
  PROVE  Sound'
<1> USE DEF Sound
<1>1. PlatformTypeOK'
  BY TypeStep
<1>2. \A p \in Rows(payments) : Exists(subscription, payments[p].tenant)
  BY DEF Billed
<1>3. JobsTyped'
  BY <1>2, JobsTypedStep
<1> QED BY <1>1, <1>3, BilledStep, SpentStep, DawnStep, LockedStep

LEMMA PlatformStarts == PlatformInit => PlatformInv
<1> SUFFICES ASSUME PlatformInit PROVE PlatformInv
  OBVIOUS
<1>1. \A w \in Workers : Free(w)
  BY DEF PlatformInit, JobsInit, Free
<1>2. JobsShape
  BY <1>1 DEF PlatformInit, JobsInit, JobsShape, Free, Idle
<1>3. \A w \in Workers : \A s : ~Left(w, s) /\ ~Todo(w, s)
  BY <1>1, IdleHasNothing
<1>4. /\ \A t \in Tenants : ~Exists(tenant, t) /\ ~Exists(subscription, t)
      /\ Rows(subscription) = {} /\ Rows(payments) = {} /\ Rows(people) = {} /\ Rows(exports) = {}
  BY DEF PlatformInit, Rows, Exists
<1>5. PlatformTypeOK
  BY DEF PlatformInit, PlatformTypeOK
<1>6. JobsTyped
  BY <1>1 DEF JobsTyped
<1>7. Billed
  BY <1>3, <1>4 DEF Billed
<1>8. Spent
  <2> SUFFICES ASSUME NEW t \in Tenants PROVE deletions[t] + Cardinality(Spare(t)) <= exported[t]
    BY DEF Spent
  <2>1. Spare(t) = {}
    <3>1. [tenant |-> t, expired |-> FALSE] # Absent
      BY DEF Absent
    <3> QED BY <1>4, <3>1 DEF Spare, PlatformInit
  <2>2. Cardinality(Spare(t)) = 0
    BY <2>1, FS_EmptySet
  <2> QED BY <2>2 DEF PlatformInit
<1>9. Dawn
  BY <1>3, <1>4 DEF Dawn, FreeTrials, PlatformInit
<1>10. Locked
  BY <1>1, <1>4 DEF Locked, Unlocked, PeopleOf
<1> QED BY <1>2, <1>5, <1>6, <1>7, <1>8, <1>9, <1>10 DEF PlatformInv, Sound

LEMMA PlatformSteps ==
  ASSUME PlatformAssumption, PlatformInv, [PlatformNext]_<<jobVars, platformVars>>
  PROVE  PlatformInv'
<1> USE DEF PlatformInv
<1>1. ASSUME NEW w \in Workers, Handles(w) PROVE PlatformInv'
  <2>1. JobsShape' /\ Acts(w)
    BY <1>1, HandlesActs, ActsShape
  <2>2. ASSUME Unmarred' PROVE Sound'
    <3>1. Unmarred
      BY <2>1, <2>2, OnlyOne
    <3> QED BY <1>1, <2>2, <3>1, HandlesSound
  <2> QED BY <2>1, <2>2
<1>2. ASSUME NEW w \in Workers, Fail(w) PROVE PlatformInv'
  <2>1. Fails(w)
    BY <1>2, FailActs
  <2>2. JobsShape' /\ ~Unmarred'
    BY <2>1, ActsShape DEF Fails, Unmarred
  <2> QED BY <2>2
<1>3. ASSUME job' = job, marred' = marred, Unmarred => Sound' PROVE PlatformInv'
  <2>1. JobsShape'
    BY <1>3 DEF JobsShape, Free, OneByOne
  <2> QED BY <1>3, <2>1 DEF Unmarred
<1>4. ASSUME NEW i \in Intents, Charge(i) PROVE PlatformInv'
  <2>1. job' = job /\ marred' = marred
    BY <1>4 DEF Charge, jobVars
  <2>2. Unmarred => Sound'
    BY <1>4, ChargeStep
  <2> QED BY <1>3, <2>1, <2>2
<1>5. ASSUME NEW x \in Exports, ExpireExport(x) PROVE PlatformInv'
  <2>1. job' = job /\ marred' = marred
    BY <1>5 DEF ExpireExport, jobVars
  <2>2. Unmarred => Sound'
    BY <1>5, ExpireStep
  <2> QED BY <1>3, <2>1, <2>2
<1>6. ASSUME NextTick PROVE PlatformInv'
  <2>1. job' = job /\ marred \subseteq marred'
    BY <1>6 DEF NextTick
  <2>2. JobsShape'
    BY <2>1 DEF JobsShape, Free, OneByOne
  <2>3. ASSUME Unmarred' PROVE Sound'
    <3>1. Unmarred
      BY <2>1, <2>3 DEF Unmarred
    <3> QED BY <1>6, <2>3, <3>1, TickStep
  <2> QED BY <2>2, <2>3
<1>7. ASSUME UNCHANGED <<jobVars, platformVars>> PROVE PlatformInv'
  <2>1. job' = job /\ marred' = marred /\ UNCHANGED platformVars
    BY <1>7 DEF jobVars
  <2>2. Unmarred => Sound'
    BY <2>1, SoundSame
  <2> QED BY <1>3, <2>1, <2>2
<1>8. CASE PlatformNext
  <2>1. \/ \E w \in Workers : Handles(w) \/ Fail(w)
        \/ \E i \in Intents : Charge(i)
        \/ \E x \in Exports : ExpireExport(x)
        \/ NextTick
    BY <1>8 DEF PlatformNext, Handles
  <2> QED BY <1>1, <1>2, <1>4, <1>5, <1>6, <2>1
<1> QED BY <1>7, <1>8

LEMMA PlatformHolds == ASSUME PlatformAssumption PROVE PlatformSpec => []PlatformInv
BY PlatformStarts, PlatformSteps, PTL DEF PlatformSpec

----
LEMMA NothingLeft ==
  ASSUME Settled
  PROVE  Unmarred /\ \A v \in Workers : \A s : Free(v) /\ ~Left(v, s) /\ ~Todo(v, s)
BY IdleHasNothing DEF Settled, AllFree, Unmarred

(* ActiveIsPaidFor: whatever is left to pay, nobody is about to write it. *)
LEMMA PaidForNow == PlatformInv => ActiveIsPaidFor
<1> SUFFICES ASSUME PlatformInv, Settled, NEW t \in Rows(subscription) \ given,
                    subscription[t].status = "ACTIVE", subscription[t].plan # FreePlan
             PROVE  \E p \in PaymentsOf(t) :
                      /\ payments[p].status = "VERIFIED"
                      /\ payments[p].intent # "none" => intents[payments[p].intent].status = "succeeded"
  BY DEF ActiveIsPaidFor
<1>1. Billed
  BY NothingLeft DEF PlatformInv, Sound
<1>2. Covered(t)
  BY <1>1 DEF Billed, Priced
<1>3. Paid(t)
  BY <1>2, NothingLeft DEF Covered, Owes
<1>4. PICK p \in PaymentsOf(t) : payments[p].status = "VERIFIED"
  BY <1>3 DEF Paid
<1>5. payments[p].intent # "none" => intents[payments[p].intent].status = "succeeded"
  BY <1>1 DEF Billed, PaymentsOf
<1> QED BY <1>4, <1>5

LEMMA OpenedNow == PlatformInv => OpenedAsItWasLocked
<1> SUFFICES ASSUME PlatformInv, Settled, NEW t \in Rows(subscription), lockedBy[t] = {}, deletions[t] = 0,
                    subscription[t].status = "ACTIVE", approval[t].status = "APPROVED"
             PROVE  OpenTo(t)
  BY DEF OpenedAsItWasLocked
<1>1. Locked /\ PlatformTypeOK
  BY NothingLeft DEF PlatformInv, Sound
<1>2. t \in Tenants /\ Exists(subscription, t)
  BY <1>1 DEF Rows, PlatformTypeOK
<1>3. Unlocked(t) /\ Exists(tenant, t)
  BY <1>1, <1>2 DEF Locked
<1>4. \A s : ~Reopens(t, s)
  BY NothingLeft, NoOpening
<1>5. /\ tenant[t].status = "active" /\ tenant[t].business = "open"
      /\ \A p \in PeopleOf(t) : ~people[p].suspended /\ people[p].member # "inactive"
  BY <1>3, <1>4 DEF Unlocked
<1>6. tenant[t] = [status |-> "active", business |-> "open"]
  BY <1>1, <1>2, <1>3, <1>5 DEF PlatformTypeOK, Exists, Tenant
<1>7. CanLogin(t)
  BY <1>2 DEF CanLogin, Exists, Absent
<1>8. \A p \in Rows(people) : people[p].tenant = t => Admitted(p)
  BY <1>5 DEF PeopleOf, Admitted
<1> QED BY <1>6, <1>7, <1>8 DEF OpenTo

LEMMA AtDawnNow == PlatformInv => OverdueTrialsEndedAtDawn
<1> SUFFICES ASSUME PlatformInv, Settled PROVE OverdueTrialsEndedAtDawn
  BY DEF OverdueTrialsEndedAtDawn
<1>1. Dawn
  BY NothingLeft DEF PlatformInv, Sound
<1> QED BY <1>1 DEF Dawn, FreeTrials, OverdueTrialsEndedAtDawn

LEMMA ExportedNow == ASSUME PlatformAssumption PROVE PlatformInv => ExportedAnew
<1> SUFFICES ASSUME PlatformInv, Settled, NEW t \in Tenants PROVE deletions[t] <= exported[t]
  BY DEF ExportedAnew
<1>1. Spent /\ PlatformTypeOK
  BY NothingLeft DEF PlatformInv, Sound
<1>2. IsFiniteSet(Spare(t))
  BY FS_Subset DEF Spare, PlatformAssumption
<1>3. Cardinality(Spare(t)) \in Nat
  BY <1>2, FS_CardinalityType
<1>4. deletions[t] + Cardinality(Spare(t)) <= exported[t] /\ deletions[t] \in Nat /\ exported[t] \in Nat
  BY <1>1 DEF Spent, PlatformTypeOK
<1> QED BY <1>3, <1>4

(* ActiveIsPaidFor: an active subscription with a price that no
   administrator set by hand is paid for, whatever came from Stripe and
   from the bank in which order. *)
THEOREM ActiveAlwaysPaidFor == ASSUME PlatformAssumption PROVE PlatformSpec => []ActiveIsPaidFor
BY PlatformHolds, PaidForNow, PTL

(* OpenedAsItWasLocked: whoever was let in again in every way in which he
   was locked out finds everything open.  Where the counterpart of a lock
   is refused (the subscription is active again by then), it says nothing. *)
THEOREM AlwaysOpenedAsLocked == ASSUME PlatformAssumption PROVE PlatformSpec => []OpenedAsItWasLocked
BY PlatformHolds, OpenedNow, PTL

(* OverdueTrialsEndedAtDawn: a free trial is overdue only when it ended
   between the two morning jobs. *)
THEOREM OverdueTrialsAlwaysAtDawn == ASSUME PlatformAssumption PROVE PlatformSpec => []OverdueTrialsEndedAtDawn
BY PlatformHolds, AtDawnNow, PTL

(* ExportedAnew: no two deletions were begun with the same export. *)
THEOREM AlwaysExportedAnew == ASSUME PlatformAssumption PROVE PlatformSpec => []ExportedAnew
BY PlatformHolds, ExportedNow, PTL
=============================================================================
