-------------------------------- MODULE Members --------------------------------
(***************************************************************************)
(* Businesses and who works in them: the members with a role and six       *)
(* tables of permissions, the invitations that bring them in, the tax      *)
(* rates, and the guards that read all of it before a handler runs.  The   *)
(* role is kept twice: users.role is what RolesGuard reads, the role of    *)
(* the membership is what the other guards read.                           *)
(***************************************************************************)
EXTENDS Jobs, Routes

CONSTANTS
  People,        \* everyone with an email address
  Businesses, Rates, Invitations,    \* bound: the rows that can be inserted
  MaxJoined                          \* bound: how far the memberships of an invitation are counted

ASSUME MembersAssumption == MaxJoined \in Nat \ {0}

VARIABLES
  users, tenants,       \* the rows of users, by email, and of tenants, by owner, with their subscription
  businesses, members, rates, invitations,
  joined                \* per invitation, the memberships it has given

memberVars == <<users, tenants, businesses, members, rates, invitations, joined>>

User(role) == [status |-> "HERE", role |-> role, suspended |-> FALSE, verified |-> FALSE]
Member(role, permissions) == [status |-> "HERE", role |-> role, active |-> TRUE, permissions |-> permissions]
(* The status is the subscription's: NONE without one, PENDING until it is  *)
(* paid, SUSPENDED when cancelled too, ACTIVE in a trial and overdue too.   *)
Tenancy(status) == [status |-> status]
Business(owner) == [status |-> "HERE", tenant |-> owner]
Rate(b, default) == [status |-> "HERE", business |-> b, default |-> default]

MembersTypeOK ==
  /\ users \in [People -> {Absent} \cup
                  [status : {"HERE"}, role : Role, suspended : BOOLEAN, verified : BOOLEAN]]
  /\ tenants \in [People -> [status : {"ABSENT", "NONE", "PENDING", "ACTIVE", "EXPIRED", "SUSPENDED"}]]
  /\ businesses \in [Businesses -> {Absent} \cup [status : {"HERE"}, tenant : People]]
  /\ DOMAIN members = Businesses \X People
  /\ \A m \in Rows(members) : members[m].role \in MemberRole /\ members[m].active \in BOOLEAN
  /\ rates \in [Rates -> {Absent} \cup [status : {"HERE"}, business : Businesses, default : BOOLEAN]]
  /\ invitations \in [Invitations -> {Absent} \cup
                        [status : {"PENDING", "ACCEPTED", "REJECTED", "EXPIRED"}, late : BOOLEAN,
                         business : Businesses, email : People, role : InvitedRole]]
  /\ joined \in [Invitations -> 0 .. MaxJoined]

-----------------------------------------------------------------------------
(* The guards. *)
OwnsBusiness(p, b) ==
  users[p].role = "BUSINESS_OWNER" /\ Exists(tenants, p) /\ Exists(businesses, b) /\ businesses[b].tenant = p
ActiveMember(p, b) == Exists(members, <<b, p>>) /\ members[<<b, p>>].active
BusinessesOf(owner) == {b \in Rows(businesses) : businesses[b].tenant = owner}
Memberships(p) == {b \in Businesses : ActiveMember(p, b)}

HasAccess(p, b) ==
  /\ Exists(users, p)
  /\ CASE users[p].role = "PLATFORM_ADMIN" -> TRUE
       [] users[p].role = "BUSINESS_OWNER" /\ Exists(tenants, p) -> OwnsBusiness(p, b)
       [] OTHER -> ActiveMember(p, b)

GetUserBusinesses(p) ==
  CASE users[p].role = "PLATFORM_ADMIN" -> Rows(businesses)
    [] users[p].role = "BUSINESS_OWNER" /\ Exists(tenants, p) -> BusinessesOf(p)
    [] OTHER -> Memberships(p)

(* What generateTokens writes into the token, and what validate asks of it, *)
(* and of the trial of a tenant's owner: the oldest business, or the oldest *)
(* membership, is one of them here.                                         *)
TokenBusinesses(p) == IF Exists(tenants, p) /\ BusinessesOf(p) # {} THEN BusinessesOf(p) ELSE Memberships(p)
JwtValidates(p) ==
  /\ ~users[p].suspended /\ tenants[p].status # "EXPIRED"
  /\ \A b \in TokenBusinesses(p) : Exists(members, <<b, p>>) => members[<<b, p>>].active

RolesAdmit(p, demand) == users[p].role \in demand.roles

BusinessAccess(p, b, demand) ==
  \/ demand.own = Nobody
  \/ users[p].role = "PLATFORM_ADMIN"
  \/ "BUSINESS_OWNER" \in demand.own /\ OwnsBusiness(p, b)
  \/ ActiveMember(p, b) /\ members[<<b, p>>].role \in demand.own \ {"BUSINESS_OWNER"}

HasKey(p, b, demand) ==
  ActiveMember(p, b) /\ HasGranularPermission(members[<<b, p>>].permissions, demand.table, demand.key)
OwnerInside(p, b) == ActiveMember(p, b) /\ members[<<b, p>>].role = "BUSINESS_OWNER"
SalesPermission(p, b, demand) == users[p].role = "BUSINESS_OWNER" \/ HasKey(p, b, demand)
SalaryPermission(p, b, demand) == users[p].role = "BUSINESS_OWNER" \/ HasKey(p, b, demand)
PurchasePermission(p, b, demand) == users[p].role \in FullRoles \/ HasKey(p, b, demand)
CollaborationPermission(p, b, demand) == users[p].role \in FullRoles \/ HasKey(p, b, demand)
SubtaskPermission(p, b, demand) == OwnerInside(p, b) \/ HasKey(p, b, demand)
PaymentPermission(p, b, demand) ==
  users[p].role = "PLATFORM_ADMIN" \/ OwnsBusiness(p, b) \/ OwnerInside(p, b) \/ HasKey(p, b, demand)
ProductPermission(p, b, demand) ==
  users[p].role = "PLATFORM_ADMIN" \/ OwnsBusiness(p, b) \/ OwnerInside(p, b) \/ HasKey(p, b, demand)

Permits(p, b, demand) ==
  CASE demand.table = NoKey -> TRUE
    [] demand.table = "sales" -> SalesPermission(p, b, demand)
    [] demand.table = "salary" -> SalaryPermission(p, b, demand)
    [] demand.table = "purchase" -> PurchasePermission(p, b, demand)
    [] demand.table = "payment" -> PaymentPermission(p, b, demand)
    [] demand.table = "stock" -> ProductPermission(p, b, demand)
    [] demand.key \in {"create_task", "update_task", "delete_task"} -> CollaborationPermission(p, b, demand)
    [] OTHER -> SubtaskPermission(p, b, demand)

Serves(p, b, demand) ==
  /\ Exists(users, p) /\ Exists(businesses, b)
  /\ JwtValidates(p)
  /\ RolesAdmit(p, demand) /\ BusinessAccess(p, b, demand) /\ Permits(p, b, demand)

ForHeads == Demand("user", Heads, NoKey, NoKey, OwnerAndAdmin)
ByHeads(b) == \E p \in People : Serves(p, b, ForHeads)

-----------------------------------------------------------------------------
(* addMember: the row it inserts, and what it refuses. *)
CanAdd(b, p) == Exists(businesses, b) /\ Exists(users, p) /\ ~Exists(members, <<b, p>>)
Added(b, p, role) == members' = [members EXCEPT ![<<b, p>>] = Member(role, Default(role))]

AddMember(w, b, p) ==
  /\ AtOnce(w, "add")
  /\ ByHeads(b) /\ CanAdd(b, p)
  /\ \E role \in MemberRole \cap mix : Added(b, p, role)
  /\ UNCHANGED <<users, tenants, businesses, rates, invitations, joined>>

RemoveMember(w, b, p) ==
  /\ AtOnce(w, "remove")
  /\ ByHeads(b) /\ Exists(members, <<b, p>>)
  /\ members' = [members EXCEPT ![<<b, p>>] = Absent]
  /\ UNCHANGED <<users, tenants, businesses, rates, invitations, joined>>

(* updateMemberRole: the membership, then users.role. *)
ChangeRole(w, b, p) ==
  /\ Asked(w, "changeRole")
  /\ ByHeads(b) /\ ActiveMember(p, b)
  /\ \E role \in MemberRole \cap mix :
       Begin(w, [op |-> "changeRole", at |-> <<b, p>>, row |->
                   [members[<<b, p>>] EXCEPT !.role = role,
                                             !.permissions = IF role = "BUSINESS_OWNER" THEN Default(role) ELSE @]])
  /\ UNCHANGED memberVars

RoleSaved(w) ==
  /\ Doing(w, "changeRole")
  /\ members' = [members EXCEPT ![job[w].at] = job[w].row]
  /\ Continue(w, [op |-> "roleSaved", user |-> job[w].at[2], role |-> job[w].row.role])
  /\ UNCHANGED <<users, tenants, businesses, rates, invitations, joined>>

(* Mutant: the user keeps his old role. *)
UserRoleKept(w) == Doing(w, "roleSaved") /\ Finish(w) /\ UNCHANGED memberVars

UserRoleUpdated(w) ==
  /\ Doing(w, "roleSaved")
  /\ users' = IF Exists(users, job[w].user) THEN [users EXCEPT ![job[w].user].role = job[w].role] ELSE users
  /\ Finish(w)
  /\ UNCHANGED <<tenants, businesses, members, rates, invitations, joined>>

(* updateMemberPermissions: never one's own, never an owner's; an           *)
(* administrator, those of members below him.                               *)
MayChangeKeys(by, b, p) ==
  /\ Serves(by, b, ForHeads) /\ by # p
  /\ ActiveMember(p, b) /\ members[<<b, p>>].role # "BUSINESS_OWNER"
  /\ users[by].role = "BUSINESS_ADMIN" => members[<<b, p>>].role \in {"TEAM_MEMBER", "ACCOUNTANT"}

ChangePermissions(w, b, p) ==
  /\ Asked(w, "changePermissions")
  /\ \E by \in People : MayChangeKeys(by, b, p)
  /\ \E table \in Tables \cap mix : \E keys \in {{}, Default("BUSINESS_OWNER")[table]} :
       Begin(w, [op |-> "changePermissions", at |-> <<b, p>>,
                 row |-> [members[<<b, p>>] EXCEPT !.permissions[table] = keys]])
  /\ UNCHANGED memberVars

PermissionsSaved(w) ==
  /\ Doing(w, "changePermissions")
  /\ members' = [members EXCEPT ![job[w].at] = job[w].row]
  /\ Finish(w)
  /\ UNCHANGED <<users, tenants, businesses, rates, invitations, joined>>

(* seedExistingMembersWithDefaultPermissions: every membership is read, and *)
(* each is saved as it was read: the columns are never null.                *)
SeedPermissions(w) ==
  /\ Asked(w, "seed")
  /\ Begin(w, [op |-> "seed", rows |-> members])
  /\ UNCHANGED memberVars

SeededOne(w) ==
  /\ Doing(w, "seed") /\ Rows(job[w].rows) # {}
  /\ \E m \in Rows(job[w].rows) :
       /\ members' = [members EXCEPT ![m] = job[w].rows[m]]
       /\ Continue(w, [job[w] EXCEPT !.rows[m] = Absent])
  /\ UNCHANGED <<users, tenants, businesses, rates, invitations, joined>>

SeedEnds(w) ==
  /\ Doing(w, "seed") /\ Rows(job[w].rows) = {}
  /\ Finish(w)
  /\ UNCHANGED memberVars

-----------------------------------------------------------------------------
(* Invitations. *)
Invited(b, p, role) ==
  [status |-> "PENDING", late |-> FALSE, business |-> b, email |-> p, role |-> role]
Pending(i) == Exists(invitations, i) /\ invitations[i].status = "PENDING"

SendInvitation(w, b, p) ==
  /\ Asked(w, "invite")
  /\ ByHeads(b) /\ ~HasAccess(p, b) /\ CanInsert(invitations)
  /\ ~\E i \in Rows(invitations) : Pending(i) /\ invitations[i].business = b /\ invitations[i].email = p
  /\ \E role \in InvitedRole \cap mix : Begin(w, [op |-> "invite", row |-> Invited(b, p, role)])
  /\ UNCHANGED memberVars

InvitationSaved(w) ==
  /\ Doing(w, "invite") /\ CanInsert(invitations)
  /\ invitations' = [invitations EXCEPT ![Fresh(invitations)] = job[w].row]
  /\ Finish(w)
  /\ UNCHANGED <<users, tenants, businesses, members, rates, joined>>

(* Seven days pass. *)
InvitationAges(w, i) ==
  /\ AtOnce(w, "age")
  /\ Exists(invitations, i) /\ ~invitations[i].late
  /\ invitations' = [invitations EXCEPT ![i].late = TRUE]
  /\ UNCHANGED <<users, tenants, businesses, members, rates, joined>>

(* getInvitationByToken: an overdue invitation is found out when it is      *)
(* looked at; cleanupExpiredInvitations does the same in one statement.         *)
LookAtInvitation(w, i) ==
  /\ Asked(w, "look")
  /\ Pending(i) /\ invitations[i].late
  /\ Begin(w, [op |-> "look", at |-> i, row |-> [invitations[i] EXCEPT !.status = "EXPIRED"]])
  /\ UNCHANGED memberVars

CleanupExpired(w) ==
  /\ AtOnce(w, "cleanup")
  /\ invitations' = [i \in Invitations |-> IF Pending(i) /\ invitations[i].late
                                           THEN [invitations[i] EXCEPT !.status = "EXPIRED"]
                                           ELSE invitations[i]]
  /\ UNCHANGED <<users, tenants, businesses, members, rates, joined>>

(* cancelInvitation, asked for in one business, deletes by identity alone. *)
CancelInvitation(w, i) ==
  /\ AtOnce(w, "cancel")
  /\ Exists(invitations, i) /\ \E b \in Businesses : ByHeads(b)
  /\ invitations' = [invitations EXCEPT ![i] = Absent]
  /\ joined' = [joined EXCEPT ![i] = 0]
  /\ UNCHANGED <<users, tenants, businesses, members, rates>>

(* acceptInvitationWithRegistration: an account is made, with the role of *)
(* the invitation; then the membership.  It refuses an account that exists. *)
Answerable(i) == Pending(i) /\ ~invitations[i].late
Answer(i, answer) == [invitations[i] EXCEPT !.status = answer]

AcceptWithRegistration(w, i) ==
  /\ Asked(w, "acceptNew")
  /\ Answerable(i) /\ ~Exists(users, invitations[i].email)
  /\ Begin(w, [op |-> "acceptNew", at |-> i, row |-> Answer(i, "ACCEPTED")])
  /\ UNCHANGED memberVars

InvitedUserSaved(w) ==
  /\ Doing(w, "acceptNew") /\ ~Exists(users, job[w].row.email)
  /\ users' = [users EXCEPT ![job[w].row.email] = [User(job[w].row.role) EXCEPT !.verified = TRUE]]
  /\ Continue(w, [job[w] EXCEPT !.op = "accept"])
  /\ UNCHANGED <<tenants, businesses, members, rates, invitations, joined>>

MemberJoins(w) ==
  LET row == job[w].row
  IN /\ Doing(w, "accept") /\ CanAdd(row.business, row.email)
     /\ Added(row.business, row.email, row.role)
     /\ joined' = [joined EXCEPT ![job[w].at] = IF @ < MaxJoined THEN @ + 1 ELSE @]
     /\ Continue(w, [job[w] EXCEPT !.op = "answer"])
     /\ UNCHANGED <<users, tenants, businesses, rates, invitations>>

(* The second account of an email, a member there is already: the database *)
(* or addMember refuses, and the handler ends.                              *)
JoinRefused(w) ==
  /\ \/ Doing(w, "acceptNew") /\ Exists(users, job[w].row.email)
     \/ Doing(w, "accept") /\ ~CanAdd(job[w].row.business, job[w].row.email)
  /\ Finish(w)
  /\ UNCHANGED memberVars

RejectInvitation(w, i) ==
  /\ Asked(w, "reject")
  /\ Answerable(i) /\ Exists(users, invitations[i].email)
  /\ Begin(w, [op |-> "reject", at |-> i, row |-> Answer(i, "REJECTED")])
  /\ UNCHANGED memberVars

(* Mutant: only a refusal is written, an acceptance is left pending. *)
AnswerForgotten(w) ==
  /\ job[w].op \in {"answer", "reject", "look"}
  /\ invitations' = IF Doing(w, "answer") THEN invitations ELSE [invitations EXCEPT ![job[w].at] = job[w].row]
  /\ Finish(w)
  /\ UNCHANGED <<users, tenants, businesses, members, rates, joined>>

AnswerSaved(w) ==
  /\ job[w].op \in {"answer", "reject", "look"}
  /\ invitations' = [invitations EXCEPT ![job[w].at] = job[w].row]
  /\ Finish(w)
  /\ UNCHANGED <<users, tenants, businesses, members, rates, joined>>

-----------------------------------------------------------------------------
(* Businesses and tax rates. *)
Founders(p) ==
  CASE users[p].role = "BUSINESS_OWNER" -> {o \in {p} : Exists(tenants, o)}
    [] OTHER -> {businesses[b].tenant : b \in GetUserBusinesses(p)}

(* create: the row, its settings, then the membership of who asked. *)
CreateBusiness(w, p) ==
  /\ Asked(w, "found")
  /\ Exists(users, p) /\ users[p].role \in Platform \cup Heads /\ CanInsert(businesses)
  /\ \E owner \in Founders(p) : Begin(w, [op |-> "found", user |-> p, owner |-> owner])
  /\ UNCHANGED memberVars

BusinessSaved(w) ==
  /\ Doing(w, "found") /\ CanInsert(businesses)
  /\ businesses' = [businesses EXCEPT ![Fresh(businesses)] = Business(job[w].owner)]
  /\ Continue(w, [op |-> "founded", business |-> Fresh(businesses), user |-> job[w].user])
  /\ UNCHANGED <<users, tenants, members, rates, invitations, joined>>

FounderJoins(w) ==
  LET p == job[w].user
      b == job[w].business
  IN /\ Doing(w, "founded")
     /\ IF CanAdd(b, p) /\ users[p].role \in Heads THEN Added(b, p, users[p].role) ELSE UNCHANGED members
     /\ Finish(w)
     /\ UNCHANGED <<users, tenants, businesses, rates, invitations, joined>>

(* delete, and what the foreign keys take with it. *)
DeleteBusiness(w, b) ==
  /\ AtOnce(w, "deleteBusiness")
  /\ \E p \in People : Serves(p, b, Demand("user", Platform \cup Owner, NoKey, NoKey, OwnerOnly))
  /\ businesses' = [businesses EXCEPT ![b] = Absent]
  /\ members' = [m \in DOMAIN members |-> IF m[1] = b THEN Absent ELSE members[m]]
  /\ rates' = [r \in Rates |-> IF Exists(rates, r) /\ rates[r].business = b THEN Absent ELSE rates[r]]
  /\ invitations' = [i \in Invitations |-> IF Exists(invitations, i) /\ invitations[i].business = b
                                           THEN Absent ELSE invitations[i]]
  /\ joined' = [i \in Invitations |-> IF Exists(invitations', i) THEN joined[i] ELSE 0]
  /\ UNCHANGED <<users, tenants>>

(* createTaxRate, updateTaxRate: a new default first unsets the old one, in *)
(* a statement of its own.                                                  *)
(* Mutant: the old default stays. *)
NothingUnset(b) == UNCHANGED rates

Unset(b) ==
  rates' = [r \in Rates |-> IF Exists(rates, r) /\ rates[r].business = b
                            THEN [rates[r] EXCEPT !.default = FALSE] ELSE rates[r]]

CreateTaxRate(w, b) ==
  /\ Asked(w, "createRate")
  /\ ByHeads(b) /\ CanInsert(rates)
  /\ \E default \in BOOLEAN :
       /\ IF default THEN Unset(b) ELSE UNCHANGED rates
       /\ Begin(w, [op |-> "createRate", row |-> Rate(b, default)])
  /\ UNCHANGED <<users, tenants, businesses, members, invitations, joined>>

TaxRateSaved(w) ==
  /\ Doing(w, "createRate") /\ CanInsert(rates)
  /\ rates' = [rates EXCEPT ![Fresh(rates)] = job[w].row]
  /\ Finish(w)
  /\ UNCHANGED <<users, tenants, businesses, members, invitations, joined>>

(* The rate is looked up by its identity alone: whether it is one of the    *)
(* business of the path is up to the client, unless the mix has it astray.  *)
UpdateTaxRate(w, b, r) ==
  /\ Asked(w, "updateRate")
  /\ ByHeads(b)
  /\ Exists(rates, r) => rates[r].business = b \/ "astray" \in mix
  /\ \E default \in BOOLEAN :
       /\ IF default THEN Unset(b) ELSE UNCHANGED rates
       /\ Begin(w, [op |-> "updateRate", at |-> r, default |-> default])
  /\ UNCHANGED <<users, tenants, businesses, members, invitations, joined>>

TaxRateUpdated(w) ==
  /\ Doing(w, "updateRate")
  /\ rates' = IF Exists(rates, job[w].at) THEN [rates EXCEPT ![job[w].at].default = job[w].default] ELSE rates
  /\ Finish(w)
  /\ UNCHANGED <<users, tenants, businesses, members, invitations, joined>>

DeleteTaxRate(w, r) ==
  /\ AtOnce(w, "deleteRate")
  /\ Exists(rates, r) /\ ByHeads(rates[r].business)
  /\ rates' = [rates EXCEPT ![r] = Absent]
  /\ UNCHANGED <<users, tenants, businesses, members, invitations, joined>>

-----------------------------------------------------------------------------
MembersNext(w) ==
  \/ \E b \in Businesses, p \in People :
       \/ AddMember(w, b, p) \/ RemoveMember(w, b, p)
       \/ ChangeRole(w, b, p) \/ ChangePermissions(w, b, p) \/ SendInvitation(w, b, p)
  \/ \E p \in People : CreateBusiness(w, p)
  \/ \E b \in Businesses :
       \/ DeleteBusiness(w, b) \/ CreateTaxRate(w, b)
       \/ \E r \in Rates : UpdateTaxRate(w, b, r)
  \/ \E r \in Rates : DeleteTaxRate(w, r)
  \/ \E i \in Invitations :
       \/ InvitationAges(w, i) \/ LookAtInvitation(w, i) \/ CancelInvitation(w, i)
       \/ AcceptWithRegistration(w, i) \/ RejectInvitation(w, i)
  \/ RoleSaved(w) \/ UserRoleUpdated(w) \/ PermissionsSaved(w)
  \/ SeedPermissions(w) \/ SeededOne(w) \/ SeedEnds(w)
  \/ InvitationSaved(w) \/ CleanupExpired(w) \/ InvitedUserSaved(w)
  \/ MemberJoins(w) \/ JoinRefused(w) \/ AnswerSaved(w)
  \/ BusinessSaved(w) \/ FounderJoins(w) \/ TaxRateSaved(w) \/ TaxRateUpdated(w)

(* A business that has been registered, with its owner and a rate. *)
MembersInit ==
  \E p \in People, b \in Businesses, r \in Rates :
    /\ p = CHOOSE x \in People : TRUE
    /\ b = CHOOSE x \in Businesses : TRUE
    /\ r = CHOOSE x \in Rates : TRUE
    /\ users = [x \in People |-> IF x = p THEN User("BUSINESS_OWNER") ELSE Absent]
    /\ tenants = [x \in People |-> IF x = p THEN Tenancy("ACTIVE") ELSE Absent]
    /\ businesses = [x \in Businesses |-> IF x = b THEN Business(p) ELSE Absent]
    /\ members = [x \in Businesses \X People |->
                    IF x = <<b, p>> THEN Member("BUSINESS_OWNER", NoPermissions) ELSE Absent]
    /\ rates = [x \in Rates |-> IF x = r THEN Rate(b, TRUE) ELSE Absent]
    /\ invitations = [x \in Invitations |-> Absent]
    /\ joined = [x \in Invitations |-> 0]

-----------------------------------------------------------------------------
(* What a membership promises to whom nothing locks out: a role among those *)
(* a handler admits, and in its tables the key the handler asks for.        *)
LockedOut(p) ==
  \/ users[p].suspended \/ tenants[p].status = "EXPIRED"
  \/ \E b \in Businesses : Exists(members, <<b, p>>) /\ ~members[<<b, p>>].active
Granted(p, b, demand) ==
  LET member == members[<<b, p>>]
  IN /\ Exists(users, p) /\ ~LockedOut(p) /\ ActiveMember(p, b)
     /\ member.role \in demand.roles
     /\ demand.own = Nobody \/ member.role \in demand.own
     /\ demand.key = NoKey \/ member.role = "BUSINESS_OWNER" \/ demand.key \in member.permissions[demand.table]

(* Whoever is an active member of a business, with a role that a handler    *)
(* admits and the key it asks for, gets past its guards unless something    *)
(* locks him out: the membership is all it takes, whatever invitations,     *)
(* changes of role and of permissions came before (the guards of every      *)
(* controller, over the two roles a user has).  It holds where nobody is    *)
(* added by hand with another role than his account has or made an owner:   *)
(* addMember leaves users.role alone.                                       *)
GrantedIsServed ==
  Settled => \A b \in Rows(businesses), p \in Rows(users) : \A demand \in Demands :
               Granted(p, b, demand) => Serves(p, b, demand)

(* An invitation reads ACCEPTED exactly when it has given its membership,   *)
(* once; rejected, expired or still open, it has given none                 *)
(* (invitations.service: the answer and the membership are two commits).    *)
InvitationsAccounted ==
  Settled => \A i \in Rows(invitations) :
               joined[i] = IF invitations[i].status = "ACCEPTED" THEN 1 ELSE 0

(* A business has one default tax rate at most, though businesses.service   *)
(* unsets the old default in a statement of its own and may fail after it,  *)
(* as long as rates are updated under their own business and one handler    *)
(* after the other (two creations at once do make two).                     *)
OneDefault ==
  \A r, s \in Rows(rates) :
    rates[r].default /\ rates[s].default /\ rates[r].business = rates[s].business => r = s
OneDefaultRate == Apart /\ "astray" \notin mix => OneDefault

(* Setting a default unsets "any existing default" of the rate's business:  *)
(* what createTaxRate and updateTaxRate say, whatever rate is named.        *)
DefaultUnsetsAnother == Apart => OneDefault
=============================================================================
