-------------------------------- MODULE Accounts --------------------------------
(***************************************************************************)
(* The accounts behind the members: registration with a password and with  *)
(* Google, sessions kept alive by refresh tokens, the links mailed to      *)
(* verify an address or to choose a new password, the administrator who    *)
(* suspends a user or a tenant with all who work there, and what becomes   *)
(* of the tenant's subscription as far as a request is stopped by it.      *)
(***************************************************************************)
EXTENDS Members

CONSTANTS Tokens, Links       \* bound: the refresh tokens and the mailed links

VARIABLES
  tokens,     \* the rows of refresh_tokens; a session is named for its first token
  links,      \* the rows of password_reset_tokens, of both types
  closed,     \* the sessions whose refresh token a logout was sent
  barred      \* the users suspended, and not let in again since

accountVars == <<tokens, links, closed, barred>>

Token(p, session) == [status |-> "LIVE", user |-> p, session |-> session]
Link(type, p) == [status |-> "UNUSED", type |-> type, user |-> p]

AccountsTypeOK ==
  /\ tokens \in [Tokens -> {Absent} \cup [status : {"LIVE", "REVOKED"}, user : People, session : Tokens]]
  /\ links \in [Links -> {Absent} \cup
                  [status : {"UNUSED", "USED"}, type : {"EMAIL_VERIFICATION", "PASSWORD_RESET"}, user : People]]
  /\ closed \subseteq Tokens /\ barred \subseteq People

-----------------------------------------------------------------------------
(* register: the user, his tenant, a business, his membership, with empty  *)
(* tables, a tax rate and the link that verifies him, in one transaction;  *)
(* then a subscription, if the plan he chose is one.                       *)
Register(w, p) ==
  LET b == Fresh(businesses)
  IN /\ AtOnce(w, "register")
     /\ ~Exists(users, p) /\ ~Exists(tenants, p)
     /\ CanInsert(businesses) /\ CanInsert(rates) /\ CanInsert(links)
     /\ users' = [users EXCEPT ![p] = User("BUSINESS_OWNER")]
     /\ \E status \in {"NONE", "PENDING"} : tenants' = [tenants EXCEPT ![p] = Tenancy(status)]
     /\ businesses' = [businesses EXCEPT ![b] = Business(p)]
     /\ members' = [members EXCEPT ![<<b, p>>] = Member("BUSINESS_OWNER", NoPermissions)]
     /\ \E default \in BOOLEAN : rates' = [rates EXCEPT ![Fresh(rates)] = Rate(b, default)]
     /\ links' = [links EXCEPT ![Fresh(links)] = Link("EMAIL_VERIFICATION", p)]
     /\ UNCHANGED <<invitations, joined, tokens, closed, barred>>

(* login, once LocalStrategy has found the password right: refused to the   *)
(* suspended, to an owner whose subscription is unpaid or suspended, and to *)
(* someone whose every membership is inactive.                              *)
MayLogIn(p) ==
  /\ Exists(users, p) /\ ~users[p].suspended
  /\ \/ users[p].role = "PLATFORM_ADMIN"
     \/ tenants[p].status \in {"ACTIVE", "EXPIRED"}
     \/ ~Exists(tenants, p) /\ (Memberships(p) # {} \/ \A b \in Businesses : ~Exists(members, <<b, p>>))

(* generateTokens: a session starts, or goes on. *)
SessionStarts(p) ==
  /\ CanInsert(tokens)
  /\ tokens' = [tokens EXCEPT ![Fresh(tokens)] = Token(p, Fresh(tokens))]

Login(w, p) ==
  /\ AtOnce(w, "login")
  /\ MayLogIn(p) /\ SessionStarts(p)
  /\ UNCHANGED <<memberVars, links, closed, barred>>

(* handleOAuthLogin: the account, the tenant, the business, its rates and   *)
(* the membership are saved one after the other.                            *)
OAuthLogin(w, p) ==
  /\ IF Exists(users, p)
     THEN ~users[p].suspended /\ SessionStarts(p) /\ AtOnce(w, "oauth") /\ UNCHANGED users
     ELSE /\ CanInsert(businesses) /\ CanInsert(rates) /\ CanInsert(tokens)
          /\ users' = [users EXCEPT ![p] = [User("BUSINESS_OWNER") EXCEPT !.verified = TRUE]]
          /\ Begin(w, [op |-> "oauth", user |-> p])
          /\ UNCHANGED tokens
  /\ UNCHANGED <<tenants, businesses, members, rates, invitations, joined, links, closed, barred>>

OAuthTenant(w) ==
  /\ Doing(w, "oauth")
  /\ tenants' = IF Exists(tenants, job[w].user) THEN tenants ELSE [tenants EXCEPT ![job[w].user] = Tenancy("NONE")]
  /\ Continue(w, [job[w] EXCEPT !.op = "oauthBusiness"])
  /\ UNCHANGED <<users, businesses, members, rates, invitations, joined, accountVars>>

OAuthBusiness(w) ==
  /\ Doing(w, "oauthBusiness") /\ CanInsert(businesses)
  /\ businesses' = [businesses EXCEPT ![Fresh(businesses)] = Business(job[w].user)]
  /\ Continue(w, [op |-> "oauthRates", user |-> job[w].user, business |-> Fresh(businesses)])
  /\ UNCHANGED <<users, tenants, members, rates, invitations, joined, accountVars>>

(* Of the three rates only the first is a default: it stands for them. *)
OAuthRates(w) ==
  /\ Doing(w, "oauthRates") /\ CanInsert(rates)
  /\ rates' = [rates EXCEPT ![Fresh(rates)] = Rate(job[w].business, TRUE)]
  /\ Continue(w, [job[w] EXCEPT !.op = "oauthMember"])
  /\ UNCHANGED <<users, tenants, businesses, members, invitations, joined, accountVars>>

OAuthMember(w) ==
  LET p == job[w].user
  IN /\ Doing(w, "oauthMember")
     /\ members' = [members EXCEPT ![<<job[w].business, p>>] = Member("BUSINESS_OWNER", NoPermissions)]
     /\ SessionStarts(p)
     /\ Finish(w)
     /\ UNCHANGED <<users, tenants, businesses, rates, invitations, joined, links, closed, barred>>

-----------------------------------------------------------------------------
(* refreshTokens: read, revoked, replaced. *)
Refresh(w, t) ==
  /\ Asked(w, "refresh")
  /\ Exists(tokens, t) /\ tokens[t].status = "LIVE"
  /\ Begin(w, [op |-> "refresh", at |-> t, row |-> tokens[t]])
  /\ UNCHANGED <<memberVars, accountVars>>

(* Mutant: the token goes on. *)
NotRevoked(t) == tokens

Revoked(t) == IF Exists(tokens, t) THEN [tokens EXCEPT ![t].status = "REVOKED"] ELSE tokens

TokenRevoked(w) ==
  /\ Doing(w, "refresh")
  /\ tokens' = Revoked(job[w].at)
  /\ Continue(w, [job[w] EXCEPT !.op = "refreshed"])
  /\ UNCHANGED <<memberVars, links, closed, barred>>

TokenReplaced(w) ==
  /\ Doing(w, "refreshed") /\ CanInsert(tokens) /\ Exists(users, job[w].row.user)
  /\ tokens' = [tokens EXCEPT ![Fresh(tokens)] = Token(job[w].row.user, job[w].row.session)]
  /\ Finish(w)
  /\ UNCHANGED <<memberVars, links, closed, barred>>

(* logout revokes the refresh token it is sent, the newest of its session;  *)
(* a browser sends that cookie to /auth/refresh alone, and then nothing is  *)
(* revoked: the session can be refreshed as before.                         *)
Logout(w, t) ==
  /\ AtOnce(w, "logout")
  /\ Exists(tokens, t) /\ tokens[t].status = "LIVE"
  /\ \/ tokens' = Revoked(t) /\ closed' = closed \cup {tokens[t].session}
     \/ UNCHANGED <<tokens, closed>>
  /\ UNCHANGED <<memberVars, links, barred>>

-----------------------------------------------------------------------------
(* forgotPassword mails a link. *)
ForgotPassword(w, p) ==
  /\ AtOnce(w, "forgot")
  /\ Exists(users, p) /\ CanInsert(links)
  /\ links' = [links EXCEPT ![Fresh(links)] = Link("PASSWORD_RESET", p)]
  /\ UNCHANGED <<memberVars, tokens, closed, barred>>

(* verifyEmail and resetPassword: the link and its user are read together;  *)
(* then the user is written, whole when it is for a new password; then the  *)
(* link is spent.                                                           *)
FollowLink(w, l) ==
  /\ Asked(w, "follow")
  /\ Exists(links, l) /\ links[l].status = "UNUSED" /\ Exists(users, links[l].user)
  /\ Begin(w, [op |-> "follow", at |-> l, type |-> links[l].type, user |-> links[l].user,
               row |-> users[links[l].user]])
  /\ UNCHANGED <<memberVars, accountVars>>

(* Mutant: a new password also reinstates its user. *)
Reinstated(w) ==
  LET p == job[w].user
  IN IF job[w].type = "PASSWORD_RESET" THEN [users EXCEPT ![p] = [job[w].row EXCEPT !.suspended = FALSE]]
     ELSE [users EXCEPT ![p].verified = TRUE]

VerifiedOrReset(w) ==
  LET p == job[w].user
  IN IF job[w].type = "PASSWORD_RESET" THEN [users EXCEPT ![p] = job[w].row]
     ELSE [users EXCEPT ![p].verified = TRUE]

UserWritten(w) ==
  /\ Doing(w, "follow")
  /\ users' = IF Exists(users, job[w].user) THEN VerifiedOrReset(w) ELSE users
  /\ Continue(w, [job[w] EXCEPT !.op = "spend"])
  /\ UNCHANGED <<tenants, businesses, members, rates, invitations, joined, accountVars>>

LinkSpent(w) ==
  /\ Doing(w, "spend")
  /\ links' = IF Exists(links, job[w].at) THEN [links EXCEPT ![job[w].at].status = "USED"] ELSE links
  /\ Finish(w)
  /\ UNCHANGED <<memberVars, tokens, closed, barred>>

(* suspend, activate, updateRole, and a profile saved by its owner, with a  *)
(* new address or without: each reads the row and saves it whole.           *)
Edits == {"suspendUser", "activateUser", "updateRole", "updateProfile", "changeEmail"}
Edited(op, row) ==
  CASE op = "suspendUser" -> {[row EXCEPT !.suspended = TRUE]}
    [] op = "activateUser" -> {[row EXCEPT !.suspended = FALSE]}
    [] op = "updateRole" -> {[row EXCEPT !.role = role] : role \in Role \cap mix}
    [] op = "updateProfile" -> {row}
    [] op = "changeEmail" -> {[row EXCEPT !.verified = FALSE]}

EditUser(w, op, p) ==
  /\ Asked(w, op)
  /\ Exists(users, p)
  /\ \E row \in Edited(op, users[p]) : Begin(w, [op |-> op, user |-> p, row |-> row])
  /\ UNCHANGED <<memberVars, accountVars>>

UserSaved(w) ==
  LET p == job[w].user
  IN /\ job[w].op \in Edits
     /\ users' = [users EXCEPT ![p] = job[w].row]
     /\ barred' = CASE Doing(w, "suspendUser") -> barred \cup {p}
                    [] Doing(w, "activateUser") -> barred \ {p}
                    [] OTHER -> barred
     /\ Finish(w)
     /\ UNCHANGED <<tenants, businesses, members, rates, invitations, joined, tokens, links, closed>>

(* deleteUser, and what the foreign keys take with it; that of a tenant to  *)
(* its owner refuses.                                                       *)
DeleteUser(w, p) ==
  /\ AtOnce(w, "deleteUser")
  /\ Exists(users, p) /\ ~Exists(tenants, p)
  /\ users' = [users EXCEPT ![p] = Absent]
  /\ members' = [m \in DOMAIN members |-> IF m[2] = p THEN Absent ELSE members[m]]
  /\ tokens' = [t \in Tokens |-> IF Exists(tokens, t) /\ tokens[t].user = p THEN Absent ELSE tokens[t]]
  /\ links' = [l \in Links |-> IF Exists(links, l) /\ links[l].user = p THEN Absent ELSE links[l]]
  /\ closed' = {t \in closed : tokens'[t] # Absent}
  /\ barred' = barred \ {p}
  /\ UNCHANGED <<tenants, businesses, rates, invitations, joined>>

-----------------------------------------------------------------------------
(* A tenant is locked out and let in again: the subscription is saved, then *)
(* the memberships of his businesses are switched, then, when it is the     *)
(* tenant and not the subscription that is suspended, the users who have    *)
(* one.  cancelSubscription and reactivateSubscription do to these tables   *)
(* what suspending and unsuspending a subscription does.                    *)
Lockings == {"suspendTenant", "unsuspendTenant", "suspendSubscription", "unsuspendSubscription"}
LetsIn(op) == op \in {"unsuspendTenant", "unsuspendSubscription"}

LockTenant(w, op, o) ==
  /\ Asked(w, op)
  /\ tenants[o].status \notin {"ABSENT", "NONE"}
  /\ op = "suspendSubscription" => tenants[o].status # "SUSPENDED"
  /\ op = "unsuspendSubscription" => tenants[o].status = "SUSPENDED"
  /\ Begin(w, [op |-> op, tenant |-> o])
  /\ UNCHANGED <<memberVars, accountVars>>

SubscriptionSaved(w) ==
  LET o == job[w].tenant
  IN /\ job[w].op \in Lockings
     /\ tenants' = [tenants EXCEPT ![o] = Tenancy(IF LetsIn(job[w].op) THEN "ACTIVE" ELSE "SUSPENDED")]
     /\ Continue(w, [op |-> "lockMembers", by |-> job[w].op, businesses |-> BusinessesOf(o)])
     /\ UNCHANGED <<users, businesses, members, rates, invitations, joined, accountVars>>

MembersLocked(w) ==
  LET inside == {m \in Rows(members) : m[1] \in job[w].businesses}
  IN /\ Doing(w, "lockMembers")
     /\ members' = [m \in DOMAIN members |->
                      IF m \in inside THEN [members[m] EXCEPT !.active = LetsIn(job[w].by)] ELSE members[m]]
     /\ IF job[w].by \in {"suspendTenant", "unsuspendTenant"}
        THEN Continue(w, [op |-> "lockUsers", by |-> job[w].by, users |-> {m[2] : m \in inside}])
        ELSE Finish(w)
     /\ UNCHANGED <<users, tenants, businesses, rates, invitations, joined, accountVars>>

UsersLocked(w) ==
  LET inside == Rows(users) \cap job[w].users
  IN /\ Doing(w, "lockUsers")
     /\ users' = [p \in People |->
                    IF p \in inside THEN [users[p] EXCEPT !.suspended = ~LetsIn(job[w].by)] ELSE users[p]]
     /\ barred' = IF LetsIn(job[w].by) THEN barred \ inside ELSE barred \cup inside
     /\ Finish(w)
     /\ UNCHANGED <<tenants, businesses, members, rates, invitations, joined, tokens, links, closed>>

(* A trial ends, a payment is made; neither looks at the memberships. *)
ExpireFreeTrial(w, o) ==
  /\ AtOnce(w, "expire")
  /\ tenants[o].status = "ACTIVE"
  /\ tenants' = [tenants EXCEPT ![o] = Tenancy("EXPIRED")]
  /\ UNCHANGED <<users, businesses, members, rates, invitations, joined, accountVars>>

PaySubscription(w, o) ==
  /\ AtOnce(w, "pay")
  /\ tenants[o].status \in {"PENDING", "EXPIRED", "SUSPENDED"}
  /\ tenants' = [tenants EXCEPT ![o] = Tenancy("ACTIVE")]
  /\ UNCHANGED <<users, businesses, members, rates, invitations, joined, accountVars>>

-----------------------------------------------------------------------------
AccountsNext(w) ==
  \/ \E p \in People :
       \/ Register(w, p) \/ Login(w, p) \/ OAuthLogin(w, p) \/ ForgotPassword(w, p) \/ DeleteUser(w, p)
       \/ \E op \in Edits : EditUser(w, op, p)
       \/ \E op \in Lockings : LockTenant(w, op, p)
       \/ ExpireFreeTrial(w, p) \/ PaySubscription(w, p)
  \/ \E t \in Tokens : Refresh(w, t) \/ Logout(w, t)
  \/ \E l \in Links : FollowLink(w, l)
  \/ OAuthTenant(w) \/ OAuthBusiness(w) \/ OAuthRates(w) \/ OAuthMember(w)
  \/ TokenRevoked(w) \/ TokenReplaced(w) \/ UserWritten(w) \/ LinkSpent(w) \/ UserSaved(w)
  \/ SubscriptionSaved(w) \/ MembersLocked(w) \/ UsersLocked(w)

AccountsInit ==
  /\ tokens = [t \in Tokens |-> Absent] /\ links = [l \in Links |-> Absent]
  /\ closed = {} /\ barred = {}

-----------------------------------------------------------------------------
(* A session whose refresh token a logout was sent has no token left that   *)
(* refreshes it, and no session has two (refreshTokens reads the token,     *)
(* revokes it and writes its successor in three statements, any of which    *)
(* may be the last).                                                        *)
LoggedOutStaysOut ==
  Apart => \A t, u \in Rows(tokens) :
               tokens[t].status = "LIVE" =>
                 /\ tokens[t].session \notin closed
                 /\ tokens[u].status = "LIVE" /\ tokens[u].session = tokens[t].session => u = t

(* Whoever was suspended, alone or with a tenant he works for, is so until  *)
(* he is activated or a tenant he works for is let in: no handler that      *)
(* saves a user whole writes the suspension away, unless it had loaded the  *)
(* user before the suspension (suspend, activate, suspendTenant and         *)
(* unsuspendTenant are the writers; the last reinstates also whom an        *)
(* administrator had suspended on his own).                                 *)
SuspendedStaysSuspended ==
  Apart => \A p \in barred : Exists(users, p) => users[p].suspended
=============================================================================
