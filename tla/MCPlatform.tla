----------------------------- MODULE MCPlatform -----------------------------
(* Small instances of Platform for TLC. *)
EXTENDS Platform

CONSTANTS w1, free, premium

Registered == {"register", "review"}
Cards == Registered \cup {"intent", "confirm", "webhook", "submit", "judge", "fail"}
Locks == Registered \cup DOMAIN Lock \cup DOMAIN Unlock \cup {"join", "submit", "judge"}
Failing == Registered \cup {"suspendTenant", "unsuspendTenant", "markAsPaid", "fail"}
ByHand == Registered \cup {"updateSubscription", "markAsPaid", "plan", "reactivateSubscription"}
Mornings == Registered \cup {"submit", "judge", "expire", "overdue", "fail"}
Deletions == Registered \cup {"join", "submit", "ticket", "export", "delete", "fail"}

MCMixes == {Cards, Locks, Failing, ByHand, Mornings, Deletions}
=============================================================================
