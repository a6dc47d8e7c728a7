------------------------------- MODULE MCOffice -------------------------------
(* Small instances of Office for TLC. *)
EXTENDS Office

CONSTANTS w1, w2, ada, bob, b1, b2, r1, r2, r3, i1, i2, t1, t2, t3, l1, l2, s1, s2

(* A team brought in by invitations, whose roles and permissions change. *)
Team == {"invite", "acceptNew", "changeRole", "changePermissions", "TEAM_MEMBER", "ACCOUNTANT",
         "sales", "payment", "fail"}
Roles2 == {"invite", "acceptNew", "changeRole", "BUSINESS_ADMIN", "ACCOUNTANT", "changePermissions", "stock", "fail"}
Answers == {"invite", "acceptNew", "reject", "cancel", "look", "age", "cleanup", "remove", "add",
            "TEAM_MEMBER", "fail"}
Seeding == {"invite", "acceptNew", "TEAM_MEMBER", "changePermissions", "sales", "seed", "remove", "add", "fail"}
Money == {"createRate", "updateRate", "deleteRate", "found", "deleteBusiness", "fail"}
Arrivals == {"register", "oauth", "login", "pay", "forgot", "follow", "deleteUser", "fail"}
Sessions == {"login", "oauth", "refresh", "logout", "suspendUser", "activateUser", "fail"}
Stale == {"forgot", "follow", "suspendUser", "activateUser", "updateRole", "updateProfile", "changeEmail",
          "BUSINESS_OWNER", "fail"}
Board == {"createTask", "updateTask", "moveTask", "removeTask", "TODO", "BLOCKED", "never", "fail"}
Restated == {"createTask", "updateTask", "restatus", "TODO", "DONE", "past", "fail"}
Pieces == {"createTask", "BLOCKED", "ahead", "createSubtask", "updateSubtask", "markComplete", "removeSubtask",
           "removeTask", "fail"}
Talk == {"together", "createTask", "removeTask", "TODO", "never", "post", "reply"}
Days == {"invite", "acceptNew", "TEAM_MEMBER", "checkin", "day", "connect"}
Tabs == {"connect", "tabs", "invite", "acceptNew", "TEAM_MEMBER"}
Founding == {"together", "found", "deleteBusiness"}
Crowd == {"together", "invite", "acceptNew", "TEAM_MEMBER"}
(* A tenant locked out and let in, as a whole or by its subscription. *)
Locks == Lockings \cup {"invite", "acceptNew", "TEAM_MEMBER", "suspendUser", "activateUser", "login", "expire", "pay",
                        "fail"}
Strays == {"createTask", "removeTask", "TODO", "never", "post", "reply", "astray", "fail"}

MCMixes == {Team, Roles2, Answers, Seeding, Money, Arrivals, Sessions, Stale, Board, Restated, Pieces, Talk,
            Days, Tabs, Founding, Crowd, Locks, Strays}

(* An owner with two businesses updates a rate of one under the other. *)
Astray == {{"found", "createRate", "updateRate", "astray"}}
=============================================================================
