--------------------------------- MODULE Office ---------------------------------
(***************************************************************************)
(* The office of a tenant: accounts, members and the workspace they share. *)
(* The board and the discussions ask the members' tables who may act;      *)
(* registration and Google write them together with the accounts.          *)
(***************************************************************************)
EXTENDS Accounts, Workspace

officeVars == <<jobVars, memberVars, accountVars, workspaceVars>>

Init == JobsInit /\ MembersInit /\ AccountsInit /\ WorkspaceInit

(* Bound: two handlers at a time only in the mixes that ask for it. *)
Serving == IF "together" \in mix THEN Workers ELSE {CHOOSE w \in Workers : TRUE}

OfficeNext ==
  \E w \in Serving :
    \/ AccountsNext(w) /\ UNCHANGED workspaceVars
    \/ MembersNext(w) /\ UNCHANGED <<accountVars, workspaceVars>>
    \/ WorkspaceNext(w) /\ UNCHANGED accountVars
    \/ Fail(w) /\ UNCHANGED <<memberVars, accountVars, workspaceVars>>

OfficeSpec == Init /\ [][OfficeNext]_officeVars

TypeOK == MembersTypeOK /\ AccountsTypeOK /\ WorkspaceTypeOK
=============================================================================
