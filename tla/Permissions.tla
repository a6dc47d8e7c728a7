----------------------------- MODULE Permissions -----------------------------
(***************************************************************************)
(* The roles, and the permissions a role starts with.  A membership keeps  *)
(* six tables of keys, one per part of the application; a table is the set *)
(* of the keys that are true in it.                                        *)
(***************************************************************************)
EXTENDS Integers, Sequences, FiniteSets

Role == {"PLATFORM_ADMIN", "BUSINESS_OWNER", "BUSINESS_ADMIN", "ACCOUNTANT", "TEAM_MEMBER", "CLIENT", "SUPPLIER"}
MemberRole == {"BUSINESS_OWNER", "BUSINESS_ADMIN", "TEAM_MEMBER", "ACCOUNTANT"}
InvitedRole == MemberRole \ {"BUSINESS_OWNER"}
FullRoles == {"BUSINESS_OWNER", "PLATFORM_ADMIN"}

(* create_task, create_subtask... *)
Keys(verbs, things) == {verb \o "_" \o thing : verb \in verbs, thing \in things}

TaskKeys == Keys({"create", "update", "delete"}, {"task", "subtask"}) \cup {"mark_complete_subtask"}
MemberKeys == Keys({"add", "kick", "promote"}, {"member"})
CollaborationDefault(role) ==
  CASE role \in FullRoles -> TaskKeys \cup MemberKeys
    [] role = "BUSINESS_ADMIN" -> TaskKeys
    [] role \in {"TEAM_MEMBER", "ACCOUNTANT"} ->
         {"update_task", "create_subtask", "update_subtask", "mark_complete_subtask"}
    [] OTHER -> {}

StockKeys ==
  Keys({"create", "update", "delete"}, {"product", "service", "category", "service_category", "warehouse"})
  \cup Keys({"create", "delete"}, {"movement", "reservation"})
StockDefault(role) ==
  CASE role \in FullRoles \cup {"BUSINESS_ADMIN"} -> StockKeys
    [] role \in {"TEAM_MEMBER", "ACCOUNTANT"} -> {"update_product", "update_service"}
    [] OTHER -> {}

PaymentKeys ==
  Keys({"create", "delete"}, {"client_payment", "supplier_payment", "transfer"})
  \cup Keys({"create", "update", "delete"}, {"schedule", "account"}) \cup {"pay_installment"}
BookkeeperPayments ==
  Keys({"create"}, {"client_payment", "supplier_payment", "schedule"}) \cup {"pay_installment"}
PaymentDefault(role) ==
  CASE role \in FullRoles -> PaymentKeys
    [] role = "BUSINESS_ADMIN" -> BookkeeperPayments \cup {"update_schedule", "create_transfer"}
    [] role = "ACCOUNTANT" -> BookkeeperPayments
    [] OTHER -> {}

SalaryKeys == Keys({"create", "update", "delete"}, {"salary"}) \cup {"send_proposal", "pay_salary"}
SalaryDefault(role) == IF role \in FullRoles THEN SalaryKeys ELSE {}

SalesKeys ==
  Keys({"create", "update", "delete"}, {"client", "quote", "invoice", "recurring"})
  \cup Keys({"create", "update", "cancel"}, {"order", "delivery"})
  \cup {"invite_client", "send_quote", "convert_quote", "send_invoice"}
SalesDefault(role) ==
  CASE role \in FullRoles -> SalesKeys
    [] role = "BUSINESS_ADMIN" ->
         SalesKeys \ (Keys({"delete"}, {"client", "quote", "invoice", "recurring"})
                      \cup Keys({"cancel"}, {"order", "delivery"}))
    [] role = "ACCOUNTANT" ->
         Keys({"create", "update"}, {"client", "quote"}) \cup {"send_quote", "create_invoice", "send_invoice"}
    [] OTHER -> {"create_quote"}

PurchaseKeys ==
  Keys({"create", "update", "delete"},
       {"supplier", "purchase_order", "goods_receipt", "purchase_invoice", "purchase_return"})
  \cup {"invite_supplier", "send_purchase_order", "confirm_purchase_order", "validate_goods_receipt",
        "pay_purchase_invoice", "approve_purchase_return"}
PurchaseDefault(role) ==
  CASE role \in FullRoles -> PurchaseKeys
    [] role = "BUSINESS_ADMIN" ->
         PurchaseKeys \ Keys({"delete"}, {"supplier", "purchase_order", "goods_receipt",
                                         "purchase_invoice", "purchase_return"})
    [] role = "ACCOUNTANT" ->
         Keys({"create", "update"}, {"supplier", "purchase_invoice"}) \cup {"pay_purchase_invoice"}
    [] OTHER -> {"create_goods_receipt"}

Tables == {"collaboration", "stock", "payment", "salary", "sales", "purchase"}
Default(role) ==
  [collaboration |-> CollaborationDefault(role), stock |-> StockDefault(role), payment |-> PaymentDefault(role),
   salary |-> SalaryDefault(role), sales |-> SalesDefault(role), purchase |-> PurchaseDefault(role)]
NoPermissions == [table \in Tables |-> {}]

(* hasGranularPermission, and what each guard does by itself. *)
HasGranularPermission(permissions, table, key) == key \in permissions[table]
=============================================================================
