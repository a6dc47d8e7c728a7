-------------------------------- MODULE Routes --------------------------------
(***************************************************************************)
(* What stands in front of every HTTP handler: whether a session is        *)
(* needed, the roles @Roles names, the key a permission guard (or the      *)
(* handler, or its service) asks for, whether membership of the business   *)
(* in the path is checked, and whether the plan must include the           *)
(* assistants.  One definition per controller, by handler name.            *)
(***************************************************************************)
EXTENDS Permissions

Staff == {"BUSINESS_OWNER", "BUSINESS_ADMIN", "ACCOUNTANT", "TEAM_MEMBER"}
Keepers == Staff \ {"TEAM_MEMBER"}
Heads == {"BUSINESS_OWNER", "BUSINESS_ADMIN"}
Purse == {"BUSINESS_OWNER", "ACCOUNTANT"}
Owner == {"BUSINESS_OWNER"}
Platform == {"PLATFORM_ADMIN"}
Anyone == Role
Nobody == {}

(* What @OwnerOnly and its like ask of the membership. *)
OwnerOnly == {"BUSINESS_OWNER"}
OwnerAndAdmin == {"BUSINESS_OWNER", "BUSINESS_ADMIN"}
OwnerAdminAccountant == {"BUSINESS_OWNER", "BUSINESS_ADMIN", "ACCOUNTANT"}
AllBusinessMembers == MemberRole

NoKey == "none"
Demand(by, roles, table, key, own) ==
  [by |-> by, roles |-> roles, table |-> table, key |-> key, own |-> own, ai |-> FALSE]
Handlers(names, demand) == {[handler |-> name, demand |-> demand] : name \in names}
Public(names) == Handlers(names, Demand("anyone", Anyone, NoKey, NoKey, Nobody))
ByPlatform(names) == Handlers(names, Demand("platform", Platform, NoKey, NoKey, Nobody))
LoggedIn(names) == Handlers(names, Demand("user", Anyone, NoKey, NoKey, Nobody))
Among(names, roles) == Handlers(names, Demand("user", roles, NoKey, NoKey, Nobody))
InOwn(names, roles, own) == Handlers(names, Demand("user", roles, NoKey, NoKey, own))
Keyed(names, roles, table, key) == Handlers(names, Demand("user", roles, table, key, Nobody))
WithAi(handlers) == {[handler EXCEPT !.demand.ai = TRUE] : handler \in handlers}

-----------------------------------------------------------------------------
ActivitiesController ==
  LoggedIn({"findByBusiness", "testCreate"})
AuthController1 ==
  Public({"register", "login", "refresh", "logout"})
  \cup LoggedIn({"getMe"})
AuthController2 ==
  Among({"rolesDemoAdmin"}, Platform)
  \cup Among({"rolesDemoOwner"}, Platform \cup Owner)
  \cup LoggedIn({"rolesDemoAny", "updateProfile"})
  \cup Public({"verifyEmail", "forgotPassword", "resetPassword", "googleAuth", "googleAuthCallback"})
BusinessesController1 ==
  Among({"getMyBusinesses"}, Staff)
  \cup Among({"create"}, Platform \cup Heads)
  \cup LoggedIn({"findAll"})
  \cup InOwn({"findOne"}, Anyone, AllBusinessMembers)
  \cup InOwn({"update"}, Platform \cup Heads, OwnerAndAdmin)
  \cup InOwn({"delete"}, Platform \cup Owner, OwnerOnly)
  \cup InOwn({"getSettings"}, Keepers, OwnerAdminAccountant)
  \cup InOwn({"updateSettings", "createTaxRate", "updateTaxRate", "deleteTaxRate"}, Heads, OwnerAndAdmin)
  \cup InOwn({"getTaxRates"}, Anyone, OwnerAdminAccountant)
BusinessesController2 ==
  InOwn({"getMembers"}, Anyone, AllBusinessMembers)
  \cup InOwn({"addMember", "removeMember", "updateMemberRole", "updateMemberPermissions"}, Heads, OwnerAndAdmin)
  \cup Among({"seedMemberPermissions"}, Platform)
GlobalAiAssistantController ==
  Among({"chat"}, Staff)
InvitationsController ==
  Public({"getInvitation", "acceptInvitation"})
  \cup LoggedIn({"rejectInvitation"})
BusinessInvitationsController ==
  InOwn({"sendInvitation", "getBusinessInvitations", "cancelInvitation"}, Heads, OwnerAndAdmin)
DailyCheckinsController ==
  LoggedIn({"create", "hasCheckedInToday", "getBusinessCheckinsToday"})
CollaborationTasksController ==
  Keyed({"create"}, Anyone, "collaboration", "create_task")
  \cup LoggedIn({"findAll"})
  \cup Keyed({"update"}, Anyone, "collaboration", "update_task")
  \cup Keyed({"remove"}, Anyone, "collaboration", "delete_task")
AuditLogsController ==
  Among({"getBusinessLogs", "getEntityLogs", "getRecentActivity"}, Heads)
MessagesController ==
  LoggedIn({"create", "findAllByTask", "getThread", "getChatColor", "setChatColor"})
AccountsController ==
  Keyed({"create"}, Anyone, "payment", "create_account")
  \cup LoggedIn({"findAll", "getTotalBalance", "findOne", "getBalance", "toggleActive"})
  \cup Keyed({"update"}, Anyone, "payment", "update_account")
DepositsController ==
  LoggedIn({"create"})
ForecastController ==
  WithAi(LoggedIn({"getCashFlow"}))
PaymentSchedulesController ==
  Keyed({"create"}, Anyone, "payment", "create_schedule")
  \cup LoggedIn({"findOne", "findByInvoice"})
  \cup Keyed({"payInstallment"}, Anyone, "payment", "pay_installment")
  \cup Public({"acceptSchedule", "rejectSchedule"})
PaymentsController ==
  Keyed({"create"}, Anyone, "payment", "create_client_payment")
  \cup LoggedIn({"findAll", "findOne", "findByInvoice"})
RecurringInvoicePaymentsController ==
  LoggedIn({"findAll", "findOne", "validatePayment", "sendReminder"})
SalaryController ==
  LoggedIn({"getMembers", "getProposalStatuses", "getAcceptedProposals"})
  \cup Keyed({"sendProposal"}, Anyone, "salary", "send_proposal")
  \cup Keyed({"paySalary"}, Anyone, "salary", "pay_salary")
  \cup Public({"getProposal", "respondToProposal"})
SupplierPaymentsController ==
  LoggedIn({"createStripeIntent", "findAll", "findOne", "findBySupplier", "getStats"})
  \cup Keyed({"create"}, Anyone, "payment", "create_supplier_payment")
SupplierSchedulePublicController ==
  Public({"acceptSchedule", "rejectSchedule"})
TransactionsController ==
  LoggedIn({"findAll", "getTrainingData", "findByAccount", "updateFraudReview", "findOne"})
TransfersController ==
  Keyed({"create"}, Anyone, "payment", "create_transfer")
AiPricingController ==
  ByPlatform({"generatePricingSuggestion"})
AuditLogController ==
  ByPlatform({"getAuditLogs"})
DashboardController ==
  ByPlatform({"getDashboardSummary", "getRevenueTrend", "getPlanBreakdown"})
PaymentManagementController ==
  ByPlatform({"listPayments", "getSubscriptionPayments", "verifyPayment", "rejectPayment"})
PlanManagementController ==
  ByPlatform({"listPlans", "seedPlans", "createPlan", "updatePlan", "deactivatePlan"})
PublicPaymentController ==
  Public({"getPaymentInfo", "submitPayment"})
PublicPlansController ==
  Public({"getPublicPlans"})
StripeWebhookController ==
  Public({"handleWebhook"})
SubscriptionManagementController ==
  ByPlatform({"listSubscriptions", "getOverdueSubscriptions", "updateSubscription", "markAsPaid",
       "resendPaymentEmail", "cancelSubscription", "reactivateSubscription", "suspendSubscription",
       "unsuspendSubscription"})
SubscriptionPaymentController ==
  Public({"getPaymentPageData", "createPaymentIntent", "confirmPayment"})
SupportTicketController ==
  ByPlatform({"getTickets", "updateTicket", "replyToTicket"})
SystemHealthController ==
  ByPlatform({"getSystemHealth"})
TenantManagementController ==
  ByPlatform({"listTenants", "getTenantDetail", "approveTenant", "rejectTenant", "suspendTenant",
       "unsuspendTenant", "exportTenantData", "deleteTenantSecure", "deleteTenant", "impersonateTenant"})
PlatformAuthController ==
  Public({"seed", "login", "loginWithTotp", "refresh"})
  \cup ByPlatform({"setupTotp", "enableTotp", "logout", "getMe"})
DisputeResolutionController ==
  Among({"getDisputeInfo", "getPendingResponses"}, Keepers)
  \cup Among({"resolveDispute", "processResponse"}, Purse)
GoodsReceiptsController ==
  Keyed({"create"}, Staff, "purchase", "create_goods_receipt")
  \cup Among({"findAllByPO", "findOne"}, Staff)
MlPredictionController ==
  LoggedIn({"checkHealth", "predictDemand", "predictBatch", "predictForProduct", "getRecommendations",
       "getProductHistory"})
OcrController ==
  WithAi(Keyed({"extractInvoice"}, Staff, "purchase", "create_purchase_invoice"))
PurchaseAiAssistantController ==
  Among({"chat"}, Staff)
PurchaseAlertsController ==
  LoggedIn({"findAll", "getCount", "markAsRead", "markAllAsRead", "resolve", "snooze", "triggerScan"})
PurchaseInvoicesController ==
  Keyed({"create"}, Staff, "purchase", "create_purchase_invoice")
  \cup Among({"findAll", "findApprovedOrPartial", "findByPO", "findOne"}, Staff)
  \cup Keyed({"update", "approve", "dispute", "resolveDispute"}, Staff, "purchase", "update_purchase_invoice")
  \cup Keyed({"updatePayment"}, Staff, "purchase", "pay_purchase_invoice")
SupplierOnboardingController ==
  Among({"invite"}, Heads)
SupplierOnboardingPublicController ==
  Public({"getInvitation", "completeInvitation"})
SupplierPortalController ==
  Public({"getData", "confirmPO", "refusePO", "uploadScan", "getDisputedInvoices", "respondToDispute"})
SupplierPOsController ==
  WithAi(Among({"generateFromText"}, Purse))
  \cup Keyed({"create"}, Staff, "purchase", "create_purchase_order")
  \cup Among({"findAll", "findOne"}, Staff)
  \cup Keyed({"update"}, Staff, "purchase", "update_purchase_order")
  \cup Keyed({"send"}, Staff, "purchase", "send_purchase_order")
  \cup Keyed({"confirm", "cancel"}, Staff, "purchase", "confirm_purchase_order")
SupplierScoringController ==
  LoggedIn({"ranking", "score", "aiInsightsAnalysis"})
SuppliersController ==
  Keyed({"create"}, Staff, "purchase", "create_supplier")
  \cup Among({"findAll", "findOne", "restore"}, Staff)
  \cup Keyed({"update"}, Staff, "purchase", "update_supplier")
  \cup Keyed({"archive"}, Staff, "purchase", "delete_supplier")
  \cup WithAi(Among({"getRecommendations"}, Staff))
ThreeWayMatchingController ==
  WithAi(LoggedIn({"matchInvoice", "applyMatch", "matchAllPending", "contactSupplier"}))
UploadController ==
  LoggedIn({"uploadInvoiceScan"})
ClientOnboardingController ==
  Among({"inviteClient"}, Heads)
ClientOnboardingPublicController ==
  Public({"getInvitationDetails", "completeOnboarding"})
ClientPortalController ==
  Public({"getPortalData", "confirmOrder", "refuseOrder", "createRecurringFromOrder"})
SalesClientsController ==
  Keyed({"create"}, Keepers, "sales", "create_client")
  \cup Among({"findAll", "findOne"}, Keepers)
  \cup Keyed({"update"}, Keepers, "sales", "update_client")
  \cup Keyed({"remove"}, Heads, "sales", "delete_client")
DeliveryNotesController ==
  Keyed({"create"}, Keepers, "sales", "create_delivery")
  \cup Among({"findAll", "findOne"}, Staff)
  \cup Keyed({"update", "markDelivered"}, Keepers, "sales", "update_delivery")
  \cup Keyed({"cancel", "delete"}, Heads, "sales", "cancel_delivery")
InvoicesController ==
  Keyed({"create"}, Keepers, "sales", "create_invoice")
  \cup Among({"findAll", "findOne"}, Staff)
  \cup Keyed({"update", "markPartiallyPaid", "markPaid", "markOverdue"}, Keepers, "sales", "update_invoice")
  \cup Keyed({"send", "sendByEmail", "sendPaymentReminder"}, Keepers, "sales", "send_invoice")
  \cup WithAi(Among({"generateEmailDraft"}, Keepers))
  \cup Among({"cancel"}, Owner)
  \cup Keyed({"delete"}, Heads, "sales", "delete_invoice")
QuotePortalController ==
  Public({"getPortalData", "acceptQuote", "rejectQuote"})
QuotesController ==
  Keyed({"create"}, Keepers, "sales", "create_quote")
  \cup Among({"findAll", "findOne"}, Staff)
  \cup Keyed({"update"}, Keepers, "sales", "update_quote")
  \cup Keyed({"send"}, Keepers, "sales", "send_quote")
  \cup Among({"accept", "reject", "expire"}, Keepers)
  \cup Keyed({"convert", "convertToInvoice", "convertToOrder"}, Keepers, "sales", "convert_quote")
  \cup Keyed({"delete"}, Heads, "sales", "delete_quote")
RecurringInvoicesController ==
  Keyed({"create"}, Keepers, "sales", "create_recurring")
  \cup Among({"findAll", "findOne", "getInvoiceHistory"}, Staff)
  \cup Among({"getStats", "generateTestInvoice"}, Keepers)
  \cup Keyed({"update", "activate", "deactivate", "pause", "resume", "bulkUpdate"}, Keepers, "sales",
       "update_recurring")
  \cup Keyed({"remove"}, Heads, "sales", "delete_recurring")
SalesDashboardController ==
  Among({"getDashboardStats"}, Staff)
  \cup WithAi(Among({"getAiForecast", "generateEmailDraft"}, Keepers))
SalesMatchingController ==
  LoggedIn({"matchInvoice", "getDraftMatches"})
SalesMLController ==
  WithAi(LoggedIn({"getSalesForecast"}))
  \cup LoggedIn({"getClientChurnRisk", "getHighRiskClients"})
SalesOcrController1 ==
  Among({"scanDocument", "scanInvoice"}, Keepers)
SalesOcrController2 ==
  Among({"scanQuote", "enrichOcr"}, Keepers)
SalesOrdersController ==
  Keyed({"create"}, Keepers, "sales", "create_order")
  \cup Among({"findAll", "findOne"}, Staff)
  \cup Keyed({"update", "startProgress", "markDelivered", "markInvoiced"}, Keepers, "sales", "update_order")
  \cup Keyed({"cancel"}, Owner, "sales", "cancel_order")
  \cup Among({"convertToInvoice", "sendEmail"}, Keepers)
  \cup Among({"delete"}, Heads)
StatisticsController ==
  LoggedIn({"getTeamStatistics"})
ProductCategoriesController ==
  Among({"findAll", "findOne"}, Staff)
  \cup Among({"getArchived", "restore"}, Heads)
  \cup Keyed({"create"}, Staff, "stock", "create_category")
  \cup Keyed({"update"}, Staff, "stock", "update_category")
  \cup Keyed({"remove"}, Staff, "stock", "delete_category")
ProductReservationsController ==
  LoggedIn({"createReservation", "getReservations", "clearReservation", "updateReservation"})
ProductsController1 ==
  Among({"findAll", "findAlerts"}, Staff)
ProductsController2 ==
  Among({"scanImage", "generateSku", "scanServiceDescription", "findOne"}, Staff)
  \cup Among({"getArchived"}, Heads)
  \cup Keyed({"create"}, Staff, "stock", "create_product")
  \cup Keyed({"update"}, Staff, "stock", "update_product")
  \cup Keyed({"softDelete"}, Staff, "stock", "delete_product")
ProductsController3 ==
  Among({"restore"}, Heads)
  \cup Among({"uploadImage", "removeImage", "generateBarcode", "getLabel", "getBulkLabels"}, Staff)
StockDashboardController ==
  LoggedIn({"getDashboard", "getProductsDashboard", "getServicesDashboard"})
StockMovementsController ==
  Among({"findAll", "findOne", "createManual", "remove"}, Staff)
  \cup Among({"getArchived", "restore"}, Heads)
WarehousesController ==
  Among({"findAll", "findOne", "getWarehouseStock", "create", "update", "remove"}, Staff)
SubtasksController ==
  LoggedIn({"findByTask", "getTaskProgress", "testGroq"})
  \cup Keyed({"create"}, Anyone, "collaboration", "create_subtask")
  \cup WithAi(Keyed({"generateSubtasks"}, Anyone, "collaboration", "create_subtask"))
  \cup Keyed({"update"}, Anyone, "collaboration", "update_subtask")
  \cup Keyed({"markCompleteByTeamMember"}, Anyone, "collaboration", "mark_complete_subtask")
  \cup Keyed({"remove"}, Anyone, "collaboration", "delete_subtask")
SupportController ==
  LoggedIn({"createTicket"})
TasksController ==
  LoggedIn({"create", "findAllByBusiness", "findOne", "update", "moveTask", "detectPriority",
       "improveDescription", "remove"})
TenantsController ==
  Among({"getMy"}, Staff)
  \cup Among({"updateMy", "uploadMyLogo"}, Owner)
  \cup Among({"create", "findAll", "delete"}, Platform)
  \cup Among({"findOne", "update"}, Platform \cup Owner)
UsersController ==
  LoggedIn({"getMyProfile", "updateMyProfile", "uploadAvatar", "changePassword"})
  \cup Among({"findAll", "findOne", "update", "delete", "changeRole", "suspend", "activate"}, Platform)
-----------------------------------------------------------------------------
Handled ==
    ActivitiesController \cup AuthController1 \cup AuthController2 \cup BusinessesController1 \cup
    BusinessesController2 \cup GlobalAiAssistantController \cup InvitationsController \cup
    BusinessInvitationsController \cup DailyCheckinsController \cup CollaborationTasksController \cup
    AuditLogsController \cup MessagesController \cup AccountsController \cup DepositsController \cup
    ForecastController \cup PaymentSchedulesController \cup PaymentsController \cup
    RecurringInvoicePaymentsController \cup SalaryController \cup SupplierPaymentsController \cup
    SupplierSchedulePublicController \cup TransactionsController \cup TransfersController \cup
    AiPricingController \cup AuditLogController \cup DashboardController \cup PaymentManagementController
    \cup PlanManagementController \cup PublicPaymentController \cup PublicPlansController \cup
    StripeWebhookController \cup SubscriptionManagementController \cup SubscriptionPaymentController \cup
    SupportTicketController \cup SystemHealthController \cup TenantManagementController \cup
    PlatformAuthController \cup DisputeResolutionController \cup GoodsReceiptsController \cup
    MlPredictionController \cup OcrController \cup PurchaseAiAssistantController \cup
    PurchaseAlertsController \cup PurchaseInvoicesController \cup SupplierOnboardingController \cup
    SupplierOnboardingPublicController \cup SupplierPortalController \cup SupplierPOsController \cup
    SupplierScoringController \cup SuppliersController \cup ThreeWayMatchingController \cup UploadController
    \cup ClientOnboardingController \cup ClientOnboardingPublicController \cup ClientPortalController \cup
    SalesClientsController \cup DeliveryNotesController \cup InvoicesController \cup QuotePortalController
    \cup QuotesController \cup RecurringInvoicesController \cup SalesDashboardController \cup
    SalesMatchingController \cup SalesMLController \cup SalesOcrController1 \cup SalesOcrController2 \cup
    SalesOrdersController \cup StatisticsController \cup ProductCategoriesController \cup
    ProductReservationsController \cup ProductsController1 \cup ProductsController2 \cup ProductsController3
    \cup StockDashboardController \cup StockMovementsController \cup WarehousesController \cup
    SubtasksController \cup SupportController \cup TasksController \cup TenantsController \cup
    UsersController

(* The distinct demands, those of the platform's own administrators and the *)
(* pages that need no session aside.                                        *)
Demands == {handler.demand : handler \in {h \in Handled : h.demand.by = "user"}}
=============================================================================
