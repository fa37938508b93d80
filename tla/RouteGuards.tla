----------------------------- MODULE RouteGuards -----------------------------
(***************************************************************************)
(* Who the control plane lets in where: the capabilities of the roles       *)
(* (services/rbac.py) and, router by router, the check that stands in       *)
(* front of each route's work (routes/*.py).  A guard names the scope it is *)
(* checked in and the capabilities of which one is enough.                  *)
(***************************************************************************)

Guard(scope, caps) == [scope |-> scope, caps |-> caps]

\* No token is asked for (a webhook, a code that is redeemed, the state of the system).
Everyone == Guard("everyone", {})
\* get_current_actor, and no more; bearer_scheme for the session's own routes.
SignedIn == Guard("actor", {})
\* get_current_sync_device
HubDevice == Guard("device", {})
\* assert_platform_admin
PlatformOnly == Guard("platform", {})
\* assert_tenant_capability
TenantWide(cap) == Guard("tenant", {cap})
\* assert_branch_capability, assert_branch_any_capability
InBranch(caps) == Guard("branch", caps)
\* assert_branch_any_capability with branch_id "": any branch of the tenant will do.
InAnyBranch(caps) == Guard("any branch", caps)

\* Mutant of RoleCapabilities: the till may approve what it has taken back.
RoleCapabilitiesTill(role) ==
    IF role = "cashier" THEN {"sales.bill", "sales.return", "refund.approve"} ELSE {"refund.approve"}

\* ROLE_CAPABILITY_MAP, by capabilities_for_role
RoleCapabilities(role) ==
    CASE role = "platform_super_admin" ->
           {"platform.manage", "tenant.manage", "branch.manage", "staff.manage", "audit.view", "reports.view"}
      [] role = "tenant_owner" ->
           {"tenant.manage", "branch.manage", "catalog.manage", "pricing.manage", "barcode.manage", "purchase.manage",
            "inventory.adjust", "inventory.transfer", "sales.bill", "sales.return", "refund.approve",
            "compliance.export", "staff.manage", "settings.manage", "audit.view", "reports.view"}
      [] role = "finance_admin" -> {"refund.approve", "compliance.export", "reports.view", "audit.view"}
      [] role = "catalog_admin" -> {"catalog.manage", "pricing.manage", "barcode.manage", "reports.view"}
      [] role = "inventory_admin" -> {"purchase.manage", "inventory.adjust", "inventory.transfer", "reports.view"}
      [] role = "store_manager" -> {"branch.manage", "staff.manage", "reports.view"}
      [] role = "cashier" -> {"sales.bill", "sales.return"}
      [] role = "stock_clerk" -> {"inventory.adjust", "inventory.transfer"}
      [] role = "sales_associate" -> {"sales.bill"}
      [] role = "auditor" -> {"audit.view", "reports.view"}
      [] OTHER -> {}

-----------------------------------------------------------------------------
(* The routers. *)

AuthRoutes == [
    exchange_oidc_token |-> Everyone,
    redeem_store_desktop_activation |-> Everyone,
    redeem_runtime_activation |-> Everyone,
    unlock_store_desktop_runtime |-> Everyone,
    refresh_session |-> SignedIn,
    sign_out |-> SignedIn,
    get_me |-> SignedIn]

BarcodeRoutes == [
    allocate_catalog_product_barcode |-> TenantWide("barcode.manage"),
    lookup_branch_catalog_scan |-> InBranch({"catalog.manage", "sales.bill"}),
    preview_branch_barcode_label |-> InBranch({"barcode.manage", "catalog.manage", "sales.bill"})]

ExpiryReviewRoutes == [
    create_goods_receipt_batch_lots |-> InBranch({"purchase.manage", "inventory.adjust"}),
    batch_expiry_report |-> InBranch({"purchase.manage", "inventory.adjust", "reports.view"}),
    batch_expiry_board |-> InBranch({"inventory.adjust", "reports.view"}),
    create_batch_expiry_review_session |-> InBranch({"inventory.adjust"}),
    record_batch_expiry_review_session |-> InBranch({"inventory.adjust"})]

ExpirySettlementRoutes == [
    approve_batch_expiry_review_session |-> InBranch({"inventory.adjust"}),
    cancel_batch_expiry_review_session |-> InBranch({"inventory.adjust"}),
    create_batch_expiry_write_off |-> InBranch({"inventory.adjust"})]

CheckoutRoutes == [
    create_sale |-> InBranch({"sales.bill"}),
    checkout_price_preview |-> InBranch({"sales.bill", "catalog.manage"}),
    create_checkout_payment_session |-> InBranch({"sales.bill"}),
    list_checkout_payment_sessions |-> InBranch({"sales.bill"}),
    get_checkout_payment_session |-> InBranch({"sales.bill"})]

PaymentSessionRoutes == [
    cancel_checkout_payment_session |-> InBranch({"sales.bill"}),
    refresh_checkout_payment_session |-> InBranch({"sales.bill"}),
    finalize_checkout_payment_session |-> InBranch({"sales.bill"}),
    retry_checkout_payment_session |-> InBranch({"sales.bill"})]

SaleReturnRoutes == [
    list_sales |-> InBranch({"sales.bill", "sales.return", "refund.approve"}),
    create_sale_return |-> InBranch({"sales.return"}),
    list_sale_returns |-> InBranch({"sales.return", "refund.approve"}),
    approve_sale_return_refund |-> InBranch({"refund.approve"}),
    ingest_cashfree_checkout_webhook |-> Everyone]

CatalogRoutes == [
    create_catalog_product |-> TenantWide("catalog.manage"),
    list_catalog_products |-> TenantWide("catalog.manage"),
    upsert_branch_catalog_item |-> TenantWide("catalog.manage"),
    list_branch_catalog_items |-> InBranch({"catalog.manage", "sales.bill"})]

PriceTierRoutes == [
    create_price_tier |-> TenantWide("catalog.manage"),
    update_price_tier |-> TenantWide("catalog.manage"),
    list_price_tiers |-> TenantWide("catalog.manage"),
    upsert_branch_price_tier_price |-> TenantWide("catalog.manage"),
    list_branch_price_tier_prices |-> InBranch({"catalog.manage", "sales.bill"})]

CommerceRoutes == [
    get_owner_billing_lifecycle |-> TenantWide("tenant.manage"),
    bootstrap_tenant_subscription |-> TenantWide("tenant.manage"),
    ingest_subscription_webhook |-> Everyone]

ComplianceRoutes == [
    create_gst_export |-> InBranch({"compliance.export"}),
    list_gst_exports |-> InBranch({"compliance.export"}),
    get_branch_irp_profile |-> InBranch({"compliance.export"}),
    upsert_branch_irp_profile |-> InBranch({"compliance.export"}),
    attach_irn |-> InBranch({"compliance.export"}),
    retry_gst_export_submission |-> InBranch({"compliance.export"})]

GiftCardRoutes == [
    get_loyalty_program |-> TenantWide("tenant.manage"),
    update_loyalty_program |-> TenantWide("tenant.manage"),
    list_gift_cards |-> InAnyBranch({"tenant.manage", "sales.bill"}),
    create_gift_card |-> TenantWide("tenant.manage"),
    get_gift_card |-> InAnyBranch({"tenant.manage", "sales.bill"}),
    get_gift_card_by_code |-> InAnyBranch({"tenant.manage", "sales.bill"}),
    adjust_gift_card |-> TenantWide("tenant.manage"),
    disable_gift_card |-> TenantWide("tenant.manage"),
    reactivate_gift_card |-> TenantWide("tenant.manage")]

CustomerProfileRoutes == [
    list_customer_profiles |-> InAnyBranch({"reports.view", "sales.bill", "sales.return"}),
    create_customer_profile |-> InAnyBranch({"reports.view", "sales.bill", "sales.return"}),
    get_customer_profile |-> InAnyBranch({"reports.view", "sales.bill", "sales.return"}),
    update_customer_profile |-> InAnyBranch({"reports.view", "sales.bill", "sales.return"}),
    archive_customer_profile |-> InAnyBranch({"reports.view", "sales.bill", "sales.return"}),
    reactivate_customer_profile |-> InAnyBranch({"reports.view", "sales.bill", "sales.return"})]

CustomerValueRoutes == [
    get_customer_store_credit |-> InAnyBranch({"reports.view", "sales.bill", "sales.return"}),
    issue_customer_store_credit |-> InAnyBranch({"reports.view", "sales.bill", "sales.return"}),
    adjust_customer_store_credit |-> InAnyBranch({"reports.view", "sales.bill", "sales.return"}),
    get_customer_loyalty |-> InAnyBranch({"reports.view", "sales.bill", "sales.return"}),
    adjust_customer_loyalty |-> TenantWide("tenant.manage")]

CustomerReportRoutes == [
    list_customers |-> InAnyBranch({"reports.view", "sales.bill", "sales.return"}),
    get_customer_history |-> InAnyBranch({"reports.view", "sales.bill", "sales.return"}),
    get_branch_customer_report |-> InBranch({"reports.view", "sales.bill", "sales.return"})]

ExchangeRoutes == [
    create_exchange |-> InBranch({"sales.return"})]

ReceivingRoutes == [
    receiving_board |-> TenantWide("purchase.manage"),
    create_goods_receipt |-> TenantWide("purchase.manage"),
    create_stock_adjustment |-> TenantWide("inventory.adjust"),
    create_stock_count |-> TenantWide("inventory.adjust"),
    stock_count_board |-> TenantWide("inventory.adjust")]

StockCountRoutes == [
    create_stock_count_review_session |-> TenantWide("inventory.adjust"),
    record_stock_count_review_session |-> TenantWide("inventory.adjust"),
    approve_stock_count_review_session |-> TenantWide("inventory.adjust"),
    cancel_stock_count_review_session |-> TenantWide("inventory.adjust"),
    create_transfer |-> TenantWide("inventory.transfer")]

StockBoardRoutes == [
    list_goods_receipts |-> TenantWide("purchase.manage"),
    inventory_ledger |-> TenantWide("purchase.manage"),
    inventory_snapshot |-> InBranch({"purchase.manage", "inventory.adjust", "inventory.transfer", "sales.bill", "reports.view"}),
    replenishment_board |-> InBranch({"purchase.manage", "inventory.adjust", "reports.view"}),
    restock_board |-> InBranch({"purchase.manage", "inventory.adjust", "reports.view"})]

RestockRoutes == [
    create_restock_task |-> TenantWide("inventory.adjust"),
    pick_restock_task |-> TenantWide("inventory.adjust"),
    complete_restock_task |-> TenantWide("inventory.adjust"),
    cancel_restock_task |-> TenantWide("inventory.adjust"),
    transfer_board |-> TenantWide("inventory.transfer")]

OperationsRoutes == [
    list_operations_jobs |-> InBranch({"reports.view", "compliance.export", "purchase.manage", "settings.manage"}),
    retry_operations_job |-> InBranch({"reports.view", "compliance.export", "purchase.manage", "settings.manage"})]

PlatformTenantRoutes == [
    create_tenant |-> PlatformOnly,
    list_tenants |-> PlatformOnly,
    create_owner_invite |-> PlatformOnly,
    get_platform_observability_summary |-> PlatformOnly]

PlatformBillingRoutes == [
    list_billing_plans |-> PlatformOnly,
    create_billing_plan |-> PlatformOnly,
    get_tenant_billing_lifecycle |-> PlatformOnly,
    suspend_tenant_billing |-> PlatformOnly,
    reactivate_tenant_billing |-> PlatformOnly,
    create_tenant_billing_override |-> PlatformOnly]

ProcurementRoutes == [
    create_purchase_invoice |-> TenantWide("purchase.manage"),
    list_purchase_invoices |-> InBranch({"purchase.manage", "reports.view"}),
    create_supplier_return |-> TenantWide("purchase.manage"),
    create_supplier_payment |-> TenantWide("purchase.manage")]

CampaignRoutes == [
    list_promotion_campaigns |-> TenantWide("tenant.manage"),
    create_promotion_campaign |-> TenantWide("tenant.manage"),
    get_promotion_campaign |-> TenantWide("tenant.manage"),
    update_promotion_campaign |-> TenantWide("tenant.manage"),
    create_promotion_code |-> TenantWide("tenant.manage"),
    disable_promotion_campaign |-> TenantWide("tenant.manage"),
    reactivate_promotion_campaign |-> TenantWide("tenant.manage")]

VoucherRoutes == [
    list_customer_vouchers |-> TenantWide("tenant.manage"),
    issue_customer_voucher |-> TenantWide("tenant.manage"),
    cancel_customer_voucher |-> TenantWide("tenant.manage")]

PurchasingRoutes == [
    create_supplier |-> TenantWide("purchase.manage"),
    list_suppliers |-> TenantWide("purchase.manage"),
    create_purchase_order |-> TenantWide("purchase.manage"),
    list_purchase_orders |-> TenantWide("purchase.manage"),
    get_purchase_order |-> TenantWide("purchase.manage"),
    submit_purchase_order |-> TenantWide("purchase.manage"),
    approve_purchase_order |-> TenantWide("purchase.manage"),
    purchase_approval_report |-> TenantWide("purchase.manage")]

DashboardRoutes == [
    branch_management_dashboard |-> InBranch({"reports.view", "purchase.manage"})]

RuntimeDeviceRoutes == [
    list_runtime_devices |-> InBranch({"sales.bill", "sales.return", "refund.approve"}),
    resolve_runtime_device_claim |-> InBranch({"sales.bill", "sales.return", "refund.approve"}),
    bootstrap_runtime_hub_identity |-> InBranch({"sales.bill", "sales.return", "refund.approve"}),
    record_runtime_device_heartbeat |-> InBranch({"sales.bill", "sales.return", "refund.approve"})]

PrintJobRoutes == [
    list_runtime_device_print_jobs |-> InBranch({"sales.bill", "sales.return", "refund.approve"}),
    complete_runtime_print_job |-> InBranch({"sales.bill", "sales.return", "refund.approve"}),
    queue_sale_invoice_print_job |-> InBranch({"sales.bill", "sales.return", "refund.approve"}),
    queue_sale_return_print_job |-> InBranch({"sales.bill", "sales.return", "refund.approve"}),
    queue_barcode_label_print_job |-> InBranch({"barcode.manage", "catalog.manage", "sales.bill"})]

SupplierDisputeRoutes == [
    create_vendor_dispute |-> TenantWide("purchase.manage"),
    resolve_vendor_dispute |-> TenantWide("purchase.manage"),
    vendor_dispute_board |-> InBranch({"purchase.manage", "reports.view", "sales.bill", "sales.return"}),
    supplier_payables_report |-> InBranch({"purchase.manage", "reports.view", "sales.bill", "sales.return"}),
    supplier_aging_report |-> InBranch({"purchase.manage", "reports.view", "sales.bill", "sales.return"}),
    supplier_statements |-> InBranch({"purchase.manage", "reports.view", "sales.bill", "sales.return"}),
    supplier_due_schedule |-> InBranch({"purchase.manage", "reports.view", "sales.bill", "sales.return"}),
    supplier_settlement_report |-> InBranch({"purchase.manage", "reports.view", "sales.bill", "sales.return"})]

SupplierReportRoutes == [
    supplier_settlement_blockers |-> InBranch({"purchase.manage", "reports.view", "sales.bill", "sales.return"}),
    supplier_exception_report |-> InBranch({"purchase.manage", "reports.view", "sales.bill", "sales.return"}),
    supplier_escalation_report |-> InBranch({"purchase.manage", "reports.view", "sales.bill", "sales.return"}),
    supplier_performance_report |-> InBranch({"purchase.manage", "reports.view", "sales.bill", "sales.return"}),
    supplier_payment_activity |-> InBranch({"purchase.manage", "reports.view", "sales.bill", "sales.return"})]

SyncRoutes == [
    sync_heartbeat |-> HubDevice,
    observe_sync_spokes |-> HubDevice,
    issue_sync_spoke_activation |-> HubDevice,
    replay_offline_sale |-> HubDevice,
    sync_push |-> HubDevice,
    sync_pull |-> HubDevice]

SyncStatusRoutes == [
    get_sync_status |-> InBranch({"sales.bill", "sales.return", "refund.approve"}),
    list_sync_conflicts |-> InBranch({"sales.bill", "sales.return", "refund.approve"}),
    list_sync_envelopes |-> InBranch({"sales.bill", "sales.return", "refund.approve"}),
    list_sync_spokes |-> InBranch({"sales.bill", "sales.return", "refund.approve"})]

SystemRoutes == [
    get_system_health |-> Everyone,
    get_authority_boundary |-> Everyone,
    get_security_controls |-> Everyone,
    get_environment_contract |-> Everyone]

TenantRoutes == [
    get_tenant_summary |-> InAnyBranch({"tenant.manage", "sales.bill"}),
    create_branch |-> TenantWide("branch.manage"),
    list_branches |-> InAnyBranch({"branch.manage", "sales.bill"}),
    create_tenant_membership |-> TenantWide("staff.manage"),
    create_branch_membership |-> TenantWide("staff.manage"),
    list_audit_events |-> TenantWide("audit.view")]

StaffDeviceRoutes == [
    create_staff_profile |-> TenantWide("staff.manage"),
    list_staff_profiles |-> TenantWide("staff.manage"),
    register_branch_device |-> TenantWide("branch.manage"),
    list_branch_devices |-> TenantWide("branch.manage"),
    get_branch_runtime_policy |-> InBranch({"branch.manage"}),
    update_branch_runtime_policy |-> InBranch({"branch.manage"})]

ShiftRoutes == [
    list_branch_shift_sessions |-> InBranch({"branch.manage", "sales.bill", "sales.return"}),
    create_branch_shift_session |-> InBranch({"branch.manage", "sales.bill", "sales.return"}),
    get_branch_shift_session |-> InBranch({"branch.manage", "sales.bill", "sales.return"}),
    close_branch_shift_session |-> InBranch({"branch.manage", "sales.bill", "sales.return"}),
    force_close_branch_shift_session |-> InBranch({"branch.manage"})]

CashierAttendanceRoutes == [
    list_branch_cashier_sessions |-> InBranch({"branch.manage", "sales.bill", "sales.return"}),
    list_branch_attendance_sessions |-> InBranch({"branch.manage", "sales.bill", "sales.return"}),
    create_branch_attendance_session |-> InBranch({"branch.manage", "sales.bill", "sales.return"}),
    create_branch_cashier_session |-> InBranch({"branch.manage", "sales.bill", "sales.return"})]

CashierSessionRoutes == [
    get_branch_cashier_session |-> InBranch({"branch.manage", "sales.bill", "sales.return"}),
    close_branch_cashier_session |-> InBranch({"branch.manage", "sales.bill", "sales.return"}),
    force_close_branch_cashier_session |-> InBranch({"branch.manage"}),
    close_branch_attendance_session |-> InBranch({"branch.manage", "sales.bill", "sales.return"}),
    force_close_branch_attendance_session |-> InBranch({"branch.manage"})]

ActivationRoutes == [
    list_branch_device_claims |-> InBranch({"branch.manage"}),
    list_branch_workforce_audit_events |-> InBranch({"branch.manage"}),
    export_branch_workforce_audit_events |-> InBranch({"branch.manage"}),
    approve_branch_device_claim |-> InBranch({"branch.manage"}),
    issue_store_desktop_activation |-> InBranch({"branch.manage"}),
    issue_runtime_activation |-> InBranch({"branch.manage"})]
=============================================================================
