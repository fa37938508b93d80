----------------------------- MODULE BackOffice -----------------------------
(***************************************************************************)
(* The components behind the counter: documents of the stock, lots and      *)
(* their expiry, suppliers' accounts, the export of invoices to the tax     *)
(* portal, what customers hold, campaigns and the price of a cart.  Their   *)
(* requests are those of one control plane.                                 *)
(*                                                                          *)
(* As on the BranchFloor no handler modelled here reads a row of another    *)
(* part: a property of one part holds of every shuffle of the parts if it   *)
(* holds of the part, and office says which of them a behaviour explores.   *)
(***************************************************************************)
EXTENDS StockDocuments, BatchLots, SupplierLedger, GstExport, CustomerValue, Promotions, CheckoutPricing

VARIABLE office

OfficeParts == {"documents", "lots", "suppliers", "export", "value", "campaigns", "pricing"}

officeVars ==
    <<office, deskVars, stockRows, batchRows, supplierRows, gstVars, valueRows, promotionRows, pricingRows>>

OfficeInit ==
    /\ office \in OfficeParts
    /\ StockDocumentsInit /\ BatchLotsInit /\ SupplierLedgerInit /\ GstExportInit
    /\ CustomerValueInit /\ PromotionsInit /\ CheckoutPricingInit

\* The part is part, and the rows of the other parts stand still.
At(part) ==
    /\ office = part /\ UNCHANGED office
    /\ part # "documents" => UNCHANGED stockRows
    /\ part # "lots" => UNCHANGED batchRows
    /\ part # "suppliers" => UNCHANGED supplierRows
    /\ part # "export" => UNCHANGED gstVars
    /\ part # "value" => UNCHANGED valueRows
    /\ part # "campaigns" => UNCHANGED promotionRows
    /\ part # "pricing" => UNCHANGED pricingRows
    /\ part = "pricing" => UNCHANGED deskVars

OfficeNext ==
    \/ At("documents") /\ StockDocumentsNext
    \/ At("lots") /\ BatchLotsNext
    \/ At("suppliers") /\ SupplierLedgerNext
    \/ At("export") /\ GstExportNext
    \/ At("value") /\ CustomerValueNext
    \/ At("campaigns") /\ PromotionsNext
    \/ At("pricing") /\ CheckoutPricingNext

OfficeSpec == OfficeInit /\ [][OfficeNext]_officeVars
=============================================================================
