---------------------------- MODULE TypedMethods ----------------------------
(***************************************************************************)
(* The typed methods of Client that are one doJSON call, a row for each:   *)
(* the operation of the generated client they run, the type of `out' they  *)
(* decode into ("none" for nil), and whether they take RequestOptions.     *)
(***************************************************************************)
EXTENDS TLC

Call(op, out)  == [op |-> op, out |-> out, keyed |-> FALSE]
Keyed(op, out) == [op |-> op, out |-> out, keyed |-> TRUE]

StoreMethods ==
       "CreateStore" :> Keyed("CreateStore", "CatalogStore")
    @@ "ListStores" :> Call("ListStores", "StoreListResponse")
    @@ "GetStore" :> Call("GetStore", "CatalogStore")
    @@ "PatchStore" :> Call("PatchStore", "CatalogStore")
    @@ "DeleteStore" :> Call("DeleteStore", "none")
    @@ "PublishStore" :> Call("PublishStore", "CatalogStore")
    @@ "ArchiveStore" :> Call("ArchiveStore", "CatalogStore")

ProductMethods ==
       "CreateProduct" :> Keyed("CreateProduct", "CatalogProduct")
    @@ "ListProducts" :> Call("ListProducts", "ProductListResponse")
    @@ "GetProduct" :> Call("GetProduct", "CatalogProduct")
    @@ "PatchProduct" :> Call("PatchProduct", "CatalogProduct")
    @@ "DeleteProduct" :> Call("DeleteProduct", "none")
    @@ "PublishProduct" :> Call("PublishProduct", "CatalogProduct")
    @@ "ArchiveProduct" :> Call("ArchiveProduct", "CatalogProduct")

PlanMethods ==
       "CreatePlan" :> Keyed("CreatePlan", "CatalogPlan")
    @@ "ListPlans" :> Call("ListPlans", "PlanListResponse")
    @@ "GetPlan" :> Call("GetPlan", "CatalogPlan")
    @@ "PatchPlan" :> Call("PatchPlan", "CatalogPlan")
    @@ "DeletePlan" :> Call("DeletePlan", "none")
    @@ "PublishPlan" :> Call("PublishPlan", "CatalogPlan")
    @@ "ArchivePlan" :> Call("ArchivePlan", "CatalogPlan")

PriceMethods ==
       "CreatePrice" :> Keyed("CreatePrice", "CatalogPrice")
    @@ "ListPrices" :> Call("ListPrices", "PriceListResponse")
    @@ "GetPrice" :> Call("GetPrice", "CatalogPrice")
    @@ "PatchPrice" :> Call("PatchPrice", "CatalogPrice")
    @@ "DeletePrice" :> Call("DeletePrice", "none")
    @@ "PublishPrice" :> Call("PublishPrice", "CatalogPrice")
    @@ "ArchivePrice" :> Call("ArchivePrice", "CatalogPrice")

DiscoveryMethods ==
       "ListCatalogProducts" :>
           Call("ListCatalogProducts", "CatalogProductListResponse")
    @@ "GetCatalogProduct" :>
           Call("GetCatalogProduct", "CatalogDiscoveryProduct")
    @@ "CreateCatalogCheckoutIntent" :>
           Call("CreateCatalogCheckoutIntent", "CatalogCheckoutIntent")

SessionMethods ==
       "CreatePaymentSession" :>
           Keyed("CreatePaymentSession", "PaymentSession")
    @@ "CreateDemoPaymentSession" :>
           Call("CreateDemoPaymentSession", "PaymentSession")
    @@ "GetPaymentSession" :> Call("GetPaymentSession", "PaymentSession")
    @@ "FulfillDemoPaymentSession" :> Call("FulfillDemoPaymentSession", "none")
    @@ "SimulatePayment" :> Call("SimulatePayment", "PaymentSession")
    @@ "ListPaymentMethods" :>
           Call("ListPaymentMethods", "[]PaymentMethodInfo")
    @@ "GetRates" :> Call("GetRates", "[]RateInfo")
    @@ "ListSandboxFaucets" :> Call("ListSandboxFaucets", "map[string]string")

CheckoutIntentMethods ==
       "CreateCheckoutIntent" :>
           Keyed("CreatePaymentSession", "PaymentSessionOrIntent")
    @@ "GetCheckoutIntent" :>
           Call("GetPaymentSession", "PaymentSessionOrIntent")
    @@ "SelectCheckoutMethod" :> Call("SelectPaymentMethod", "PaymentSession")

CredentialMethods ==
       "GetMerchantCredentialStatus" :>
           Call("GetMerchantCredentialStatus", "MerchantCredentialStatus")
    @@ "RotateMerchantCredential" :>
           Keyed("RotateMerchantCredential", "Merchant")
    @@ "RevokeMerchantCredential" :>
           Keyed("RevokeMerchantCredential", "Merchant")
    @@ "UpdateMerchantWebhook" :> Keyed("UpdateMerchantWebhook", "Merchant")
    @@ "TestMerchantWebhookDelivery" :>
           Call("TestMerchantWebhookDelivery", "WebhookTestDeliveryResult")

MerchantMethods ==
       "RegisterMerchant" :> Call("RegisterMerchant", "Merchant")
    @@ "GetMe" :> Call("GetMe", "Merchant")
    @@ "GetPaymentMethodPolicy" :>
           Call("GetPaymentMethodPolicy", "PaymentMethodPolicyState")
    @@ "UpdatePaymentMethodPolicy" :>
           Call("UpdatePaymentMethodPolicy", "PaymentMethodPolicyState")

PayoutMethods ==
       "RequestPayout" :> Keyed("RequestPayout", "Payout")
    @@ "GetPayout" :> Call("GetPayout", "Payout")

RegistrationMethods ==
       "RequestEmailVerification" :>
           Call("RequestEmailVerification", "RequestEmailVerificationResponse")
    @@ "ConfirmEmailVerification" :>
           Call("ConfirmEmailVerification", "ConfirmEmailVerificationResponse")
    @@ "RequestRegistrationProofOfWork" :>
           Call("RequestRegistrationProofOfWork",
                "RequestRegistrationProofOfWorkResponse")

WalletMethods ==
       "CreateWallet" :> Call("CreateWallet", "Wallet")
    @@ "ListWallets" :> Call("ListWallets", "[]Wallet")
    @@ "GetWallet" :> Call("GetWallet", "Wallet")
    @@ "ListTransactions" :> Call("ListTransactions", "[]Transaction")
-----------------------------------------------------------------------------
MethodTable ==
       StoreMethods @@ ProductMethods @@ PlanMethods
    @@ PriceMethods @@ DiscoveryMethods @@ SessionMethods
    @@ CheckoutIntentMethods @@ CredentialMethods @@ MerchantMethods
    @@ PayoutMethods @@ RegistrationMethods @@ WalletMethods
=============================================================================
