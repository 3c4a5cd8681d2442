--------------------------- MODULE EndpointReplies ---------------------------
(***************************************************************************)
(* What the generated client makes of an answer: the ParseXHTTPResponse    *)
(* functions of plaidlyapi.gen.go, a row for each.  A row says into which  *)
(* Go type the JSON body of a status is decoded; every function ends with  *)
(* a case that decodes the JSON of any other status into Error.            *)
(***************************************************************************)
EXTENDS TLC

DefaultOnly == << >>    \* a row with no case but the last

CatalogDiscoveryParsers ==
       "AttemptAgentWalletSpend" :> (200 :> "AgentSpendAttempt")
    @@ "CreateCatalogCheckoutIntent" :> (201 :> "CatalogCheckoutIntent")
    @@ "ListCatalogProducts" :> (200 :> "CatalogProductListResponse")
    @@ "GetCatalogProduct" :> (200 :> "CatalogDiscoveryProduct")

AccountParsers ==
       "GetMe" :> (200 :> "Merchant")
    @@ "GetMerchantCredentialStatus" :> (200 :> "MerchantCredentialStatus")
    @@ "RevokeMerchantCredential" :> (200 :> "Merchant")
    @@ "RotateMerchantCredential" :> (200 :> "Merchant")

LoginAndPolicyParsers ==
       "UserLogin" :> (200 :> "User")
    @@ "GetPaymentMethodPolicy" :> (200 :> "PaymentMethodPolicyState")
    @@ "UpdatePaymentMethodPolicy" :> (200 :> "PaymentMethodPolicyState")
    @@ "UserRegister" :> (201 :> "User")

WebhookAndMerchantParsers ==
       "UpdateMerchantWebhook" :> (200 :> "Merchant")
    @@ "TestMerchantWebhookDelivery" :> (200 :> "WebhookTestDeliveryResult")
    @@ "RegisterMerchant" :> (201 :> "Merchant")

RegistrationParsers ==
       "RequestEmailVerification" :> (200 :> "RequestEmailVerificationResponse")
    @@ "ConfirmEmailVerification" :> (200 :> "ConfirmEmailVerificationResponse")
    @@ "RequestRegistrationProofOfWork" :>
           (200 :> "RequestRegistrationProofOfWorkResponse")
    @@ "ListPaymentMethods" :> (200 :> "[]PaymentMethodInfo")

SessionCreationParsers ==
       "CreatePaymentSession" :> (201 :> "PaymentSessionOrIntent")
    @@ "CreateDemoPaymentSession" :> (201 :> "PaymentSession")
    @@ "GetPaymentSession" :> (200 :> "PaymentSessionOrIntent")
    @@ "FulfillDemoPaymentSession" :> (404 :> "Error")

DemoSessionParsers ==
       "ProvideDevWalletForDemo" :> (200 :> "DevWallet" @@ 404 :> "Error")
    @@ "GetReceiptBySessionID" :> DefaultOnly
    @@ "SelectPaymentMethod" :> (200 :> "PaymentSession")

SessionOutcomeParsers ==
       "SimulatePayment" :>
           (200 :> "PaymentSession" @@ 404 :> "Error" @@ 409 :> "Error")
    @@ "RetryWebhookDelivery" :> (202 :> "WebhookDeliveryStatus")

PayoutParsers ==
       "RequestPayout" :> (201 :> "Payout")
    @@ "GetPayout" :> (200 :> "Payout")

PlanItemParsers ==
       "ListPlans" :> (200 :> "PlanListResponse")
    @@ "CreatePlan" :> (201 :> "CatalogPlan")
    @@ "DeletePlan" :> DefaultOnly
    @@ "GetPlan" :> (200 :> "CatalogPlan")

PlanChangeParsers ==
       "PatchPlan" :> (200 :> "CatalogPlan" @@ 201 :> "CatalogPlan")
    @@ "ArchivePlan" :> (200 :> "CatalogPlan")
    @@ "PublishPlan" :> (200 :> "CatalogPlan")

PriceItemParsers ==
       "ListPrices" :> (200 :> "PriceListResponse")
    @@ "CreatePrice" :> (201 :> "CatalogPrice")
    @@ "DeletePrice" :> DefaultOnly
    @@ "GetPrice" :> (200 :> "CatalogPrice")

PriceChangeParsers ==
       "PatchPrice" :> (200 :> "CatalogPrice" @@ 201 :> "CatalogPrice")
    @@ "ArchivePrice" :> (200 :> "CatalogPrice")
    @@ "PublishPrice" :> (200 :> "CatalogPrice")

ProductItemParsers ==
       "ListProducts" :> (200 :> "ProductListResponse")
    @@ "CreateProduct" :> (201 :> "CatalogProduct")
    @@ "DeleteProduct" :> DefaultOnly
    @@ "GetProduct" :> (200 :> "CatalogProduct")

ProductChangeParsers ==
       "PatchProduct" :> (200 :> "CatalogProduct" @@ 201 :> "CatalogProduct")
    @@ "ArchiveProduct" :> (200 :> "CatalogProduct")
    @@ "PublishProduct" :> (200 :> "CatalogProduct")

RatesAndFaucetsParsers ==
       "GetRates" :> (200 :> "[]RateInfo")
    @@ "FundSepoliaFaucet" :> (200 :> "FundSepoliaFaucetResponse")
    @@ "ListSandboxFaucets" :> (200 :> "map[string]string")

StoreItemParsers ==
       "ListStores" :> (200 :> "StoreListResponse")
    @@ "CreateStore" :> (201 :> "CatalogStore")
    @@ "DeleteStore" :> DefaultOnly
    @@ "GetStore" :> (200 :> "CatalogStore")

StoreChangeParsers ==
       "PatchStore" :> (200 :> "CatalogStore")
    @@ "ArchiveStore" :> (200 :> "CatalogStore")
    @@ "PublishStore" :> (200 :> "CatalogStore")

WalletParsers ==
       "ListWallets" :> (200 :> "[]Wallet")
    @@ "CreateWallet" :> (201 :> "Wallet")
    @@ "GetWallet" :> (200 :> "Wallet")
    @@ "ListTransactions" :> (200 :> "[]Transaction")

X402Parsers ==
       "ValidateX402Payment" :> (200 :> "X402ValidationResult")
-----------------------------------------------------------------------------
ParserTable ==
       CatalogDiscoveryParsers @@ AccountParsers
    @@ LoginAndPolicyParsers @@ WebhookAndMerchantParsers
    @@ RegistrationParsers @@ SessionCreationParsers
    @@ DemoSessionParsers @@ SessionOutcomeParsers
    @@ PayoutParsers @@ PlanItemParsers
    @@ PlanChangeParsers @@ PriceItemParsers
    @@ PriceChangeParsers @@ ProductItemParsers
    @@ ProductChangeParsers @@ RatesAndFaucetsParsers
    @@ StoreItemParsers @@ StoreChangeParsers
    @@ WalletParsers @@ X402Parsers

\* Mutant: the parser has no default case.
SlotNoDefault(op, status, json) ==
    IF json /\ status \in DOMAIN ParserTable[op]
      THEN ParserTable[op][status] ELSE "none"

\* The field of the response that is set: JSON200, JSON201, ... by their
\* types, JSONDefault as "Error", none if the Content-Type is not JSON.
Slot(op, status, json) ==
    IF ~json THEN "none"
    ELSE IF status \in DOMAIN ParserTable[op] THEN ParserTable[op][status]
    ELSE "Error"
=============================================================================
