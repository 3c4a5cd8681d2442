------------------------------ MODULE Endpoints ------------------------------
(***************************************************************************)
(* What the generated client sends: the NewXRequest functions of           *)
(* plaidlyapi.gen.go, a row for each.  A row is the method, the segments   *)
(* of the path with Id where the argument goes, the query parameters a     *)
(* params argument can set, whether a JSON body is sent, and the header a  *)
(* params argument can set.  Rows are grouped as the functions follow each *)
(* other in the file.                                                      *)
(***************************************************************************)
EXTENDS Sequences, TLC

Id == "{id}"        \* the segment an argument is put into

Row(method, path, query, json, header) ==
    [method |-> method, path |-> path, query |-> query, json |-> json,
     header |-> header]

Get(path)                == Row("GET", path, {}, FALSE, "none")
FilteredGet(path, query) == Row("GET", path, query, FALSE, "none")
Delete(path)             == Row("DELETE", path, {}, FALSE, "none")
EmptyPost(path)          == Row("POST", path, {}, FALSE, "none")
Post(path)               == Row("POST", path, {}, TRUE, "none")
Put(path)                == Row("PUT", path, {}, TRUE, "none")
Patch(path)              == Row("PATCH", path, {}, TRUE, "none")
KeyedPost(path)          == Row("POST", path, {}, TRUE, "Idempotency-Key")
BearerPost(path, json)   == Row("POST", path, {}, json, "Authorization")

-----------------------------------------------------------------------------
CatalogDiscoveryRequests ==
       "ListCatalogProducts" :>
           FilteredGet(<<"v1", "catalog", "products">>,
                       {"merchant_id", "sandbox", "q", "cursor", "limit"})
    @@ "GetCatalogProduct" :> Get(<<"v1", "catalog", "products", Id>>)

AgentAndCheckoutRequests ==
       "AttemptAgentWalletSpend" :>
           Post(<<"v1", "agent-wallets", Id, "spend-attempts">>)
    @@ "CreateCatalogCheckoutIntent" :>
           EmptyPost(<<"v1", "catalog", "prices", Id, "checkout-intent">>)

AccountRequests ==
       "GetMe" :> Get(<<"v1", "me">>)
    @@ "GetMerchantCredentialStatus" :> Get(<<"v1", "me", "credentials">>)
    @@ "RevokeMerchantCredential" :>
           Post(<<"v1", "me", "credentials", "revoke">>)
    @@ "RotateMerchantCredential" :>
           Post(<<"v1", "me", "credentials", "rotate">>)

LoginAndPolicyRequests ==
       "UserLogin" :> BearerPost(<<"v1", "me", "login">>, TRUE)
    @@ "GetPaymentMethodPolicy" :> Get(<<"v1", "me", "payment_method_policy">>)
    @@ "UpdatePaymentMethodPolicy" :>
           Put(<<"v1", "me", "payment_method_policy">>)

UserAndWebhookRequests ==
       "UserRegister" :> BearerPost(<<"v1", "me", "register">>, FALSE)
    @@ "UpdateMerchantWebhook" :> Put(<<"v1", "me", "webhook">>)
    @@ "TestMerchantWebhookDelivery" :>
           EmptyPost(<<"v1", "me", "webhook", "test">>)

RegistrationRequests ==
       "RegisterMerchant" :> Post(<<"v1", "merchants">>)
    @@ "RequestEmailVerification" :>
           Post(<<"v1", "merchants", "email-verification">>)
    @@ "ConfirmEmailVerification" :>
           Post(<<"v1", "merchants", "email-verification", "confirm">>)

ProofOfWorkRequests ==
       "RequestRegistrationProofOfWork" :>
           Post(<<"v1", "merchants", "registration-proof-of-work">>)
    @@ "ListPaymentMethods" :> Get(<<"v1", "payment_methods">>)

SessionCreationRequests ==
       "CreatePaymentSession" :> KeyedPost(<<"v1", "payment_sessions">>)
    @@ "CreateDemoPaymentSession" :> Post(<<"v1", "payment_sessions", "demo">>)
    @@ "GetPaymentSession" :> Get(<<"v1", "payment_sessions", Id>>)

DemoSessionRequests ==
       "FulfillDemoPaymentSession" :>
           EmptyPost(<<"v1", "payment_sessions", Id, "fulfill">>)
    @@ "ProvideDevWalletForDemo" :>
           EmptyPost(<<"v1", "payment_sessions", Id, "provide_wallet">>)
    @@ "GetReceiptBySessionID" :>
           Get(<<"v1", "payment_sessions", Id, "receipt">>)
    @@ "SelectPaymentMethod" :>
           Post(<<"v1", "payment_sessions", Id, "select_method">>)

SessionOutcomeRequests ==
       "SimulatePayment" :>
           EmptyPost(<<"v1", "payment_sessions", Id, "simulate">>)
    @@ "RetryWebhookDelivery" :>
           EmptyPost(<<"v1", "payment_sessions", Id, "webhook", "retry">>)

PayoutRequests ==
       "RequestPayout" :> KeyedPost(<<"v1", "payouts">>)
    @@ "GetPayout" :> Get(<<"v1", "payouts", Id>>)

PlanCollectionRequests ==
       "ListPlans" :>
           FilteredGet(<<"v1", "plans">>,
                       {"product_id", "status", "cursor", "limit"})
    @@ "CreatePlan" :> KeyedPost(<<"v1", "plans">>)

PlanItemRequests ==
       "DeletePlan" :> Delete(<<"v1", "plans", Id>>)
    @@ "GetPlan" :> Get(<<"v1", "plans", Id>>)
    @@ "PatchPlan" :> Patch(<<"v1", "plans", Id>>)

PlanLifecycleRequests ==
       "ArchivePlan" :> EmptyPost(<<"v1", "plans", Id, "archive">>)
    @@ "PublishPlan" :> EmptyPost(<<"v1", "plans", Id, "publish">>)

PriceCollectionRequests ==
       "ListPrices" :>
           FilteredGet(<<"v1", "prices">>,
                       {"plan_id", "status", "cursor", "limit"})
    @@ "CreatePrice" :> KeyedPost(<<"v1", "prices">>)

PriceItemRequests ==
       "DeletePrice" :> Delete(<<"v1", "prices", Id>>)
    @@ "GetPrice" :> Get(<<"v1", "prices", Id>>)
    @@ "PatchPrice" :> Patch(<<"v1", "prices", Id>>)

PriceLifecycleRequests ==
       "ArchivePrice" :> EmptyPost(<<"v1", "prices", Id, "archive">>)
    @@ "PublishPrice" :> EmptyPost(<<"v1", "prices", Id, "publish">>)

ProductCollectionRequests ==
       "ListProducts" :>
           FilteredGet(<<"v1", "products">>,
                       {"store_id", "status", "cursor", "limit"})
    @@ "CreateProduct" :> KeyedPost(<<"v1", "products">>)

ProductItemRequests ==
       "DeleteProduct" :> Delete(<<"v1", "products", Id>>)
    @@ "GetProduct" :> Get(<<"v1", "products", Id>>)
    @@ "PatchProduct" :> Patch(<<"v1", "products", Id>>)

ProductLifecycleRequests ==
       "ArchiveProduct" :> EmptyPost(<<"v1", "products", Id, "archive">>)
    @@ "PublishProduct" :> EmptyPost(<<"v1", "products", Id, "publish">>)

RatesAndFaucetsRequests ==
       "GetRates" :> FilteredGet(<<"v1", "rates">>, {"symbols"})
    @@ "FundSepoliaFaucet" :> Post(<<"v1", "sandbox", "faucet", "fund">>)
    @@ "ListSandboxFaucets" :> Get(<<"v1", "sandbox", "faucets">>)

StoreCollectionRequests ==
       "ListStores" :>
           FilteredGet(<<"v1", "stores">>, {"status", "cursor", "limit"})
    @@ "CreateStore" :> KeyedPost(<<"v1", "stores">>)

StoreItemRequests ==
       "DeleteStore" :> Delete(<<"v1", "stores", Id>>)
    @@ "GetStore" :> Get(<<"v1", "stores", Id>>)
    @@ "PatchStore" :> Patch(<<"v1", "stores", Id>>)

StoreLifecycleRequests ==
       "ArchiveStore" :> EmptyPost(<<"v1", "stores", Id, "archive">>)
    @@ "PublishStore" :> EmptyPost(<<"v1", "stores", Id, "publish">>)

WalletRequests ==
       "ListWallets" :> Get(<<"v1", "wallets">>)
    @@ "CreateWallet" :> Post(<<"v1", "wallets">>)
    @@ "GetWallet" :> Get(<<"v1", "wallets", Id>>)
    @@ "ListTransactions" :> Get(<<"v1", "wallets", Id, "transactions">>)

X402Requests ==
       "ValidateX402Payment" :> Post(<<"v1", "x402", "facilitator">>)
-----------------------------------------------------------------------------
RequestTable ==
       CatalogDiscoveryRequests @@ AgentAndCheckoutRequests
    @@ AccountRequests @@ LoginAndPolicyRequests
    @@ UserAndWebhookRequests @@ RegistrationRequests
    @@ ProofOfWorkRequests @@ SessionCreationRequests
    @@ DemoSessionRequests @@ SessionOutcomeRequests
    @@ PayoutRequests @@ PlanCollectionRequests
    @@ PlanItemRequests @@ PlanLifecycleRequests
    @@ PriceCollectionRequests @@ PriceItemRequests
    @@ PriceLifecycleRequests @@ ProductCollectionRequests
    @@ ProductItemRequests @@ ProductLifecycleRequests
    @@ RatesAndFaucetsRequests @@ StoreCollectionRequests
    @@ StoreItemRequests @@ StoreLifecycleRequests
    @@ WalletRequests @@ X402Requests
=============================================================================
