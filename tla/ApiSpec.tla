------------------------------- MODULE ApiSpec -------------------------------
(***************************************************************************)
(* The service's side of the calls, as spec/openapi.yaml describes it: for *)
(* each operation the requests it takes and the answers it gives.  This is *)
(* what the generated and the hand-written client are measured against,    *)
(* so it is written from the description alone; Param stands where a path  *)
(* has a parameter.                                                        *)
(***************************************************************************)
EXTENDS Sequences, TLC

Param == "{param}"
NoContent == "none"     \* an answer without a JSON body
Empty == ""             \* a segment between two slashes, or after the last

\* The schemas whose JSON is an array.
Arrays == {"[]Wallet", "[]Transaction", "[]PaymentMethodInfo", "[]RateInfo"}

Operation(method, path, query, json, replies) ==
    [method |-> method, path |-> path, query |-> query, json |-> json,
     replies |-> replies]

Reads(path, schema)   == Operation("GET", path, {}, FALSE, 200 :> schema)
Acts(path, schema)    == Operation("POST", path, {}, FALSE, 200 :> schema)
Takes(path, schema)   == Operation("POST", path, {}, TRUE, 200 :> schema)
Creates(path, schema) == Operation("POST", path, {}, TRUE, 201 :> schema)
Replaces(path, schema) == Operation("PUT", path, {}, TRUE, 200 :> schema)

MerchantOperations ==
       "RequestEmailVerification" :>
           Takes(<<"v1", "merchants", "email-verification">>,
                 "RequestEmailVerificationResponse")
    @@ "ConfirmEmailVerification" :>
           Takes(<<"v1", "merchants", "email-verification", "confirm">>,
                 "ConfirmEmailVerificationResponse")
    @@ "RequestRegistrationProofOfWork" :>
           Takes(<<"v1", "merchants", "registration-proof-of-work">>,
                 "RequestRegistrationProofOfWorkResponse")
    @@ "RegisterMerchant" :> Creates(<<"v1", "merchants">>, "Merchant")

MeOperations ==
    LET me(rest) == <<"v1", "me">> \o rest IN
       "GetMe" :> Reads(me(<< >>), "Merchant")
    @@ "GetMerchantCredentialStatus" :>
           Reads(me(<<"credentials">>), "MerchantCredentialStatus")
    @@ "RotateMerchantCredential" :>
           Takes(me(<<"credentials", "rotate">>), "Merchant")
    @@ "RevokeMerchantCredential" :>
           Takes(me(<<"credentials", "revoke">>), "Merchant")
    @@ "GetPaymentMethodPolicy" :>
           Reads(me(<<"payment_method_policy">>), "PaymentMethodPolicyState")
    @@ "UpdatePaymentMethodPolicy" :>
           Replaces(me(<<"payment_method_policy">>), "PaymentMethodPolicyState")
    @@ "UpdateMerchantWebhook" :> Replaces(me(<<"webhook">>), "Merchant")
    @@ "TestMerchantWebhookDelivery" :>
           Acts(me(<<"webhook", "test">>), "WebhookTestDeliveryResult")
    @@ "UserLogin" :> Takes(me(<<"login">>), "User")
    @@ "UserRegister" :>
           Operation("POST", me(<<"register">>), {}, FALSE, 201 :> "User")

MoneyOperations ==
       "CreateWallet" :> Creates(<<"v1", "wallets">>, "Wallet")
    @@ "ListWallets" :> Reads(<<"v1", "wallets">>, "[]Wallet")
    @@ "GetWallet" :> Reads(<<"v1", "wallets", Param>>, "Wallet")
    @@ "ListTransactions" :>
           Reads(<<"v1", "wallets", Param, "transactions">>, "[]Transaction")
    @@ "RequestPayout" :> Creates(<<"v1", "payouts">>, "Payout")
    @@ "GetPayout" :> Reads(<<"v1", "payouts", Param>>, "Payout")
    @@ "AttemptAgentWalletSpend" :>
           Takes(<<"v1", "agent-wallets", Param, "spend-attempts">>,
                 "AgentSpendAttempt")
    @@ "ListPaymentMethods" :>
           Reads(<<"v1", "payment_methods">>, "[]PaymentMethodInfo")
    @@ "GetRates" :>
           Operation("GET", <<"v1", "rates">>, {"symbols"}, FALSE,
                     200 :> "[]RateInfo")
    @@ "ValidateX402Payment" :>
           Takes(<<"v1", "x402", "facilitator">>, "X402ValidationResult")
    @@ "ListSandboxFaucets" :>
           Reads(<<"v1", "sandbox", "faucets">>, "map[string]string")
    @@ "FundSepoliaFaucet" :>
           Takes(<<"v1", "sandbox", "faucet", "fund">>,
                 "FundSepoliaFaucetResponse")

SessionOperations ==
    LET session(rest) == <<"v1", "payment_sessions", Param>> \o rest IN
       "CreatePaymentSession" :>
           Creates(<<"v1", "payment_sessions">>, "PaymentSessionOrIntent")
    @@ "CreateDemoPaymentSession" :>
           Creates(<<"v1", "payment_sessions", "demo">>, "PaymentSession")
    @@ "GetPaymentSession" :> Reads(session(<< >>), "PaymentSessionOrIntent")
    @@ "FulfillDemoPaymentSession" :>
           Acts(session(<<"fulfill">>), NoContent)
    @@ "ProvideDevWalletForDemo" :>
           Acts(session(<<"provide_wallet">>), "DevWallet")
    @@ "SelectPaymentMethod" :>
           Takes(session(<<"select_method">>), "PaymentSession")
    @@ "RetryWebhookDelivery" :>
           Operation("POST", session(<<"webhook", "retry">>), {}, FALSE,
                     202 :> "WebhookDeliveryStatus")
    @@ "SimulatePayment" :> Acts(session(<<"simulate">>), "PaymentSession")
    @@ "GetReceiptBySessionID" :> Reads(session(<<"receipt">>), NoContent)

\* The operations the four kinds of catalog entity have alike.  A patch of
\* what has versions answers 201 when it made a new one.
CatalogOperations(one, many, segment, parent, patched) ==
    LET schema == "Catalog" \o one
        list == <<"v1", segment>>
        item(rest) == <<"v1", segment, Param>> \o rest
    IN     ("Create" \o one) :> Creates(list, schema)
        @@ ("List" \o many) :>
               Operation("GET", list, {"status", "cursor", "limit"} \cup parent,
                         FALSE, 200 :> (one \o "ListResponse"))
        @@ ("Get" \o one) :> Reads(item(<< >>), schema)
        @@ ("Patch" \o one) :>
               Operation("PATCH", item(<< >>), {}, TRUE,
                         [s \in patched |-> schema])
        @@ ("Delete" \o one) :>
               Operation("DELETE", item(<< >>), {}, FALSE, 204 :> NoContent)
        @@ ("Publish" \o one) :> Acts(item(<<"publish">>), schema)
        @@ ("Archive" \o one) :> Acts(item(<<"archive">>), schema)

DiscoveryOperations ==
       "ListCatalogProducts" :>
           Operation("GET", <<"v1", "catalog", "products">>,
                     {"merchant_id", "sandbox", "q", "cursor", "limit"}, FALSE,
                     200 :> "CatalogProductListResponse")
    @@ "GetCatalogProduct" :>
           Reads(<<"v1", "catalog", "products", Param>>,
                 "CatalogDiscoveryProduct")
    @@ "CreateCatalogCheckoutIntent" :>
           Operation("POST",
                     <<"v1", "catalog", "prices", Param, "checkout-intent">>,
                     {}, FALSE, 201 :> "CatalogCheckoutIntent")

Operations ==
       MerchantOperations @@ MeOperations @@ MoneyOperations
    @@ SessionOperations @@ DiscoveryOperations
    @@ CatalogOperations("Store", "Stores", "stores", {}, {200})
    @@ CatalogOperations("Product", "Products", "products",
                         {"store_id"}, {200, 201})
    @@ CatalogOperations("Plan", "Plans", "plans", {"product_id"}, {200, 201})
    @@ CatalogOperations("Price", "Prices", "prices", {"plan_id"}, {200, 201})

-----------------------------------------------------------------------------
\* A request finds its operation by method and path; a segment of the path
\* stands for a parameter whatever it is, if only it is not empty.
Matches(pattern, path) ==
    /\ Len(pattern) = Len(path)
    /\ \A i \in DOMAIN path :
         pattern[i] = path[i] \/ (pattern[i] = Param /\ path[i] # Empty)

\* A fixed segment is preferred to a parameter, as in GET .../{session_id}.
Routed(method, path) ==
    LET found == { o \in DOMAIN Operations :
                     /\ Operations[o].method = method
                     /\ Matches(Operations[o].path, path) }
        fixed == { o \in found : Operations[o].path = path }
    IN  IF fixed # {} THEN fixed ELSE found

\* What a request gives for the parameters of the operation.
Arguments(op, path) ==
    LET at == { i \in DOMAIN path : Operations[op].path[i] = Param }
    IN  { path[i] : i \in at }
=============================================================================
