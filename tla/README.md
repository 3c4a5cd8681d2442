# A TLA+ model of plaidly-go

`plaidly-go` is the Go SDK of the Plaidly payment API: a hand-written `Client`
over a generated HTTP client, helpers that watch a payment session, a verifier
of webhook signatures, an x402 client, and a package for Telegram bots. The
library keeps almost no state of its own. What makes it hard is what it does
over a network: it sends again what may already have been carried out, gives up
on requests that are still on their way, and decides on statuses that may be
old. These modules say what may come of that, TLC checks it on small
instances, and TLAPS proves the safety of it for every number of calls, keys,
payloads and attempts.

## 1. Inventory

| part | code | state | operations | modelled by |
|---|---|---|---|---|
| call engine | `client.go` `doJSON`, `decodeResponse`; `error.go` | per call: loop variable, `lastErr`, context | up to 3 attempts, backoff of 1 s and 2 s, retry on an exchange error or a 5xx, decoding | `Response`, `DoJSON` |
| request options, create methods | `options.go`; `CreatePaymentSession`, `RequestPayout`, `CreateStore`, ... | the key, copied into each request | a POST with or without `Idempotency-Key` | `IdempotentCreate`, `CreateContract` |
| session helpers | `session_helpers.go`, `GetReceiptPDF` | round, context | poll until final; receipt if settled | `SessionPoll` |
| telegram helper | `telegram/telegram.go` | interval, deadline | invoice, webhook, poll with a deadline | `SessionPoll`, `Webhook` |
| webhook verification | `webhook.go` | none | parse the header, check age and MAC, one or several secrets | `Webhook` |
| x402 | `x402.go` | none; the caller's callbacks act | request, challenge, proof by provider or facilitator, request with proof | `X402` |
| credentials | `credentials.go` | the client's immutable `apiKey` | rotate, revoke, webhook URL, test delivery | `CredentialRotation`, `ApiCall` |
| catalog | `catalog.go` | none; versioned entities at the service | create, get, list, patch, publish, archive, delete; discovery | `CatalogEntity`, `ApiCall` |
| checkout intents | `checkout_intent.go`; `SimulatePayment`, `FulfillDemoPaymentSession` | none; the session at the service | create, get, select a method, settle | `CheckoutIntent`, `IntentContract` |
| registration | `registration.go`, `merchants.go` | the nonce | e-mail verification, proof of work, register | `Registration`, `ProofOfWork` |
| reads and lists | `wallets.go`, `sessions.go`, ... | none; `ListCatalogProducts` writes its caller's params | one `doJSON` call without effect | `TypedMethods`, `ApiCall` |
| generated client | `generated/plaidlyapi` | editors | build, edit and send a request; sort the answer | `Endpoints`, `EndpointReplies`, `ApiCall` |
| API description | `spec/openapi.yaml` | none | paths, parameters, answers | `ApiSpec` |
| test double | `idempotency_test.go` | records under a mutex | the service's handling of keys | not modelled |

How they interact: every typed method runs its own `doJSON` on the caller's
goroutine, with a closure that builds the request anew for each attempt. Calls
share the `http.Client` and, in `ListCatalogProducts`, what their callers pass
in; otherwise what couples them is the service, by the idempotency key, the
session, the catalog entity or the credential they name. The session helpers
and the Telegram poll run `GetPaymentSession`, a `doJSON` call, in a loop.
A service or a proxy answers, late, twice or never.

What is hard, part by part, and what makes each right:

- *call engine*: a request outlives the attempt that sent it; cancellation
  races timers and answers. A call returns, and reads only the answer of its
  current exchange.
- *create methods*: lost answers, late requests, gateway errors, several
  goroutines under one key. One key, one resource; nothing is claimed that did
  not happen; a refusal means what it says.
- *session helpers, poll*: the session moves on between a read and its use. What
  is returned as final is final; a timeout is honest; loops end.
- *webhook*: ages at the ends of the range of `time.Duration`, rotation of the
  secret. A delivery is accepted exactly when a v1 value is the MAC of the
  timestamp and body under a secret held, within the tolerance.
- *x402*: two parties may pay for one challenge. It is paid once unless the
  provider failed after it paid, and the error tells whether anything was paid.
- *credentials*: the call changes what authenticates its own retries. The caller
  is never locked out by one rotation under a key.
- *catalog*: non-idempotent transitions are retried. Errors may be the call's own
  doing; versions are bounded by attempts.
- *checkout intents*: several payers select, none with a key. All are told of
  one method; who is refused has bound nothing.
- *registration*: two countings of leading zero bits, a search with no bound,
  and a last step that must not register twice. What was solved is accepted; a
  refusal under a key means that there is no merchant.
- *any call*: every typed method and generated operation has its builder, its
  parser and its row in the description. What is asked for, with which headers,
  and what the answer is decoded into, agree.

`PROJECT.json` lists the components with their status, and every hazard with
its line and the properties that cover it.

## 2. How the modules are put together

    Response --- DoJSON --+-- IdempotentCreate ....> CreateContract
        |                 +-- CheckoutIntent ......> IntentContract
        |                 +-- SessionPoll
        |                 +-- CredentialRotation
        |                 +-- CatalogEntity
        |                 +-- Registration --- ProofOfWork
        |                 +-- ApiCall --- Endpoints, EndpointReplies,
        +-- X402                          TypedMethods, ApiSpec
    Webhook

A line is EXTENDS, a dotted arrow a refinement (INSTANCE ... WITH, checked by
TLC and proved by TLAPS). `DoJSON` is written for any service: it leaves what a
request does, and what an answer carries, to the module that composes it.
Proofs stand beside the modules they are about: `DoJSONProofs`,
`IdempotentCreateProofs`, `CheckoutIntentProofs`, `SessionPollProofs`,
`CatalogEntityProofs`, `RegistrationProofs`, `CredentialApiCallProofs` (of
`CredentialRotation` and of `ApiCall`) and `WebhookX402Proofs` (of `Webhook` and
of `X402`). The last two have two sections each that do not cite each other.

What could follow: a composition of `CredentialRotation` with a client that
is rebuilt with the new key while its other calls run; response schemas of the
generated client beyond the type a status is decoded into.

## 3. The modules

`Response` — `decodeResponse` of `client.go`: which answers are a success, a typed
error, or a decode error. Any JSON below 400 is a success, and one without the
resource leaves its zero value (identity 0).

`DoJSON` — the calls of `client.go`. One value of `Calls` is one `doJSON` call on
one goroutine. `pc` is where it stands: `ready` before `fn(ctx)`, `wait` in the
exchange, `backoff` in the `select`. `attempt` and `lastErr` are the locals,
`ctx` the caller's context, `result` what is returned. `requests` are exchanges
the service has yet to handle; `reply` is the answer the current exchange holds.
`Send` opens an exchange, `Abort` is every way it can end without an answer (a
connection error, the 30 s timeout of `http.Client`, the end of the context):
it leaves the request with the service. `Receive` reads the answer, whole or cut
short (`intact`), through `DecodeResponse`. `BackoffElapsed` and
`BackoffCancelled` are the two cases of the `select`; when both are ready either
is taken. `FailAttempt` is `lastErr = ...; continue` with the loop's condition.
The code also retries errors of the exchange itself, which the comment on
`doJSON` ("transient 5xx") does not mention; a create with no key is repeated by
this, and `OneResourcePerAttempt` says how often.

`IdempotentCreate` — `Start` is a create method called with a key or none and a
payload. `IdempotencyHeader` and `Body` are what an attempt sends. `Create`,
`Replay`, `Mismatch`, `Refuse` are the service (external: taken from the tests,
the README's Idempotency section and `spec/openapi.yaml`). `Respond` may put a
gateway's 5xx in place of the answer, and for a request that carries
`Idempotency-Key` lets `net/http` open another connection inside the same
attempt, as its transport does for such requests. Records do not expire: one
call lasts some hundred seconds, a record 24 h.

`CreateContract` — the promise of a create method with no attempt, exchange or
record: asked, made, answered.

`CheckoutIntent` — the calls several parties make on one session: a selection, a
read, `SimulatePayment`, `FulfillDemoPaymentSession`, none of which takes a key.
`history` is what the session went through, an intent that awaits its method or
a demo session that has one. `Materialize` is the selection that wins,
`Converge` every later one (the comment of `SelectCheckoutMethod` says the loser
is told what the winner is), `Settle` a payment by a call, `Pay` one by somebody
else, `Expire` the clock. `Respond` may hide an answer behind a gateway's, and
`Unavailable` answers for a request that never arrives.

`IntentContract` — the promise of these calls: the session moves on in one step,
by a caller or on its own, and a caller is told of a state it had between the
call and the answer, or of an error.

`SessionPoll` — `helper` says which of the three helpers a call runs, `stage`
where it stands, `round` is the loop variable of `WaitForPaymentSession`,
`history` the statuses the session went through; a read answers with the
position it read.
`Round` is the body of both loops after `GetPaymentSession` has returned,
`SleepElapsed` and `SleepCancelled` their `select`, `DeadlinePasses` the
`context.WithTimeout` of `PollSession`. `options` and `interval` follow
`PollSessionWithOptions`: the defaults, the sleep, and the product that is
converted back from a float, which may leave the range of a Duration
(`BackedOff`). `GetReceiptPDF` is a single exchange. When a read has returned,
the exchanges it gave up on are forgotten: they are reads, and their answers
have no reader.

`CredentialRotation` — `Start` is `RotateMerchantCredential` or
`RevokeMerchantCredential` for one of the two types, by a `Client` built with an
API key the caller holds; `ApiKeyHeader` is the editor `NewClient` installs,
which sends that key in every attempt. The service issues credentials numbered
in their order and accepts the latest and, while `overlap` lasts, the one
before. `Lapse` ends a window. A keyed request repeated is answered with the
recorded credential or without it (the text says "exactly once", and does not
say of a replay); a call with another operation under a used key is left to
`IdempotentCreate`.

`CatalogEntity` — get, patch, delete, publish and archive of one entity, chosen
to be a store (changed in place) or to have versions (`versioned`: a patch of
what is published makes a new draft, as the comments of `catalog.go` and the
test `TestCreateProduct_ImmutableVersioningPatchReturns201` say). A child that
is published or archived, or a checkout that refers to the entity, holds a draft
for good (`Hold`, the field `held`): it is not deleted any more, a deletion is
answered 409, and a patch of a held product, plan or price makes a version
(`Mutable`). Which transitions are legal is the service's and external; what the
callers may conclude from answers to retried and late requests is the question.

`Registration` — the five steps as the README of the library puts them together,
four of them `doJSON` calls, one the loop of `SolveProofOfWork`. `Calls` are the
steps; the last may be taken again with the same body. `IntentId`, `ConfirmedId`
and `Pow` are what one step passes to the next, `BodyKey` the optional
idempotency key of the body, `tried` the digests of the nonces 0, 1, ... of the
challenge. The service keeps intents (new, verified, used, expired), challenges
and merchants. SHA-256 is any function: each nonce has any sample as its digest.

`ProofOfWork` — `leadingZeroBits` as the code computes it, byte by byte and bit
by bit, next to what it means: how far the digest, read as a number, is below
the next power of two (`Accepts`). `CountsAgree` compares the two on every
digest of the given width.

`Endpoints`, `EndpointReplies` — the generated client as tables: for each
operation the method, path, query parameters, header and body its `New...Request`
sets, and for each answer which field its `Parse...Response` fills. A path is a
sequence of segments, of which `Id` stands for an argument. `ApiSpec` is the same
of `spec/openapi.yaml`, with the routing of a request to an operation;
`TypedMethods` says for each method of `Client` which operation it runs, what it
decodes into, and whether it takes options.

`ApiCall` — any one call, from its arguments to its value. `StartTyped` is a
method of `Client` (a row of `TypedMethods` inside `doJSON`), `StartRaw` the
generated client reached through `Raw`: one exchange, and a parser. `StartList` is
`ListCatalogProducts`, which writes the merchant into the params struct of its
caller; goroutines may share that struct, every attempt reads it, and a call
during which another wrote it (`raced`) may read anything, a torn value included:
this is a data race. `Built` is the builder with `applyEditors`: the base URL
loses its slash in `WithBaseURL` and gains it in `NewClient`, an argument is
escaped to one segment (`Fill`), and the path is resolved against the base URL
(`Resolve`). Escaping leaves dots alone, and the resolution takes `.` and `..` out
of a path (`RemoveDots`), so that these two identifiers, and the empty one, lead
elsewhere. The service routes by method and path below what the base URL names,
and answers with a schema of the description; an array does not decode into a
struct, nor an object into a slice (`Unfit`). A request that its call has given up
on is not followed here.

`Webhook` — the verifier, operator by operator (`ParseSignatureHeader`, `Age`,
`VerifySignature`, `VerifyWebhookAt`, `VerifyWebhookAny`), between a service that
signs with one or, in the overlap, two secrets, and a receiver that goes from
one secret to two and back as the README tells it to (`Adopt`, `Drop`). A header
is the sequence of its parts, a MAC the triple it was computed from, so that
equal MACs are equal inputs. Durations have the width `MaxDuration` and the
saturation of `time.Time.Sub`. Texts of one number (`017`, `+17`), and
timestamps for which `time.Unix` itself overflows, are left out. One delivery
is on its way at a time: the verifier keeps nothing between two.

`X402` — `AskAnswered` and `AskChallenged` are the first `doRequest` and what is
read of it, `ProvideProof` to `NoCallback` are `resolveX402Proof`, `ProveServed`
and `ProveRefused` the second `doRequest`. The callbacks and the server are
external: a callback that gives a proof has paid for it, or gives an empty one,
which is presented all the same; one that fails may have paid; the server takes
a payment once, and its answer may be lost. The caller's `out` may be nil. A nil
`doRequest` returns at once and is left out.

`MC*` modules add what the configurations need (model values, symmetry).
Operators under a comment "Mutant" are plausible slips in the code; nothing uses
them, and each breaks the property `PROJECT.json` names when it takes the place
of the definition below it.

## 4. The runs

| run | what it asks | bounds | states |
|---|---|---|---|
| `create_safety` | `OneResourcePerKey`, `OneResourcePerAttempt`, `SuccessIsOwnResource`, `ConflictMeansNoEffect`, `CleanFailureMeansNoEffect`, `ImplementsContract` | 2 calls, 1 key, 2 payloads, 2 attempts, statuses 400 and 500 | 586 k |
| `checkout` | `SelectionsConverge`, `RefusedSelectionBindsNothing`, `ConflictAtOnceIsNotOurs`, `ImplementsContract` | 2 calls, 3 methods of which 2 are offered, 2 attempts, a gateway's 502 | 614 k |
| `poll` | `TypeOK`, `ReturnedSessionIsFinal`, `ReceiptOnlyIfSettled`, `TimeoutIsHonest`, `IntervalBacksOff`, `EveryHelperEnds`, `CancelledHelperEnds` | 1 helper of any kind, 3 rounds, 3 attempts, statuses 404 and 500, 4 sets of options, Durations up to 100 | 124 k |
| `rotate_safety` | `KeyedRotationKeepsBoth`, `TwoRotationsPerApiKey`, `UnauthorizedIsFinal` | 2 calls, both types, 1 key, 2 attempts | 1.3 M |
| `catalog` | `OutcomeStaysTrue`, `PatchMakesItsOwnVersion` | 2 calls, 2 attempts, statuses 400 and 503 | 1.2 M |
| `registration` | `RegistrationTypeOK`, `SolvedIsAccepted`, `RefusedMeansNotRegistered`, `RegistrationEnds` | 1 registration, 2 attempts, nonces 0 and 1, digests of 2 bytes of 3 bits, difficulties 0, 5 and 7 | 619 k |
| `api` | `AsksForWhatWasMeant`, `HeadersOnEveryAttempt`, `DecodedAsSent`, `ParsersAgree`, `ListsAskedMerchant`, `EveryCallReturns` | any 1 call, or 2 lists; 2 attempts, 4 identifiers, 2 merchants, statuses 400 and 503 | 386 k |
| `webhook` | `WebhookTypeOK`, `AcceptedWasSent`, `NothingLostInRotation`, `ErrorsTellWhy` | 1 rotation, 2 bodies, clock 0 to 7, Durations -4 to 3, tolerances 1, 2 and 3, overlap 6 | 79 k |
| `x402` | `X402TypeOK`, `PaidOnce`, `SuccessIsPaidFor`, `ErrorTellsIfPaid` | 2 calls, 2 quotes, statuses 400, 402 and 503 | 13 k |
| `doc_poll_timeout`, `doc_rotation`, `doc_tolerance` | three sentences of comments, each violated | as `poll`; 1 call; as `webhook` | |

The type invariants of `IdempotentCreate`, `CheckoutIntent`, `CredentialRotation`,
`CatalogEntity` and `ApiCall` are proved (section 5), and not run again. A mistake
in a row of the tables does not get as far as a property: `api` evaluates what
`ApiCall` assumes of them (`BuildersAssumption`, `RoutesAssumption`,
`DetoursAssumption`, `AnswersAssumption`, `ListAssumption`) before it starts.

### Why the bounds are enough

Two calls give every pair the hazards speak of: the same key or not, the same
payload or not, one keyed and one not. What callers are told depends on whether
an attempt is the first and whether it is the last: two attempts have both.
A third call under the same key meets a record as the second does. One key
suffices since records of different keys never touch; two payloads since the
service only compares them. 400 stands for the answers that end a call, 500 for
those that are retried. Calls wait for nothing of each other, so one call is
enough for liveness; `poll` has the three attempts of the code.

- `checkout`: two payers and two methods are one winner and one loser; with two
  attempts each of them may be its own predecessor. A third method is one the
  merchant does not offer. A demo session has one method. A context ends in the
  backoff or not at all: at any other moment its end does what a failing
  exchange does, which is there (`Abort`). The calls are symmetric.
- `poll`: a session has at most five statuses in its life, and 3 rounds read it
  before, at and after each change. The options are the defaults, a first
  interval above the cap, a backoff whose product is no Duration, and an interval
  so short that rounding takes away what the backoff adds.
- `rotate_safety`: two calls of two attempts rotate up to four times without a
  key, one rotation more than it takes to lose a credential, and the second call
  may be made with what the first returned.
- `catalog`: every pair of operations meets on every status, on the entity or on
  a version of it, with a draft held before, between or after them.
- `registration`: two samples, with 2 and 5 leading zero bits, and difficulties
  that the first nonce, a later one, or none satisfies (7 exceeds the 6 bits of
  a digest: the search never ends). `CountsAgree` goes through all 64 digests of
  two bytes of three bits, so that a zero byte, a byte that is zero in its high
  bits and the end of the digest all occur. One context serves all the calls, as
  in the example; it ends in the search or in a backoff. What is left of a step
  when the next begins is lost, except requests to register: another mail or
  another challenge concerns nobody.
- `api`: calls that share nothing cannot tell each other apart, so one runs at a
  time (`Alone`), except the lists that share their params. One identifier is a
  path of its own if it is not escaped (`x/receipt`); the three others are those
  that are no segment of their own, `""`, `.` and `..`. The base URL has a path,
  so that what resolving a relative path cuts off is seen.
- `webhook`: the clock runs long enough for a delivery to be signed before the
  rotation and received after the overlap; the offsets of the sender's clock are
  -1, 0, 2 and 12: within all tolerances or some, and out of range of a Duration
  for the whole run. The tolerance 3 is the greatest Duration.

Deadlock is not checked: calls return, sessions settle, the clock of `webhook`
stops at its bound, and the system stops.

### Fairness

`ApiCallLiveSpec` and `RegistrationLiveSpec` give weak fairness to the steps of
each call: the goroutine runs, a `time.After` fires, and an exchange ends, if
only by `http.Client{Timeout: 30 * time.Second}` of `NewClient` (a client of
`WithHTTPClient` with no timeout does not have this). In `Registration` the agent
goes on, too. It asks nothing of the service, of a session or of the network.
`RegistrationEnds` has to make an exception for the search: it looks at no
context, and ends only if some nonce is good enough.

The run `poll` checks two claims under one specification, `PromptSpec`, whose
fairness is the weaker of the two: only what a done context makes ready is fair,
no timer, no timeout and no answer. `CancelledHelperEnds` shows that the
`select`s and `net/http`'s attention to the context are enough to get a
cancelled caller back, out of a sleep of a helper or a backoff or an exchange of
`doJSON`. `EveryHelperEnds` needs more, and says so: its antecedent is the
fairness of the helper's own steps and of the deadline of `PollSession`.

### What the runs found

- `doc_poll_timeout`: `PollSession` answers `ErrPollTimeout` when its caller
  cancels, too.
- `doc_rotation`: one call of `RotateMerchantCredential` with no idempotency key,
  retried after a lost answer, rotates twice, and the credential held before it
  is out of the overlap although no window has ended. With a key it holds
  (`KeyedRotationKeepsBoth`).
- `doc_tolerance`: a timestamp so far ahead that the distance is no
  `time.Duration` passes the tolerance, since the least Duration has no opposite.
  `AcceptedWasSent` states the tolerance with this exception, and a second one
  that the proof brought up: a stamp further behind than a Duration reaches is
  as old as the greatest of them, and passes a tolerance of that length.

What the properties that hold say only with an exception is worth as much to a
caller:

- `VerifyWebhookAny` answers `ErrInvalidSignature` for an expired delivery, a
  missing signature and an undecodable body alike; only `VerifyWebhookAt` tells
  why (`ErrorsTellWhy`).
- A 409 of `SimulatePayment` or `FulfillDemoPaymentSession` may be the work of an
  earlier attempt of the same call (`ConflictAtOnceIsNotOurs`).
- With no key in its body a `RegisterMerchant` whose answer is lost is refused
  when it is sent again, and the merchant exists (`RefusedMeansNotRegistered`).
- Goroutines that share the params of `ListCatalogProducts` may get the products
  of each other's merchants; those that give none never do (`ListsAskedMerchant`).
- `CreatePaymentSession` and `GetPaymentSession` decode an intent that awaits its
  selection into a session and lose its candidate methods (`DecodedAsSent`).
- Backed off by a large factor, the interval of `PollSession` leaves the range of
  a Duration and turns negative: it then does not sleep (`IntervalBacksOff`).
- An identifier that is empty, `.` or `..` is not sent as one. Most such requests
  ask for nothing the service knows. Two reads become another read:
  `ListTransactions` of the wallet `.` gets a wallet, which does not decode into
  a list, and `GetReceiptBySessionID`, which `GetReceiptPDF` runs and whose body
  is not looked at, gets a session (`AsksForWhatWasMeant`).
- A second payment for one challenge, and a page of another merchant's products,
  come about in one way each, a provider that fails after it paid and goroutines
  that write one struct at a time. The code is made so; `PaidOnce` and
  `ListsAskedMerchant` say that there is no other way.

## 5. What is proved

The theorems hold for every value of the constants that the named assumptions
allow; no bound of section 4 is left. They are proved from the assumptions on the
constants of their modules alone (`AttemptsAssumption`, `KeysAssumption`,
`RefusalsAssumption`, `CandidatesAssumption`, `OptionsAssumption`,
`OffsetAssumption`, ...), which TLC evaluates in the runs. Those of `ApiCall` on
its tables hold no constant, so that TLC's answer is final: they are the same for
every instance. Two say what the prover does not know, that the literals are texts
and which of them differ (`LiteralsAssumption`, `SegmentsAssumption`).
`DoJSONProofs` holds the lemmas on the call engine that the compositions cite:
what `DecodeResponse` and `FailAttempt` return, that a step keeps `ClientTypeOK`,
and what it leaves alone.

| module | theorem | property |
|---|---|---|
| `IdempotentCreateProofs` | `TypeCorrect` | `TypeOK` |
| | `KeyedOnce` | `OneResourcePerKey` |
| | `AttemptOnce` | `OneResourcePerAttempt` |
| | `SuccessOwn` | `SuccessIsOwnResource` |
| | `ConflictNoEffect` | `ConflictMeansNoEffect` |
| | `CleanFailure` | `CleanFailureMeansNoEffect` |
| | `Implements` | `ImplementsContract` (refinement of `CreateContract`) |
| `CheckoutIntentProofs` | `TypeCorrect` | `TypeOK` |
| | `OneSelection` | `SelectionsConverge` |
| | `RefusalBindsNothing` | `RefusedSelectionBindsNothing` |
| | `ConflictNotOurs` | `ConflictAtOnceIsNotOurs` |
| | `Implements` | `ImplementsContract` (refinement of `IntentContract`) |
| `SessionPollProofs` | `TypeCorrect` | `TypeOK` |
| | `ReturnedFinal` | `ReturnedSessionIsFinal` |
| | `ReceiptSettled` | `ReceiptOnlyIfSettled` |
| | `HonestTimeout` | `TimeoutIsHonest` |
| | `SleepsGrow` | `IntervalBacksOff` |
| `CredentialApiCallProofs` | `TypeCorrect` | `TypeOK` of `CredentialRotation` |
| | `KeyedRotation` | `KeyedRotationKeepsBoth` |
| | `TwoRotations` | `TwoRotationsPerApiKey` |
| | `UnauthorizedStays` | `UnauthorizedIsFinal` |
| | `ApiCallTypeCorrect` | `ApiCallTypeOK` |
| | `OperationsMeant` | `AsksForWhatWasMeant` |
| | `HeadersSent` | `HeadersOnEveryAttempt` |
| | `AnswersDecoded` | `DecodedAsSent` |
| | `AnswersParsed` | `ParsersAgree` |
| | `MerchantsListed` | `ListsAskedMerchant` |
| `CatalogEntityProofs` | `TypeCorrect` | `TypeOK` |
| | `OutcomeStays` | `OutcomeStaysTrue` |
| | `OwnVersion` | `PatchMakesItsOwnVersion` |
| `RegistrationProofs` | `RegistrationTypeCorrect` | `RegistrationTypeOK` |
| | `SolutionsAccepted` | `SolvedIsAccepted` |
| | `RefusalsTrue` | `RefusedMeansNotRegistered` |
| `WebhookX402Proofs` | `WebhookTypeCorrect` | `WebhookTypeOK` |
| | `Accepted` | `AcceptedWasSent` |
| | `NothingLost` | `NothingLostInRotation` |
| | `ErrorsTell` | `ErrorsTellWhy` |
| | `X402TypeCorrect` | `X402TypeOK` |
| | `OnePayment` | `PaidOnce` |
| | `PaidFor` | `SuccessIsPaidFor` |
| | `ErrorTells` | `ErrorTellsIfPaid` |

For each of the nine state machines a theorem `Invariance` (`ApiCallInvariance`,
`RegistrationInvariance`, `WebhookInvariance`, `X402Invariance` where two share a
module or a name) proves that an inductive invariant `IInv` holds
(`Init => IInv` and `IInv /\ [Next]_vars => IInv'`, one lemma or step per action
and under it one step per conjunct the action can disturb), and the theorems
above follow from it. Hardly one of the properties is inductive: they speak of
effects and results and say nothing of the requests and answers on their way,
which is where a step could break them. What each `IInv` adds:

*IdempotentCreate.* A request, an answer or a resource belongs to a call that was
made (`Started`). Requests and resources come from attempts already begun, so
the next attempt is new (`SentRequests`, `CreatedFromRequests`). A key's record
points at the only resource under that key (`RecordsAgree`). An attempt with no
key is either still with the service or has created, never both
(`UnkeyedOncePerAttempt`). Only a waiting call holds an answer, and the answer is
true of the records now, which never change once set (`RepliesAwaited`,
`RepliesTrue`). A call with no key that has yet to fail has created at most by
its present attempt, and what was returned stays true (`NotYet`, `ResultsTrue`).
`Implements` maps `Create` to `Make`, `Start` to `Ask`, a step that returns to
`Reply`, and all else to a stutter.

*CheckoutIntent.* Whatever method a state of the session has is the method it has
now (`OneMethod`): this is why those who are told of a method agree. Who moved
the session on had asked for it (`MovedByCaller`), and moves nothing before its
first request is handled (`Untouched`), so that a refusal on the first attempt
leaves nothing behind; the later ones need that a refused selection can select
no more, now or ever (`TrueRefusal`). As above, what is on its way is true
(`RepliesTrue`), and so is what was returned (`ResultsTrue`). `Implements` maps
a request that moves the session to `Effect`, a return to the answer of the
contract, and the rest, retries and gateways included, to a stutter.

*SessionPoll.* A final status is the last of the history (`FinalIsLast`), so what
was read as final is what the session is. A read points to a place of the
history (`ReadsTrue`), and the stage of a helper and the `pc` of its call go
together (`Rounds`): these give `TimeoutIsHonest`. `TypeCorrect` covers
`interval`, whatever the options: what an out-of-range product is converted to is
still a Duration. Of `IntervalBacksOff`, a first sleep and a step property, the
invariant is `BacksOff`: the interval is the first, or between 1 and the cap,
unless a product overflows. Only the end of a sleep changes it
(`IntervalFrame`), and a backoff above 1 makes an interval of 1 or more greater,
or leaves it where rounding down takes all that is added (`NextBacksOff`).

*CredentialRotation.* Who rotates the API key is authenticated by the latest key
or the one before (`RotatedByHolder`), which counts the rotations of one key. A
keyed rotation is the one its key records (`RotationsRecorded`, `KeyNamesOne`), so
under one key there is one; until a window ends the credential before is accepted
(`OverlapHolds`). An answer that is no error names a credential (`RepliesNameIt`),
so a success does (`OkNamesIt`). Nobody holds what was not issued (`KeysHeld`),
and a credential becomes valid only by being issued (`Moves`), so a 401 stays
true.

*CatalogEntity.* Statuses only go forward: nothing takes back a deletion, an
archived version or the end of a draft, lets go of what is held, or deletes it
(`Later`), so what an answer says of an entity stays true. Who wrote an entity was
sent and is not on its way any more (`Writers`, `OneEntityPerWriter`), so an
attempt writes once. A version a patch is told of is one that nobody was told of
before (`VersionsDiffer`).

*Registration.* That the two countings agree is no matter of states:
`CountsAgreeAlways` proves `CountsAgree` for bytes and digests of any width. The
loops and the powers of two are recursive functions, and a function is a set of
pairs, so that induction over a set of numbers (`Induction`, from the
well-foundedness of `<`) shows first that such a function exists (`Iterates`)
and then what it computes: the zeros of a byte are those above its highest bit
(`ByteZeros`), and a digest is a number of as many bits as the loop leaves
uncounted (`ZerosAndValue`). The invariant says what is on its way: steps come
after what they depend on (`StepsInOrder`), requests are of attempts begun and,
once the merchant registers, of that step only (`RequestsBegun`), an answer names
what exists (`AnswersNameWhatExists`), and the search has passed over nothing
(`SearchStops`). A refusal counts when no other request can have registered:
under a key, which is recorded with the merchant (`KeyRecorded`), or while the
first request is alone (`FirstAlone`). It then stays true because what it was
refused for cannot come right again (`RefusalHolds`, which speaks of the answer
on its way as well as of the result).

*ApiCall.* The path that is sent is the base URL's and the operation's with the
argument in its place, and since any other operation of that method and length has
a fixed segment that differs (`RoutesAssumption`), it is routed to that operation
alone, whatever text the argument is (`BelowBase`, `FilledPath`, `RoutedBack`), if
only it is not empty and not dots. Dots come of an argument alone and behind two
fixed segments, so that what the resolution leaves is below the base URL all the
same (`DotsOfFill`, `DotsRemoved`); where it leads is a matter of the tables
(`DetoursAssumption`, `OddRoutes`, `DetourRow`). `CallFits` says of one call that
its request is what the builder and the resolution make of its arguments
(`SentAsBuilt`), that the service answered for the operation meant or for the end
of a detour (`ServedAsSent`, `Reaches`), and that a reply or result tells of an
error or of what was served (`Says`, `Answered`). The merchant is what takes
thought: the shared struct names the merchant of a running list that shares it and
was not raced (`OwnsParams`), so that the attempts that follow still ask for it.
`LoneBeginKeeps` does not use that calls which share nothing run alone (`Alone`):
that is a bound for TLC.

*Webhook.* What is on its way was signed at some time, and either the overlap is
over for it, or it is signed under the latest secret, or under the one before in
a rotation that came after it (`SignedAt`); the receiver holds the latest secret
or, in a rotation, the one before, and drops none while that goes on
(`HeldAgrees`). So a delivery within the tolerance is signed under a secret held
(`HeldFacts`, which needs `OffsetAssumption`: a sender's clock is near enough for
the overlap to outlast its deliveries). `Reads` says what the parser finds in a
header, however it was carried, and `AgeFacts` what a Duration does to an age.

*X402.* Until its challenge is accepted a call has paid nothing (`Fresh`); payments
are for what the server asked (`Quoted`); the provider is asked before anything
is paid, the facilitator only in its place or after its failure (`PaidSoFar`);
what is presented is empty, or was paid for and is not yet taken (`Presented`).

Only model-checked: liveness (`EveryCallReturns`, `EveryHelperEnds`,
`CancelledHelperEnds`, `RegistrationEnds`), which rests on fairness and is out of
the prover's reach; and what is assumed of the tables behind `ApiCall`, finite
data that TLC goes through completely.

## 6. What is not modelled

Listed with reasons under "components" in `PROJECT.json`. Left out for good:

- formatting (`InvoiceMessage`, error texts) and `CreateInvoice`, a create call
  followed by a check of its answer that changes nothing;
- the schema types of the generated client with their accessors, its spec
  embedded as bytes, the errors of its builders (an argument that cannot be
  escaped, a base URL that does not parse);
- a base URL whose own path has dots, and a service that takes a path with a slash
  at its end for the one without;
- `doRequest` and `readAllBody` of `client.go`, which no method calls;
- the test double of `idempotency_test.go`, which looks a key up and records it
  under two locks: nothing drives it concurrently, and the models follow the
  description of the real service;
- the formats of bodies: `GetReceiptPDF` sends `Accept: application/json` as every
  call does and is answered with a PDF all the same; `Idempotency-Key` is sent on
  credential and webhook operations, where the description does not name it;
- a webhook URL put by a request that was given up on and arrives after a later
  one: nothing in the client orders two calls;
- records that expire: the service keeps them for 24 h, and nothing in the client
  answers their end.

The lengths of waits are abstracted to the order of the events they separate,
except the intervals of `PollSession`.
