-------------------------- MODULE CredentialRotation --------------------------
(***************************************************************************)
(* RotateMerchantCredential and RevokeMerchantCredential of credentials.go *)
(* are doJSON calls that change what authenticates doJSON calls.  A Client *)
(* sends the API key it was built with in every attempt, for ever; the     *)
(* service (external) issues credentials, numbered in their order, and     *)
(* keeps the one before the latest valid for an overlap window, which ends *)
(* by itself or by revoke.  So a rotation whose answer is lost is retried  *)
(* under a key that is already the previous one.                           *)
(***************************************************************************)
EXTENDS DoJSON, Sequences, FiniteSets

CONSTANTS
    Keys,           \* idempotency keys
    NoKey,          \* no WithIdempotencyKey
    Types,          \* credential types the callers rotate
    GatewayStatus   \* a proxy's 5xx in place of an answer

ASSUME KeysAssumption == NoKey \notin Keys
ASSUME TypesAssumption == Types \subseteq {"api_key", "webhook_secret"}
ASSUME GatewayAssumption == GatewayStatus \in 500 .. 599

VARIABLES
    input,      \* what each call was made with, and what was latest then
    issued,     \* type -> the requests that rotated it, in order
    overlap,    \* type -> the credential before the latest is valid
    ended,      \* type -> an overlap window has come to its end
    records     \* key -> what its first request was answered with, or 0

serverVars == <<issued, overlap, ended, records>>
vars == <<clientVars, input, serverVars>>

AllTypes == {"api_key", "webhook_secret"}
Ops == {"rotate", "revoke"}
Masked == 1     \* a Merchant in an answer, without its secret
Initial == 2    \* the credentials of the beginning; no answer carries them

Latest(t) == Initial + Len(issued[t])

\* The credentials of type t that the service accepts, or signs with.
Valid(t) == {Latest(t)} \cup IF overlap[t] THEN {Latest(t) - 1} ELSE {}

Inputs == [op : Ops, type : AllTypes, key : Keys \cup {NoKey},
           apiKey : Nat, held : Nat]
Nothing == [op |-> "rotate", type |-> "api_key", key |-> NoKey,
            apiKey |-> 0, held |-> 0]

TypeOK ==
    /\ ClientTypeOK
    /\ input \in [Calls -> Inputs]
    /\ issued \in [AllTypes -> Seq(Requests)]
    /\ overlap \in [AllTypes -> BOOLEAN]
    /\ ended \in [AllTypes -> BOOLEAN]
    /\ records \in [Keys -> Nat]

Init ==
    /\ ClientInit
    /\ input = [c \in Calls |-> Nothing]
    /\ issued = [t \in AllTypes |-> << >>]
    /\ overlap = [t \in AllTypes |-> FALSE]
    /\ ended = [t \in AllTypes |-> FALSE]
    /\ records = [k \in Keys |-> 0]

-----------------------------------------------------------------------------
(* What an attempt sends.                                                  *)

\* Mutant: the key is set on the first attempt only.
HeaderOnFirstAttempt(m) == IF m.n = 0 THEN input[m.call].key ELSE NoKey

IdempotencyHeader(m) == input[m.call].key

\* Mutants: the client takes up a credential it is not known to hold; the
\* editor of the client is left out of a retry.
ApiKeyAdopted(m) == Latest("api_key")
ApiKeyOnFirstAttempt(m) == IF m.n = 0 THEN input[m.call].apiKey ELSE 0

\* The editor NewClient installs reads c.apiKey, which nothing assigns again.
ApiKeyHeader(m) == input[m.call].apiKey

-----------------------------------------------------------------------------
(* The service (external).                                                 *)

Authenticated(m) == ApiKeyHeader(m) \in Valid("api_key")

Located(m) ==
    IF IdempotencyHeader(m) = NoKey THEN 0 ELSE records[IdempotencyHeader(m)]

Body(id) == [status |-> 200, code |-> 0, id |-> id]
Refusal(status) == [status |-> status, code |-> 0, id |-> 0]

\* A proxy may hide the answer, and net/http resends a keyed request whose
\* connection dies.
Respond(m, r) ==
    \/ Answer(m, r)
    \/ Answer(m, Refusal(GatewayStatus))
    \/ /\ IdempotencyHeader(m) # NoKey
       /\ Awaited(m)
       /\ ctx[m.call] = "live"
       /\ UNCHANGED <<requests, reply>>

Perform(m, id) ==
    /\ Authenticated(m)
    /\ Located(m) = 0
    /\ records' = IF IdempotencyHeader(m) = NoKey
                    THEN records
                    ELSE [records EXCEPT ![IdempotencyHeader(m)] = id]
    /\ Respond(m, Body(id))

Rotate(m) ==
    LET t == input[m.call].type
    IN  /\ input[m.call].op = "rotate"
        /\ Perform(m, Latest(t) + 1)
        /\ issued' = [issued EXCEPT ![t] = Append(@, m)]
        /\ overlap' = [overlap EXCEPT ![t] = TRUE]
        /\ UNCHANGED ended

Revoke(m) ==
    LET t == input[m.call].type
    IN  /\ input[m.call].op = "revoke"
        /\ Perform(m, Masked)
        /\ overlap' = [overlap EXCEPT ![t] = FALSE]
        /\ ended' = [ended EXCEPT ![t] = TRUE]
        /\ UNCHANGED issued

\* "exactly once": the recorded answer may come with its secret or without.
Replay(m) ==
    /\ Authenticated(m)
    /\ Located(m) # 0
    /\ Respond(m, Body(Located(m))) \/ Respond(m, Body(Masked))
    /\ UNCHANGED serverVars

Unauthorized(m) ==
    /\ ~Authenticated(m)
    /\ Answer(m, Refusal(401))
    /\ UNCHANGED serverVars

Unavailable(m) ==
    /\ Answer(m, Refusal(GatewayStatus))
    /\ UNCHANGED serverVars

Lapse(t) ==
    /\ overlap[t]
    /\ overlap' = [overlap EXCEPT ![t] = FALSE]
    /\ ended' = [ended EXCEPT ![t] = TRUE]
    /\ UNCHANGED <<clientVars, input, issued, records>>

-----------------------------------------------------------------------------
(* The callers.                                                            *)

\* The API keys a caller may build a Client with.
HeldApiKeys ==
    {Initial} \cup { result[c].id : c \in { d \in Calls :
                        /\ result[d].kind = "ok"
                        /\ result[d].id # Masked
                        /\ input[d].type = "api_key" } }

\* An idempotency key is the caller's name for one operation on one type: what
\* comes of another payload under a key is the subject of IdempotentCreate.
Start(c, op, t, k, a) ==
    /\ Enter(c)
    /\ \A d \in Calls : k # NoKey /\ input[d].key = k =>
                            input[d].op = op /\ input[d].type = t
    /\ input' = [input EXCEPT ![c] =
                   [op |-> op, type |-> t, key |-> k, apiKey |-> a,
                    held |-> Latest(t)]]
    /\ UNCHANGED serverVars

ClientStep(c) == Client(c, TRUE) /\ UNCHANGED <<input, serverVars>>
CancelCtx(c) == Cancel(c) /\ UNCHANGED <<input, serverVars>>

ServerStep(m) ==
    /\ Rotate(m) \/ Revoke(m) \/ Replay(m) \/ Unauthorized(m) \/ Unavailable(m)
    /\ UNCHANGED <<pc, attempt, ctx, lastErr, result, input>>

Next ==
    \/ \E c \in Calls :
         \/ \E op \in Ops, t \in Types, k \in Keys \cup {NoKey}, a \in HeldApiKeys :
              Start(c, op, t, k, a)
         \/ ClientStep(c)
         \/ CancelCtx(c)
    \/ \E m \in requests : ServerStep(m)
    \/ \E t \in Types : Lapse(t)

Spec == Init /\ [][Next]_vars

-----------------------------------------------------------------------------
(* Properties.                                                             *)

Started(c) == pc[c] # "idle"

\* Every rotation of the type was asked for under the key of c.
OneRotationAsked(c) ==
    \A d \in Calls :
        Started(d) /\ input[d].op = "rotate" /\ input[d].type = input[c].type =>
            input[d].key = input[c].key

\* Under one idempotency key a rotation, however often it is sent, is one
\* rotation: the credential held before it stays valid for as long as the
\* overlap lasts, and a secret it returns is the latest.  Neither the client
\* nor a webhook receiver that holds both is locked out.
KeyedRotationKeepsBoth ==
    \A c \in Calls :
        /\ Started(c)
        /\ input[c].op = "rotate"
        /\ input[c].key # NoKey
        /\ OneRotationAsked(c)
        => LET t == input[c].type
           IN  /\ Len(issued[t]) <= 1
               /\ ~ended[t] => Initial \in Valid(t)
               /\ result[c].kind = "ok" /\ result[c].id # Masked =>
                      result[c].id = Latest(t)

\* However many calls and attempts it is sent with, one API key rotates the
\* API key at most twice: then it is out of the overlap itself, and with no
\* idempotency key the third attempt of a call is refused.
TwoRotationsPerApiKey ==
    \A a \in Initial .. Latest("api_key") :
        Cardinality({ i \in DOMAIN issued["api_key"] :
                        input[issued["api_key"][i].call].apiKey = a }) <= 2

\* A call that is told 401 has an API key that is no longer good, and none of
\* the retries of a later call with that key can succeed.
UnauthorizedIsFinal ==
    \A c \in Calls :
        result[c].status = 401 => input[c].apiKey \notin Valid("api_key")

\* "keeps the previous credential valid for a short overlap window"
\* (credentials.go, RotateMerchantCredential): one rotation is called, nothing
\* is revoked and no window has ended, and the credential held is valid.
PreviousStaysValid ==
    \A c \in Calls :
        /\ Started(c) /\ input[c].op = "rotate"
        /\ \A d \in Calls \ {c} : ~Started(d)
        /\ ~ended[input[c].type]
        => input[c].held \in Valid(input[c].type)
=============================================================================
