-------------------------- MODULE IdempotentCreate --------------------------
(***************************************************************************)
(* The create methods (CreatePaymentSession, RequestPayout, CreateStore,   *)
(* CreateWallet, ...): doJSON calls that send a POST, with the header      *)
(* Idempotency-Key when the caller passed WithIdempotencyKey.  The service *)
(* is external; what it does with a key is what README.md, the tests and   *)
(* spec/openapi.yaml say of it: the first request under a key creates and  *)
(* is recorded, a later one with the same payload gets the recorded        *)
(* resource, one with another payload gets 409 and code 5.                 *)
(*                                                                         *)
(* The hard part is that requests outlive attempts: the client gives up    *)
(* on an exchange and opens another while the first is still on its way,   *)
(* or was handled and its answer lost.                                     *)
(***************************************************************************)
EXTENDS DoJSON, Sequences

CONSTANTS
    Keys,           \* idempotency keys
    NoKey,          \* the empty string: no option, or WithIdempotencyKey("")
    Payloads,       \* request bodies, up to the service's fingerprint
    Refusals        \* statuses of answers given with no effect

ASSUME KeysAssumption == NoKey \notin Keys \cup Payloads
ASSUME RefusalsAssumption == Refusals \subseteq 400 .. 599

VARIABLES
    input,      \* what each call was made with
    created,    \* the resources, in the order of their creation
    records     \* key -> the position in created of its resource, or 0

serverVars == <<created, records>>
vars == <<clientVars, input, created, records>>

Inputs == [key : Keys \cup {NoKey}, payload : Payloads]
Nothing == [key |-> NoKey, payload |-> NoKey]
Resources == [call : Calls, n : Attempts, key : Keys \cup {NoKey},
              payload : Payloads]

CodeConflict == 5
OtherCode == 0      \* every other code of error.go, or none that can be read

TypeOK ==
    /\ ClientTypeOK
    /\ input \in [Calls -> Inputs \cup {Nothing}]
    /\ created \in Seq(Resources)
    /\ records \in [Keys -> 0 .. Len(created)]

Init ==
    /\ ClientInit
    /\ input = [c \in Calls |-> Nothing]
    /\ created = << >>
    /\ records = [k \in Keys |-> 0]

-----------------------------------------------------------------------------
(* What an attempt sends: the closure passed to doJSON rebuilds the        *)
(* request and its editors from the same arguments every time.             *)

\* Mutants: the key is set on the first attempt only; the body is built from
\* arguments the caller has changed meanwhile.
HeaderOnFirstAttempt(m) == IF m.n = 0 THEN input[m.call].key ELSE NoKey
BodyReread(m) ==
    IF m.n = 0 THEN input[m.call].payload
    ELSE CHOOSE p \in Payloads : p # input[m.call].payload \/ Payloads = {p}

IdempotencyHeader(m) == input[m.call].key
Body(m) == input[m.call].payload

-----------------------------------------------------------------------------
(* The service (external).                                                 *)

Located(m) ==
    IF IdempotencyHeader(m) = NoKey THEN 0 ELSE records[IdempotencyHeader(m)]

\* A proxy may hide the answer of the service behind its own 5xx.
GatewayErrors == { [status |-> s, code |-> OtherCode, id |-> 0] :
                     s \in { t \in Refusals : t >= 500 } }

\* The connection may die before the answer: net/http opens another for a
\* request that carries Idempotency-Key, inside the same attempt.
Respond(m, r) ==
    \/ \E a \in {r} \cup GatewayErrors : Answer(m, a)
    \/ /\ IdempotencyHeader(m) # NoKey
       /\ Awaited(m)
       /\ ctx[m.call] = "live"
       /\ UNCHANGED <<requests, reply>>

Create(m) ==
    /\ Located(m) = 0
    /\ created' = Append(created,
                         [call |-> m.call, n |-> m.n,
                          key |-> IdempotencyHeader(m), payload |-> Body(m)])
    /\ records' = IF IdempotencyHeader(m) = NoKey
                    THEN records
                    ELSE [records EXCEPT ![IdempotencyHeader(m)] = Len(created) + 1]
    /\ Respond(m, [status |-> 201, code |-> OtherCode, id |-> Len(created) + 1])

Replay(m) ==
    /\ Located(m) # 0
    /\ created[Located(m)].payload = Body(m)
    /\ Respond(m, [status |-> 201, code |-> OtherCode, id |-> Located(m)])
    /\ UNCHANGED serverVars

Mismatch(m) ==
    /\ Located(m) # 0
    /\ created[Located(m)].payload # Body(m)
    /\ Respond(m, [status |-> 409, code |-> CodeConflict, id |-> 0])
    /\ UNCHANGED serverVars

Refuse(m) ==
    /\ \E s \in Refusals :
         Answer(m, [status |-> s, code |-> OtherCode, id |-> 0])
    /\ UNCHANGED serverVars

Handle(m) == Create(m) \/ Replay(m) \/ Mismatch(m) \/ Refuse(m)

-----------------------------------------------------------------------------
(* A caller makes the call.                                                *)

Start(c, k, p) ==
    /\ Enter(c)
    /\ input' = [input EXCEPT ![c] = [key |-> k, payload |-> p]]
    /\ UNCHANGED serverVars

ClientStep(c) == Client(c, TRUE) /\ UNCHANGED <<input, created, records>>

CancelCtx(c) == Cancel(c) /\ UNCHANGED <<input, created, records>>

ServerStep(m) ==
    /\ Handle(m)
    /\ UNCHANGED <<pc, attempt, ctx, lastErr, result, input>>

Next ==
    \/ \E c \in Calls :
         \/ \E k \in Keys \cup {NoKey}, p \in Payloads : Start(c, k, p)
         \/ ClientStep(c)
         \/ CancelCtx(c)
    \/ \E m \in requests : ServerStep(m)

Spec == Init /\ [][Next]_vars

-----------------------------------------------------------------------------
(* Safety.                                                                 *)

KeyAsked(i) == input[created[i].call].key

\* However many calls are made with a key, and however many attempts each of
\* them makes, those handled late and those whose answer is lost included, one
\* resource comes of it (WithIdempotencyKey and the closures over ro).
OneResourcePerKey ==
    \A i, j \in DOMAIN created :
        KeyAsked(i) = KeyAsked(j) /\ KeyAsked(i) # NoKey => i = j

\* With no key a retry may create again, but an attempt creates once: a call
\* leaves no more resources than the attempts it made, three at most.
OneResourcePerAttempt ==
    \A i, j \in DOMAIN created :
        /\ created[i].call = created[j].call
        /\ created[i].n = created[j].n
        => i = j

OwnResource(c, i) ==
    /\ i \in DOMAIN created
    /\ created[i].payload = input[c].payload
    /\ created[i].key = input[c].key
    /\ input[c].key = NoKey => created[i].call = c

\* The resource a call returns was created for what that call asked: under
\* its key, whoever sent the request, or by one of its own attempts.  With
\* OneResourcePerKey, all calls that succeed under a key return the same.
SuccessIsOwnResource ==
    \A c \in Calls : result[c].kind = "ok" => OwnResource(c, result[c].id)

IsIdempotencyConflict(o) == o.kind = "api" /\ o.status = 409 /\ o.code = CodeConflict

KeyOfAnotherPayload(c) ==
    /\ input[c].key \in Keys
    /\ records[input[c].key] # 0
    /\ created[records[input[c].key]].payload # input[c].payload

\* A caller told IsIdempotencyConflict(err) created nothing by that call, not
\* even by an attempt it gave up on, and never will: the key belongs to a
\* resource with another payload.
ConflictMeansNoEffect ==
    \A c \in Calls :
        IsIdempotencyConflict(result[c]) =>
            /\ KeyOfAnotherPayload(c)
            /\ \A i \in DOMAIN created : created[i].call # c

\* A call with no key that was refused before its first retry created nothing
\* and has nothing left in flight: its caller may start over.  (Under a key
\* net/http may have resent the request inside that attempt, so only the key
\* makes it safe to start over.)
CleanFailureMeansNoEffect ==
    \A c \in Calls :
        /\ result[c].kind = "api" /\ result[c].status < 500
        /\ attempt[c] = 0
        /\ input[c].key = NoKey
        => /\ \A i \in DOMAIN created : created[i].call # c
           /\ \A m \in requests : m.call # c

\* The whole is an implementation of the contract of the create methods.
AnswerOf(c) ==
    IF pc[c] # "returned" THEN [kind |-> "pending", id |-> 0]
    ELSE IF result[c].kind = "ok" THEN [kind |-> "ok", id |-> result[c].id]
    ELSE IF IsIdempotencyConflict(result[c]) THEN [kind |-> "conflict", id |-> 0]
    ELSE [kind |-> "error", id |-> 0]

Contract == INSTANCE CreateContract
              WITH asked <- input, made <- created,
                   answer <- [c \in Calls |-> AnswerOf(c)]

ImplementsContract == Contract!Spec
=============================================================================
