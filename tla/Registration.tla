---------------------------- MODULE Registration ----------------------------
(***************************************************************************)
(* The registration of a sandbox merchant, as README.md puts its steps     *)
(* together: RequestEmailVerification, ConfirmEmailVerification,           *)
(* RequestRegistrationProofOfWork and SolveProofOfWork of registration.go, *)
(* RegisterMerchant of merchants.go.  The four requests are doJSON calls   *)
(* with no Idempotency-Key; the body of the last may carry a key of its    *)
(* own.  One agent registers, so Calls are the steps it takes; the last    *)
(* may be taken again, with the same body, when it ends in an error.       *)
(* The service is external: spec/openapi.yaml, and a merchant per intent.  *)
(***************************************************************************)
EXTENDS DoJSON, ProofOfWork

CONSTANTS
    MaxNonce,       \* bound: the nonces the model tries
    Samples,        \* bound: the digests they may have
    Difficulties,   \* what the service may ask for
    Gateway         \* statuses of answers that come from a proxy

ASSUME StepsAssumption ==
    Calls = {"RequestEmailVerification", "ConfirmEmailVerification",
             "RequestRegistrationProofOfWork", "RegisterMerchant",
             "RegisterMerchant again"}
ASSUME SamplesAssumption == Samples \subseteq Digests /\ MaxNonce \in Nat
ASSUME DifficultiesAssumption == Difficulties \subseteq Nat
ASSUME GatewayAssumption == Gateway \subseteq 500 .. 599

VARIABLES
    keyed,      \* the body of RegisterMerchant carries an idempotency key
    invited,    \* the first request carries an invitation token
    code,       \* the intent whose mail the code was read from
    tried,      \* the digests of the nonces 0, 1, ... of the challenge
    intents,    \* the registration intents, each with its status
    challenges, \* what was answered to the request for one
    merchants,  \* the intents that merchants were registered for
    recorded    \* the merchant recorded under the key, or 0

agentVars == <<keyed, invited, code, tried>>
serverVars == <<intents, challenges, merchants, recorded>>
registrationVars == <<clientVars, agentVars, serverVars>>

RegistrationTypeOK ==
    /\ ClientTypeOK
    /\ keyed \in BOOLEAN /\ invited \in BOOLEAN
    /\ code \in 0 .. Len(intents)
    /\ tried \in Seq(Samples)
    /\ intents \in Seq({"new", "verified", "used", "expired"})
    /\ challenges \in Seq([intent : DOMAIN intents, required : BOOLEAN,
                           difficulty : Difficulties \cup {0}])
    /\ merchants \in Seq(DOMAIN intents)
    /\ recorded \in 0 .. Len(merchants)

RegistrationInit ==
    /\ ClientInit
    /\ keyed \in BOOLEAN /\ invited \in BOOLEAN
    /\ code = 0
    /\ tried = << >>
    /\ intents = << >>
    /\ challenges = << >>
    /\ merchants = << >>
    /\ recorded = 0

Succeeded(c) == result[c].kind = "ok"
Failed(c) == Returned(c) /\ ~Succeeded(c)

-----------------------------------------------------------------------------
(* What the agent passes on from one step to the next.                     *)

\* verify.RegistrationIntentId, and confirmed.RegistrationIntentId
IntentId == result["RequestEmailVerification"].id
ConfirmedId == result["ConfirmEmailVerification"].id
Pow == challenges[result["RequestRegistrationProofOfWork"].id]

Enough(sum) == LeadingZeroBits(sum) >= Pow.difficulty

Solved == tried # << >> /\ Enough(tried[Len(tried)])
Nonce == Len(tried) - 1

\* Mutant: the key is generated anew for every attempt.
BodyKeyOnce(m) == keyed /\ m = [call |-> "RegisterMerchant", n |-> 0]

\* RegisterMerchantRequest.IdempotencyKey: the body is the same every time.
BodyKey(m) == keyed

-----------------------------------------------------------------------------
(* The steps of the agent.                                                 *)

\* Bound: what is left of an earlier step, other than of RegisterMerchant, is
\* lost: another mail, or a challenge nobody is told of, concerns nobody.
Take(c) ==
    /\ pc[c] = "idle"
    /\ pc' = [pc EXCEPT ![c] = "ready"]
    /\ requests' = { m \in requests : m.call = "RegisterMerchant" }
    /\ UNCHANGED <<attempt, ctx, lastErr, result, reply,
                   keyed, invited, tried, serverVars>>

RequestEmailVerification ==
    Take("RequestEmailVerification") /\ UNCHANGED code

\* The code of any mail that was sent: a retry sends another one.
ConfirmEmailVerification ==
    /\ Succeeded("RequestEmailVerification")
    /\ Take("ConfirmEmailVerification")
    /\ code' \in DOMAIN intents

RequestRegistrationProofOfWork ==
    /\ Succeeded("ConfirmEmailVerification")
    /\ Take("RequestRegistrationProofOfWork")
    /\ UNCHANGED code

Challenged == Succeeded("RequestRegistrationProofOfWork") /\ Pow.required

\* One turn of the loop; it looks at no context.
SolveProofOfWork ==
    /\ Challenged
    /\ ~Solved
    /\ Len(tried) <= MaxNonce
    /\ \E sum \in Samples : tried' = Append(tried, sum)
    /\ UNCHANGED <<clientVars, keyed, invited, code, serverVars>>

RegisterMerchant ==
    /\ Succeeded("RequestRegistrationProofOfWork")
    /\ Pow.required => Solved
    /\ Take("RegisterMerchant")
    /\ UNCHANGED code

RegisterMerchantAgain ==
    /\ Failed("RegisterMerchant")
    /\ Take("RegisterMerchant again")
    /\ UNCHANGED code

AgentStep ==
    \/ RequestEmailVerification
    \/ ConfirmEmailVerification
    \/ RequestRegistrationProofOfWork
    \/ SolveProofOfWork
    \/ RegisterMerchant
    \/ RegisterMerchantAgain

ClientStep(c) == Client(c, TRUE) /\ UNCHANGED <<agentVars, serverVars>>

\* The agent makes all its calls under one context.  Bound: it ends during the
\* search, between two attempts, or not at all.
CancelCtx ==
    /\ \/ Challenged /\ ~Solved
       \/ \E c \in Calls : pc[c] = "backoff"
    /\ ctx["RegisterMerchant again"] = "live"
    /\ ctx' = [c \in Calls |-> "done"]
    /\ UNCHANGED <<pc, attempt, lastErr, result, requests, reply,
                   agentVars, serverVars>>

-----------------------------------------------------------------------------
(* The service (external).                                                 *)

Is(m, step) == m.call = step
Hidden == { [status |-> s, code |-> 0, id |-> 0] : s \in Gateway }
Ok(s, id) == [status |-> s, code |-> 0, id |-> id]

\* A proxy may hide the answer behind its own.
Respond(m, r) == \E a \in {r} \cup Hidden : Answer(m, a)
Refusal == [status |-> 400, code |-> 3, id |-> 0]

SendCode(m) ==
    /\ Is(m, "RequestEmailVerification")
    /\ intents' = Append(intents, "new")
    /\ Respond(m, Ok(200, Len(intents) + 1))
    /\ UNCHANGED <<challenges, merchants, recorded>>

\* A code is good once; for the rest, see Refuse.
Verify(m) ==
    /\ Is(m, "ConfirmEmailVerification")
    /\ code = IntentId
    /\ intents[IntentId] = "new"
    /\ intents' = [intents EXCEPT ![IntentId] = "verified"]
    /\ Respond(m, Ok(200, IntentId))
    /\ UNCHANGED <<challenges, merchants, recorded>>

Challenge(m) ==
    /\ Is(m, "RequestRegistrationProofOfWork")
    /\ intents[ConfirmedId] = "verified"
    /\ \E d \in IF invited THEN {0} ELSE Difficulties :
         challenges' = Append(challenges, [intent |-> ConfirmedId,
                                           required |-> ~invited,
                                           difficulty |-> d])
    /\ Respond(m, Ok(200, Len(challenges) + 1))
    /\ UNCHANGED <<intents, merchants, recorded>>

IsRegister(m) == Is(m, "RegisterMerchant") \/ Is(m, "RegisterMerchant again")
Located(m) == IF BodyKey(m) THEN recorded ELSE 0

Acceptable ==
    /\ intents[ConfirmedId] = "verified"
    /\ Pow.intent = ConfirmedId
    /\ Pow.required => Accepts(tried[Nonce + 1], Pow.difficulty)

Register(m) ==
    /\ IsRegister(m)
    /\ Located(m) = 0
    /\ Acceptable
    /\ merchants' = Append(merchants, ConfirmedId)
    /\ recorded' = IF BodyKey(m) THEN Len(merchants) + 1 ELSE recorded
    /\ intents' = [intents EXCEPT ![ConfirmedId] = "used"]
    /\ Respond(m, Ok(201, Len(merchants) + 1))
    /\ UNCHANGED challenges

\* "replay-safe onboarding retries"
Replay(m) ==
    /\ IsRegister(m)
    /\ Located(m) # 0
    /\ Respond(m, Ok(201, Located(m)))
    /\ UNCHANGED serverVars

Refuse(m) ==
    /\ \/ /\ Is(m, "ConfirmEmailVerification")
          /\ code # IntentId \/ intents[IntentId] # "new"
       \/ /\ Is(m, "RequestRegistrationProofOfWork")
          /\ intents[ConfirmedId] # "verified"
       \/ IsRegister(m) /\ Located(m) = 0 /\ ~Acceptable
    /\ Respond(m, Refusal)
    /\ UNCHANGED serverVars

ServerStep(m) ==
    /\ SendCode(m) \/ Verify(m) \/ Challenge(m) \/ Register(m) \/ Replay(m)
         \/ Refuse(m)
    /\ UNCHANGED <<pc, attempt, ctx, lastErr, result, agentVars>>

\* The intent of the agent expires, and everything bound to it.
Expire ==
    /\ Succeeded("RequestEmailVerification")
    /\ intents[IntentId] \in {"new", "verified"}
    /\ intents' = [intents EXCEPT ![IntentId] = "expired"]
    /\ UNCHANGED <<clientVars, agentVars, challenges, merchants, recorded>>

-----------------------------------------------------------------------------
RegistrationNext ==
    \/ AgentStep
    \/ \E c \in Calls : ClientStep(c)
    \/ CancelCtx
    \/ \E m \in requests : ServerStep(m)
    \/ Expire

RegistrationSpec == RegistrationInit /\ [][RegistrationNext]_registrationVars

\* The agent goes on, its calls run, and every exchange ends.
RegistrationLiveSpec ==
    /\ RegistrationSpec
    /\ WF_registrationVars(AgentStep)
    /\ \A c \in Calls : WF_registrationVars(ClientStep(c))

-----------------------------------------------------------------------------
(* Properties.                                                             *)

\* A solution that SolveProofOfWork returned, and every attempt sends along
\* with the challenge it was got for, is one the server accepts, although the
\* two count the bits in different ways; and no acceptable nonce was passed
\* over, so that the search ends as soon as it can, at once if the difficulty
\* is 0.
SolvedIsAccepted ==
    /\ CountsAgree
    /\ Challenged =>
        /\ pc["RegisterMerchant"] # "idle" =>
             Accepts(tried[Nonce + 1], Pow.difficulty)
        /\ \A n \in 1 .. Nonce : ~Accepts(tried[n], Pow.difficulty)

Refused(c) == result[c].kind = "api" /\ result[c].status < 500

\* An agent that gave its request a key and is refused owns no merchant, in
\* spite of all attempts whose answers were lost or come late.  With no key, as
\* in the example of README.md, that is so only if its very first attempt was
\* refused: otherwise a merchant may exist whose API key nobody was told.
RefusedMeansNotRegistered ==
    \A c \in {"RegisterMerchant", "RegisterMerchant again"} :
        /\ Refused(c)
        /\ keyed \/ (c = "RegisterMerchant" /\ attempt[c] = 0)
        => merchants = << >>

\* The registration comes to an end, whatever the network and the service do,
\* except in the search for a nonce: that goes on for as long as no nonce it
\* tried is acceptable, whether or not the context of the agent is done.
Over ==
    \/ Failed("RequestEmailVerification")
    \/ Failed("ConfirmEmailVerification")
    \/ Failed("RequestRegistrationProofOfWork")
    \/ Succeeded("RegisterMerchant")
    \/ Returned("RegisterMerchant again")
Searching ==
    Challenged /\ \A n \in DOMAIN tried : ~Accepts(tried[n], Pow.difficulty)
RegistrationEnds == <>Over \/ <>[]Searching
=============================================================================
