--------------------------------- MODULE X402 ---------------------------------
(***************************************************************************)
(* RetryRequestWithX402Proof (x402.go): a request is made, a 402 answer    *)
(* brings a challenge, a provider or a facilitator of the caller pays and  *)
(* gives a proof, and the request is made again with it.  The callbacks    *)
(* and the resource server are external: a callback may fail after it      *)
(* paid, and an answer may be lost after the resource was served.          *)
(***************************************************************************)
EXTENDS Response

CONSTANTS
    Calls,      \* calls of RetryRequestWithX402Proof
    Quotes,     \* what challenges ask for
    NoQuote,    \* none
    Refusals    \* statuses of answers given with no effect, 402 among them

ASSUME QuotesAssumption == NoQuote \notin Quotes
ASSUME RefusalsAssumption == Refusals \subseteq 400 .. 599

VARIABLES
    pc,         \* where each call stands
    callbacks,  \* those it was given that are not nil
    challenge,  \* what it parsed
    proof,      \* what it was given to present, or NoPayment
    err,        \* the provider has returned an error
    result,     \* what the call returned
    quoted,     \* external: what the server asked the call for
    paid,       \* external: the payments made
    served      \* external: the payments the server has taken

clientVars == <<pc, callbacks, challenge, proof, err, result>>
x402Vars == <<clientVars, quoted, paid, served>>

Payers == {"provider", "facilitator"}
Payments == [call : Calls, by : Payers, quote : Quotes]
NoPayment == [call |-> "nobody", by |-> "nobody", quote |-> NoQuote]

ChallengeErrors == {"missing", "invalid", "read"}
Results == Outcomes
    \cup { Plain(k) : k \in ChallengeErrors \cup {"unavailable", "prover"} }

X402TypeOK ==
    /\ pc \in [Calls -> {"idle", "ask", "provide", "facilitate", "prove", "returned"}]
    /\ callbacks \in [Calls -> SUBSET Payers]
    /\ challenge \in [Calls -> Quotes \cup {NoQuote}]
    /\ proof \in [Calls -> Payments \cup {NoPayment}]
    /\ err \in [Calls -> BOOLEAN]
    /\ result \in [Calls -> Results]
    /\ quoted \in [Calls -> Quotes \cup {NoQuote}]
    /\ paid \subseteq Payments
    /\ served \subseteq Payments

X402Init ==
    /\ pc = [c \in Calls |-> "idle"]
    /\ callbacks = [c \in Calls |-> {}]
    /\ challenge = [c \in Calls |-> NoQuote]
    /\ proof = [c \in Calls |-> NoPayment]
    /\ err = [c \in Calls |-> FALSE]
    /\ result = [c \in Calls |-> Plain("none")]
    /\ quoted = [c \in Calls |-> NoQuote]
    /\ paid = {}
    /\ served = {}

-----------------------------------------------------------------------------
(* Reading a challenge.  A form is what the header or the body of a 402    *)
(* holds: a challenge, an empty object, nothing, or what is not one; a     *)
(* body may break off, too.                                                *)

Challenge(q) == [kind |-> "challenge", quote |-> q]
Form(kind) == [kind |-> kind, quote |-> NoQuote]
ChallengeHeaders == {Challenge(q) : q \in Quotes} \cup {Form(k) : k \in {"none", "empty", "junk"}}
ChallengeBodies == ChallengeHeaders \cup {Form("broken")}

\* Mutant: a header that is no challenge is not passed over.
ParseX402ChallengeHeader(header, body) ==
    IF header.kind # "none" THEN header
    ELSE IF body.kind = "challenge" THEN body
    ELSE Form("missing")

ParseX402Challenge(header, body) ==
    IF header.kind = "challenge" THEN header
    ELSE IF body.kind = "challenge" THEN body
    ELSE IF body.kind = "broken" THEN Form("read")
    ELSE IF body.kind = "junk" THEN Form("invalid")
    ELSE Form("missing")

-----------------------------------------------------------------------------
(* The steps of a call.                                                    *)

Goto(c, stage) == pc' = [pc EXCEPT ![c] = stage]

Return(c, o) ==
    /\ Goto(c, "returned")
    /\ result' = [result EXCEPT ![c] = o]

Start(c) ==
    /\ pc[c] = "idle"
    /\ Goto(c, "ask")
    /\ \E given \in SUBSET Payers : callbacks' = [callbacks EXCEPT ![c] = given]
    /\ UNCHANGED <<challenge, proof, err, result, quoted, paid, served>>

\* Any JSON object would do for the caller's out, that of an error too.
Status(s) == [status |-> s, code |-> 0, id |-> 1]
Resource == [status |-> 200, code |-> 0, id |-> 1]
Free == {Resource, Status(204)}
Refused == { Status(s) : s \in Refusals }

\* An answer that is read, or a callback that returns an error in its place; a
\* call with a nil out wants no body, and reads one answer.
ReadOf(r) == { DecodeResponse(r, wantsBody, intact) : wantsBody, intact \in BOOLEAN }
Received(r) == ReadOf(r) \cup {Plain("transport")}

\* doRequest(ctx, "") brings no challenge.
AskAnswered(c) ==
    /\ pc[c] = "ask"
    /\ \E r \in Free \cup Refused : \E o \in Received(r) :
         (r.status # 402 \/ o.kind = "transport") /\ Return(c, o)
    /\ UNCHANGED <<callbacks, challenge, proof, err, quoted, paid, served>>

\* The callback that is asked first.
FirstPayer(c) ==
    IF "provider" \in callbacks[c] THEN "provide" ELSE "facilitate"

\* Mutant: a 402 without a challenge is decoded like every other answer.
AskChallengedDecode(c) ==
    /\ pc[c] = "ask"
    /\ \E header \in ChallengeHeaders, body \in ChallengeBodies :
         LET form == ParseX402Challenge(header, body)
         IN  /\ quoted' = [quoted EXCEPT ![c] = form.quote]
             /\ challenge' = [challenge EXCEPT ![c] = form.quote]
             /\ IF form.kind = "challenge"
                  THEN Goto(c, FirstPayer(c)) /\ UNCHANGED result
                  ELSE Return(c, DecodeResponse(Status(402), TRUE, TRUE))
    /\ UNCHANGED <<callbacks, proof, err, paid, served>>

\* doRequest(ctx, "") brings a 402.  A server that fills both asks for what
\* is in the header.
AskChallenged(c) ==
    /\ pc[c] = "ask"
    /\ \E header \in ChallengeHeaders, body \in ChallengeBodies :
         LET form == ParseX402Challenge(header, body)
         IN  /\ quoted' = [quoted EXCEPT ![c] =
                  IF header.kind = "challenge" THEN header.quote ELSE body.quote]
             /\ challenge' = [challenge EXCEPT ![c] = form.quote]
             /\ IF form.kind = "challenge"
                  THEN Goto(c, FirstPayer(c)) /\ UNCHANGED result
                  ELSE Return(c, Plain(form.kind))
    /\ UNCHANGED <<callbacks, proof, err, paid, served>>

Payment(c, by) == [call |-> c, by |-> by, quote |-> challenge[c]]

\* A callback that returns no error has paid for the proof it gives, or gives
\* an empty one, which is presented all the same.
Proves(c, by) ==
    \/ /\ paid' = paid \cup {Payment(c, by)}
       /\ proof' = [proof EXCEPT ![c] = Payment(c, by)]
    \/ UNCHANGED <<paid, proof>>

\* A callback returns an error, and may have paid by then.
Fails(c, by) ==
    /\ paid' \in {paid, paid \cup {Payment(c, by)}}
    /\ UNCHANGED proof

\* Mutant: the facilitator is asked although the provider gave a proof.
ProvideProofAndGoOn(c) ==
    /\ pc[c] = "provide"
    /\ Proves(c, "provider")
    /\ Goto(c, IF "facilitator" \in callbacks[c] THEN "facilitate" ELSE "prove")
    /\ UNCHANGED <<callbacks, challenge, err, result, quoted, served>>

ProvideProof(c) ==
    /\ pc[c] = "provide"
    /\ Proves(c, "provider")
    /\ Goto(c, "prove")
    /\ UNCHANGED <<callbacks, challenge, err, result, quoted, served>>

ProviderFails(c) ==
    /\ pc[c] = "provide"
    /\ Fails(c, "provider")
    /\ err' = [err EXCEPT ![c] = TRUE]
    /\ IF "facilitator" \in callbacks[c]
         THEN Goto(c, "facilitate") /\ UNCHANGED result
         ELSE Return(c, Plain("prover"))
    /\ UNCHANGED <<callbacks, challenge, quoted, served>>

Facilitate(c) ==
    /\ pc[c] = "facilitate"
    /\ "facilitator" \in callbacks[c]
    /\ Proves(c, "facilitator")
    /\ Goto(c, "prove")
    /\ UNCHANGED <<callbacks, challenge, err, result, quoted, served>>

\* The error returned is the provider's when there is a provider.
FacilitatorFails(c) ==
    /\ pc[c] = "facilitate"
    /\ "facilitator" \in callbacks[c]
    /\ Fails(c, "facilitator")
    /\ Return(c, Plain("prover"))
    /\ UNCHANGED <<callbacks, challenge, err, quoted, served>>

\* ErrX402ProofUnavailable
NoCallback(c) ==
    /\ pc[c] = "facilitate"
    /\ callbacks[c] = {}
    /\ Return(c, Plain("unavailable"))
    /\ UNCHANGED <<callbacks, challenge, proof, err, quoted, paid, served>>

\* doRequest(ctx, proof): the server takes the payment for what it asked, and
\* serves; its answer may be hidden by a proxy's 5xx, or lost.
ProveServed(c) ==
    /\ pc[c] = "prove"
    /\ proof[c] \in paid \ served
    /\ proof[c].quote = quoted[c]
    /\ served' = served \cup {proof[c]}
    /\ \E r \in {Resource} \cup { s \in Refused : s.status >= 500 } :
         \E o \in Received(r) : Return(c, o)
    /\ UNCHANGED <<callbacks, challenge, proof, err, quoted, paid>>

\* It does not get there, or is refused.
ProveRefused(c) ==
    /\ pc[c] = "prove"
    /\ \E r \in Refused : \E o \in Received(r) : Return(c, o)
    /\ UNCHANGED <<callbacks, challenge, proof, err, quoted, paid, served>>

X402Next ==
    \E c \in Calls :
        \/ Start(c)
        \/ AskAnswered(c)
        \/ AskChallenged(c)
        \/ ProvideProof(c)
        \/ ProviderFails(c)
        \/ Facilitate(c)
        \/ FacilitatorFails(c)
        \/ NoCallback(c)
        \/ ProveServed(c)
        \/ ProveRefused(c)

X402Spec == X402Init /\ [][X402Next]_x402Vars

-----------------------------------------------------------------------------
(* Properties.                                                             *)

PaidBy(c) == { p \in paid : p.call = c }

\* A challenge is paid once, unless the provider said it had failed although
\* it had paid: only then is the facilitator asked for what was paid already.
PaidOnce ==
    \A c \in Calls : \A p, q \in PaidBy(c) : p # q => err[c]

\* A call that returned the resource after a challenge paid what the server
\* asked, and that payment is the one the server took.
SuccessIsPaidFor ==
    \A c \in Calls :
        result[c].kind = "ok" /\ quoted[c] # NoQuote =>
            \E p \in PaidBy(c) \cap served : p.quote = quoted[c] /\ proof[c] = p

\* Whether to ask again is safe can be told from the error: those of the
\* challenge, and of missing callbacks, come before anything is paid, while a
\* 402 *Error comes after a challenge was read and paid for with a payment the
\* server has not taken, unless the callback gave an empty proof.
ErrorTellsIfPaid ==
    \A c \in Calls :
        /\ result[c].kind \in ChallengeErrors \cup {"unavailable"} => PaidBy(c) = {}
        /\ result[c].status = 402 =>
               /\ PaidBy(c) \cap served = {}
               /\ challenge[c] # NoQuote
               /\ PaidBy(c) # {} \/ proof[c] = NoPayment
=============================================================================
