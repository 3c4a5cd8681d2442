-------------------------------- MODULE Webhook --------------------------------
(***************************************************************************)
(* The webhook verifier (webhook.go) between a service that signs its      *)
(* deliveries and rotates the secret (external), and a receiver that takes *)
(* up the new secret and drops the old one.                                *)
(*                                                                         *)
(* A header is the sequence of its k=v parts.  A MAC is the triple it was  *)
(* computed from.  Time is in whole seconds; a time.Duration holds those   *)
(* from -MaxDuration - 1 to MaxDuration.                                   *)
(***************************************************************************)
EXTENDS Integers, Sequences

CONSTANTS
    Bodies,             \* the raw bodies of events
    Undecodable,        \* those that are no WebhookEvent
    MaxDuration,        \* the greatest time.Duration, in seconds
    DefaultWebhookTolerance,
    Tolerances,         \* what receivers ask for; 0 stands for the default
    Offsets,            \* how far the clock of the sender is from ours
    Overlap,            \* how long the service signs with both secrets
    MaxClock, MaxSecret \* bounds: the run of the clock, the rotations

ASSUME DurationAssumption == MaxDuration \in Nat
ASSUME ToleranceAssumption ==
    /\ DefaultWebhookTolerance \in 1 .. MaxDuration
    /\ Tolerances \subseteq 0 .. MaxDuration
ASSUME UndecodableAssumption == Undecodable \subseteq Bodies
ASSUME BoundsAssumption ==
    /\ Bodies # {} /\ Tolerances # {}
    /\ Offsets \subseteq Int /\ Overlap \in Nat
    /\ MaxClock \in Nat /\ MaxSecret \in Nat \ {0}

\* A sender's clock is near enough for the overlap to outlast its deliveries,
\* or so far ahead that we never catch up with it (it counts
\* milliseconds).
ASSUME OffsetAssumption ==
    \A o \in Offsets, t \in Tolerances \cup {DefaultWebhookTolerance} :
        o + t < Overlap \/ o - t > MaxClock

VARIABLES
    clock,      \* the receiver's now
    latest,     \* the secret the service issued last; it counts from 1
    rotated,    \* when it was issued, or NotRotating outside the overlap
    held,       \* the receiver's secrets, current first; 0 is ""
    sent,       \* the delivery on its way
    verdict     \* what the receiver has just said of it

webhookVars == <<clock, latest, rotated, held, sent, verdict>>

NotRotating == -1
Errors == {"missing_signature", "missing_secret", "invalid", "expired", "decode"}
VerifyOutcomes == {"none", "ok"} \cup Errors
Clock == 0 .. MaxClock

-----------------------------------------------------------------------------
(* The header.  `text' tells a value that is a number or a MAC from the    *)
(* empty one and from one that ParseInt or DecodeString refuses.           *)

Part(k, text, value) == [k |-> k, text |-> text, value |-> value]
Mac(secret, sec, body) == <<secret, sec, body>>
T(sec) == Part("t", "good", sec)
V1(secret, sec, body) == Part("v1", "good", Mac(secret, sec, body))
BadHex == Part("v1", "bad", << >>)
NoTime == Part("t", "empty", 0)

TimePart(header) ==
    LET ts == { i \in DOMAIN header : header[i].k = "t" }
    IN  IF ts = {} THEN NoTime
        ELSE header[CHOOSE i \in ts : \A j \in ts : j <= i]

V1Indices(header) ==
    { i \in DOMAIN header : header[i].k = "v1" /\ header[i].text # "empty" }

\* Mutant: one v1 part is kept, the first.
SignaturesFirst(header) ==
    { header[i] : i \in { j \in V1Indices(header) :
                            \A l \in V1Indices(header) : j <= l } }

Signatures(header) == { header[i] : i \in V1Indices(header) }

ParseSignatureHeader(header) ==
    [ok |-> TimePart(header).text # "empty" /\ Signatures(header) # {},
     t |-> TimePart(header), v1 |-> Signatures(header)]

-----------------------------------------------------------------------------
(* The age.  time.Time.Sub saturates, and the least Duration has no        *)
(* opposite: it is its own.                                                *)

MinDuration == -MaxDuration - 1

Sub(now, then) ==
    LET d == now - then
    IN  IF d > MaxDuration THEN MaxDuration
        ELSE IF d < MinDuration THEN MinDuration ELSE d

Neg(d) == IF d = MinDuration THEN d ELSE -d

\* Mutant: a stamp ahead of our clock is taken for a young one.
AgeSigned(now, sec) == Sub(now, sec)

Age(now, sec) ==
    LET age == Sub(now, sec) IN IF age < 0 THEN Neg(age) ELSE age

Tolerance(tolerance) ==
    IF tolerance <= 0 THEN DefaultWebhookTolerance ELSE tolerance

-----------------------------------------------------------------------------
(* The verifier.                                                           *)

Matches(header, secret, sec, body) ==
    \E p \in header.v1 : p.text = "good" /\ p.value = Mac(secret, sec, body)

VerifySignature(body, signature, secret, tolerance, now) ==
    LET header == ParseSignatureHeader(signature)
        sec == header.t.value
    IN  IF signature = << >> THEN "missing_signature"
        ELSE IF secret = 0 THEN "missing_secret"
        ELSE IF ~header.ok \/ header.t.text = "bad" THEN "invalid"
        ELSE IF Age(now, sec) > Tolerance(tolerance) THEN "expired"
        ELSE IF Matches(header, secret, sec, body) THEN "ok"
        ELSE "invalid"

VerifyWebhookAt(body, signature, secret, tolerance, now) ==
    LET o == VerifySignature(body, signature, secret, tolerance, now)
    IN  IF o = "ok" /\ body \in Undecodable THEN "decode" ELSE o

\* Mutant: the first secret decides.
VerifyWebhookAnyFirst(body, signature, secrets, tolerance, now) ==
    VerifyWebhookAt(body, signature, secrets[1], tolerance, now)

VerifyWebhookAny(body, signature, secrets, tolerance, now) ==
    IF \E i \in DOMAIN secrets :
          VerifyWebhookAt(body, signature, secrets[i], tolerance, now) = "ok"
      THEN "ok"
      ELSE "invalid"

-----------------------------------------------------------------------------
(* The service signs, and rotates the secret (external).                   *)

Helpers == {"VerifyWebhookAt", "VerifyWebhookAny"}
Verdicts == [helper : Helpers, outcome : VerifyOutcomes, body : Bodies,
             carried : BOOLEAN, tolerance : Tolerances]

AnyBody == CHOOSE b \in Bodies : TRUE
NoVerdict == [helper |-> "VerifyWebhookAt", outcome |-> "none", body |-> AnyBody,
              carried |-> FALSE, tolerance |-> CHOOSE t \in Tolerances : TRUE]

Header(sec, body) ==
    <<T(sec), V1(latest, sec, body)>>
        \o IF rotated = NotRotating THEN << >> ELSE <<V1(latest - 1, sec, body)>>

Stamps == { c + o : c \in Clock, o \in Offsets }
Headers(body) == Seq({ T(sec) : sec \in Stamps }
                       \cup { V1(s, sec, body) : s \in 1 .. MaxSecret, sec \in Stamps })

WebhookTypeOK ==
    /\ clock \in Clock
    /\ latest \in 1 .. MaxSecret
    /\ rotated \in Clock \cup {NotRotating}
    /\ held \in [1 .. 2 -> 0 .. MaxSecret]
    /\ sent.body \in Bodies
    /\ sent.header \in Headers(sent.body)
    /\ verdict \in Verdicts

WebhookInit ==
    /\ clock = 0
    /\ latest = 1
    /\ rotated = NotRotating
    /\ held = <<1, 0>>
    /\ sent = [body |-> AnyBody, header |-> << >>]
    /\ verdict = NoVerdict

Tick ==
    /\ clock < MaxClock
    /\ clock' = clock + 1
    /\ verdict' = NoVerdict
    /\ UNCHANGED <<latest, rotated, held, sent>>

\* The delivery before it has arrived as often as it will.
Deliver(body) ==
    /\ \E o \in Offsets :
         sent' = [body |-> body, header |-> Header(clock + o, body)]
    /\ verdict' = NoVerdict
    /\ UNCHANGED <<clock, latest, rotated, held>>

\* One rotation at a time: the receiver is done with the one before.
Rotate ==
    /\ rotated = NotRotating
    /\ held = <<latest, 0>>
    /\ latest < MaxSecret
    /\ latest' = latest + 1
    /\ rotated' = clock
    /\ verdict' = NoVerdict
    /\ UNCHANGED <<clock, held, sent>>

\* The overlap is long enough for the receiver to take up the new secret.
EndOverlap ==
    /\ rotated # NotRotating
    /\ clock >= rotated + Overlap
    /\ held[1] = latest
    /\ rotated' = NotRotating
    /\ verdict' = NoVerdict
    /\ UNCHANGED <<clock, latest, held, sent>>

-----------------------------------------------------------------------------
(* The receiver: it accepts the new and the previous secret for the time   *)
(* of the overlap, and verifies what it gets, as often as it gets it.      *)

\* Mutant: the list of secrets only grows.
AdoptAppends ==
    /\ held[1] # latest
    /\ held' = <<latest>> \o held
    /\ verdict' = NoVerdict
    /\ UNCHANGED <<clock, latest, rotated, sent>>

Adopt ==
    /\ held[1] # latest
    /\ held' = <<latest, held[1]>>
    /\ verdict' = NoVerdict
    /\ UNCHANGED <<clock, latest, rotated, sent>>

Drop ==
    /\ rotated = NotRotating
    /\ held[2] # 0
    /\ held' = <<held[1], 0>>
    /\ verdict' = NoVerdict
    /\ UNCHANGED <<clock, latest, rotated, sent>>

\* The ways a header arrives: as sent, in another order, after parts that are
\* none of its own, after the parts of another, or not at all.
Backwards(h) == [i \in DOMAIN h |-> h[Len(h) + 1 - i]]
Carried(h) ==
    {h, Backwards(h), <<NoTime, BadHex>> \o h, <<T(0), BadHex>> \o h, << >>}

\* Another body stands for one changed on its way.
Receive(helper) ==
    /\ sent.header # << >>
    /\ \E h \in Carried(sent.header), body \in Bodies, tolerance \in Tolerances :
         verdict' = [helper |-> helper, body |-> body, carried |-> h # << >>,
                     tolerance |-> tolerance,
                     outcome |->
                       IF helper = "VerifyWebhookAt"
                         THEN VerifyWebhookAt(body, h, held[1], tolerance, clock)
                         ELSE VerifyWebhookAny(body, h, held, tolerance, clock)]
    /\ UNCHANGED <<clock, latest, rotated, held, sent>>

WebhookNext ==
    \/ Tick \/ Rotate \/ EndOverlap \/ Adopt \/ Drop
    \/ \E body \in Bodies : Deliver(body)
    \/ \E helper \in Helpers : Receive(helper)

WebhookSpec == WebhookInit /\ [][WebhookNext]_webhookVars

-----------------------------------------------------------------------------
(* Properties.                                                             *)

Stamp == sent.header[1].value
Within(tolerance) ==
    Stamp - clock \in -Tolerance(tolerance) .. Tolerance(tolerance)
SignedUnder(secret) ==
    \E i \in DOMAIN sent.header : sent.header[i] = V1(secret, Stamp, sent.body)

\* No Duration holds the distance: it wraps for a stamp ahead of the clock,
\* and for one behind it is the greatest, which some receivers tolerate.
OutOfRange(tolerance) ==
    \/ Stamp - clock > MaxDuration
    \/ clock - Stamp > MaxDuration /\ Tolerance(tolerance) = MaxDuration

\* A delivery is accepted only with the body it was signed for, under a secret
\* the receiver holds, and within the tolerance, with one exception: a stamp
\* so far off that no Duration holds the distance.
AcceptedWasSent ==
    verdict.outcome = "ok" =>
        /\ verdict.body = sent.body
        /\ \E i \in DOMAIN held : SignedUnder(held[i])
        /\ Within(verdict.tolerance) \/ OutOfRange(verdict.tolerance)

\* A receiver that hands VerifyWebhookAny the new and the previous secret
\* while the overlap lasts loses no delivery by the rotation, those signed
\* before it and on their way included.
NothingLostInRotation ==
    /\ verdict.helper = "VerifyWebhookAny"
    /\ verdict.carried
    /\ verdict.body = sent.body
    /\ verdict.body \notin Undecodable
    /\ Within(verdict.tolerance)
    => verdict.outcome = "ok"

\* An error of VerifyWebhookAt tells what to do with the delivery: it came too
\* late or too early, or it is not signed under this secret, or it is signed
\* and cannot be read.  (VerifyWebhookAny answers ErrInvalidSignature to all.)
ErrorsTellWhy ==
    verdict.helper = "VerifyWebhookAt" =>
        /\ verdict.outcome = "expired" => ~Within(verdict.tolerance)
        /\ verdict.outcome = "invalid" =>
               verdict.body # sent.body \/ ~SignedUnder(held[1])
        /\ verdict.outcome = "decode" => SignedUnder(held[1])

\* "enforces the timestamp tolerance" (webhook.go, VerifyWebhook).
AcceptedWithinTolerance ==
    verdict.outcome = "ok" => Within(verdict.tolerance)
=============================================================================
