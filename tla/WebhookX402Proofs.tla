--------------------------- MODULE WebhookX402Proofs ---------------------------
(***************************************************************************)
(* The two parts of the library that make no doJSON call, and share no     *)
(* variable.  Webhook: what a receiver may conclude from what the verifier *)
(* says, for every width of a Duration, every tolerance, clock and number  *)
(* of rotations.  X402: what a call has paid, for any calls, quotes and    *)
(* refusals.                                                               *)
(***************************************************************************)
EXTENDS Webhook, X402, TLAPS

-----------------------------------------------------------------------------
(* The header.                                                             *)

\* H is signed at s: its stamp comes first, then a part for each MAC of M.
Shape(H, s, M) ==
    /\ Len(H) \in Nat \ {0} /\ DOMAIN H = 1 .. Len(H)
    /\ H[1] = T(s)
    /\ \A i \in 2 .. Len(H) : \E m \in M : H[i] = Part("v1", "good", m)
    /\ \A m \in M : \E i \in 2 .. Len(H) : H[i] = Part("v1", "good", m)
    /\ M # {}

\* The verifier reads the stamp s and the MACs of M in h.
Reads(h, s, M) ==
    /\ DOMAIN h \subseteq Int
    /\ \E i \in DOMAIN h :
         h[i] = T(s) /\ \A j \in DOMAIN h : h[j].k = "t" => j <= i
    /\ \A i \in DOMAIN h :
         h[i].k = "v1" => h[i] = BadHex \/ \E m \in M : h[i] = Part("v1", "good", m)
    /\ \A m \in M : \E i \in DOMAIN h : h[i] = Part("v1", "good", m)
    /\ M # {}

LEMMA PartFacts ==
    /\ \A k, text, value :
         /\ Part(k, text, value).k = k
         /\ Part(k, text, value).text = text
         /\ Part(k, text, value).value = value
    /\ \A s : T(s) = Part("t", "good", s)
    /\ BadHex = Part("v1", "bad", << >>)
    /\ NoTime = Part("t", "empty", 0)
  BY DEF Part, T, BadHex, NoTime

LEMMA ParseHeaderFacts ==
    ASSUME NEW h, NEW s, NEW M, Reads(h, s, M)
    PROVE  /\ ParseSignatureHeader(h).ok
           /\ ParseSignatureHeader(h).t = T(s)
           /\ \A secret, sec, body :
                Matches(ParseSignatureHeader(h), secret, sec, body)
                  <=> Mac(secret, sec, body) \in M
  <1> DEFINE ts == { i \in DOMAIN h : h[i].k = "t" }
             p == ParseSignatureHeader(h)
  <1>1. TimePart(h) = T(s)
    <2>1. PICK i \in DOMAIN h :
            h[i] = T(s) /\ \A j \in DOMAIN h : h[j].k = "t" => j <= i
      BY DEF Reads
    <2>2. i \in ts /\ i \in Int /\ ts \subseteq Int /\ \A j \in ts : j <= i
      BY <2>1 DEF Reads, T, Part
    <2>3. \A l \in ts : (\A j \in ts : j <= l) => l = i
      BY <2>2
    <2>4. (CHOOSE l \in ts : \A j \in ts : j <= l) = i
      BY <2>2, <2>3
    <2>5. ts # {}
      BY <2>2
    <2> QED
      BY <2>1, <2>4, <2>5 DEF TimePart
  <1>2. \A m \in M : Part("v1", "good", m) \in Signatures(h)
    BY PartFacts DEF Reads, Signatures, V1Indices
  <1>3. \A q \in Signatures(h) : q = BadHex \/ \E m \in M : q = Part("v1", "good", m)
    BY DEF Reads, Signatures, V1Indices
  <1>4. p.t = T(s) /\ p.v1 = Signatures(h)
    BY <1>1 DEF ParseSignatureHeader
  <1>5. p.ok
    <2>1. TimePart(h).text # "empty"
      BY <1>1, PartFacts
    <2>2. Signatures(h) # {}
      BY <1>2 DEF Reads
    <2> QED
      BY <2>1, <2>2, Zenon DEF ParseSignatureHeader
  <1>6. ASSUME NEW secret, NEW sec, NEW body
        PROVE  Matches(p, secret, sec, body) <=> Mac(secret, sec, body) \in M
    <2>1. \A q \in p.v1 :
            q.text = "good" => \E m \in M : q = Part("v1", "good", m) /\ q.value = m
      BY <1>3, <1>4, PartFacts
    <2>2. \A m \in M : \E q \in p.v1 : q.text = "good" /\ q.value = m
      BY <1>2, <1>4, PartFacts
    <2> QED
      BY <2>1, <2>2 DEF Matches
  <1> HIDE DEF p
  <1> QED
    BY <1>4, <1>5, <1>6 DEF p

\* However a header arrives, the same is read of it.
LEMMA CarriedFacts ==
    ASSUME NEW S, NEW H \in Seq(S), NEW s, NEW M, Shape(H, s, M),
           NEW h \in Carried(H), h # << >>
    PROVE  Reads(h, s, M)
  <1> USE PartFacts
  <1>1. CASE h = H
    <2>1. 1 \in DOMAIN h /\ DOMAIN h = 1 .. Len(H) /\ h[1] = T(s)
      BY <1>1 DEF Shape
    <2>2. \A i \in DOMAIN h : i = 1 \/ i \in 2 .. Len(H)
      BY <2>1 DEF Shape
    <2>3. \A i \in 2 .. Len(H) : \E m \in M : h[i] = Part("v1", "good", m)
      BY <1>1 DEF Shape
    <2>4. \A j \in DOMAIN h : h[j].k = "t" => j <= 1
      <3>1. \A i \in 2 .. Len(H) : h[i].k # "t"
        BY <2>3
      <3> QED
        BY <2>2, <3>1
    <2>5. \A i \in DOMAIN h :
            h[i].k = "v1" => \E m \in M : h[i] = Part("v1", "good", m)
      BY <2>1, <2>2, <2>3
    <2>6. \A m \in M : \E i \in DOMAIN h : h[i] = Part("v1", "good", m)
      BY <1>1, <2>1 DEF Shape
    <2>7. DOMAIN h \subseteq Int
      BY <2>1
    <2> QED
      BY <2>1, <2>4, <2>5, <2>6, <2>7, Zenon DEF Shape, Reads
  <1>2. CASE h = Backwards(H)
    <2>1. /\ DOMAIN h = 1 .. Len(H)
          /\ \A i \in 1 .. Len(H) : h[i] = H[Len(H) + 1 - i]
      BY <1>2 DEF Shape, Backwards
    <2>2. h[Len(H)] = T(s)
      BY <2>1 DEF Shape
    <2>3. \A m \in M : \E i \in DOMAIN h : h[i] = Part("v1", "good", m)
      <3>1. ASSUME NEW m \in M
            PROVE  \E i \in DOMAIN h : h[i] = Part("v1", "good", m)
        <4>1. PICK i \in 2 .. Len(H) : H[i] = Part("v1", "good", m)
          BY DEF Shape
        <4>2. Len(H) + 1 - i \in DOMAIN h /\ h[Len(H) + 1 - i] = H[i]
          BY <2>1 DEF Shape
        <4> QED
          BY <4>1, <4>2
      <3> QED
        BY <3>1
    <2>4. \A i \in DOMAIN h :
            i = Len(H) \/ \E m \in M : h[i] = Part("v1", "good", m)
      <3>1. \A i \in DOMAIN h : i = Len(H) \/ Len(H) + 1 - i \in 2 .. Len(H)
        <4>1. \A n \in Nat : \A i \in 1 .. n : i = n \/ n + 1 - i \in 2 .. n
          OBVIOUS
        <4>2. Len(H) \in Nat
          BY DEF Shape
        <4> QED
          BY <2>1, <4>1, <4>2, Zenon
      <3>2. \A i \in DOMAIN h : h[i] = H[Len(H) + 1 - i]
        BY <2>1
      <3>3. \A i \in 2 .. Len(H) : \E m \in M : H[i] = Part("v1", "good", m)
        BY DEF Shape
      <3> QED
        BY <3>1, <3>2, <3>3
    <2>5. \A j \in DOMAIN h : h[j].k = "t" => j <= Len(H)
      BY <2>1 DEF Shape
    <2>6. \A i \in DOMAIN h :
            h[i].k = "v1" => \E m \in M : h[i] = Part("v1", "good", m)
      BY <2>2, <2>4
    <2>7. Len(H) \in DOMAIN h /\ DOMAIN h \subseteq Int
      BY <2>1 DEF Shape
    <2> QED
      BY <2>2, <2>3, <2>5, <2>6, <2>7, Zenon DEF Shape, Reads
  <1>3. ASSUME NEW t, t.k = "t", h = <<t, BadHex>> \o H
        PROVE  Reads(h, s, M)
    <2>1. /\ DOMAIN h = 1 .. Len(H) + 2
          /\ h[1] = t /\ h[2] = BadHex
          /\ \A i \in 1 .. Len(H) : h[i + 2] = H[i]
      BY <1>3 DEF Shape
    <2>2. h[3] = T(s)
      BY <2>1 DEF Shape
    <2>3. ASSUME NEW m \in M
          PROVE  \E i \in DOMAIN h : h[i] = Part("v1", "good", m)
      <3>1. PICK i \in 2 .. Len(H) : H[i] = Part("v1", "good", m)
        BY DEF Shape
      <3>2. i + 2 \in DOMAIN h /\ h[i + 2] = H[i]
        BY <2>1 DEF Shape
      <3> QED
        BY <3>1, <3>2
    <2>4. \A i \in 4 .. Len(H) + 2 : \E m \in M : h[i] = Part("v1", "good", m)
      <3>1. \A i \in 4 .. Len(H) + 2 : i - 2 \in 2 .. Len(H) /\ h[i] = H[i - 2]
        BY <2>1 DEF Shape
      <3> QED
        BY <3>1 DEF Shape
    <2>5. \A i \in DOMAIN h : i \in {1, 2, 3} \/ i \in 4 .. Len(H) + 2
      BY <2>1 DEF Shape
    <2>6. \A j \in DOMAIN h : h[j].k = "t" => j <= 3
      <3>1. \A i \in 4 .. Len(H) + 2 : h[i].k # "t"
        BY <2>4
      <3> QED
        BY <2>5, <3>1
    <2>7. \A i \in DOMAIN h :
            h[i].k = "v1" => h[i] = BadHex \/ \E m \in M : h[i] = Part("v1", "good", m)
      BY <1>3, <2>1, <2>2, <2>4, <2>5
    <2>8. 3 \in DOMAIN h /\ DOMAIN h \subseteq Int
      BY <2>1 DEF Shape
    <2> QED
      BY <2>2, <2>3, <2>6, <2>7, <2>8, Zenon DEF Shape, Reads
  <1> QED
    BY <1>1, <1>2, <1>3 DEF Carried

-----------------------------------------------------------------------------
(* The age, and what the verifier says.                                    *)

LEMMA AgeFacts ==
    ASSUME NEW now \in Int, NEW sec \in Int, NEW tolerance \in Tolerances
    PROVE  /\ Tolerance(tolerance) \in 1 .. MaxDuration
           /\ ~(Age(now, sec) > Tolerance(tolerance)) <=>
                \/ sec - now \in -Tolerance(tolerance) .. Tolerance(tolerance)
                \/ sec - now > MaxDuration
                \/ now - sec > MaxDuration /\ Tolerance(tolerance) = MaxDuration
  <1>1. Tolerance(tolerance) \in 1 .. MaxDuration /\ MaxDuration \in Nat
    BY DurationAssumption, ToleranceAssumption DEF Tolerance
  <1>2. CASE now - sec > MaxDuration
    BY <1>1, <1>2 DEF Age, Sub, Neg, MinDuration
  <1>3. CASE now - sec < MinDuration
    BY <1>1, <1>3 DEF Age, Sub, Neg, MinDuration
  <1>4. CASE now - sec \in MinDuration .. MaxDuration
    BY <1>1, <1>4 DEF Age, Sub, Neg, MinDuration
  <1> QED
    BY <1>1, <1>2, <1>3, <1>4 DEF MinDuration

LEMMA SignatureFacts ==
    ASSUME NEW h, NEW s, NEW M, Reads(h, s, M), h # << >>,
           NEW body, NEW secret, NEW tolerance, NEW now
    PROVE  VerifySignature(body, h, secret, tolerance, now) =
             IF secret = 0 THEN "missing_secret"
             ELSE IF Age(now, s) > Tolerance(tolerance) THEN "expired"
             ELSE IF Mac(secret, s, body) \in M THEN "ok"
             ELSE "invalid"
  <1> DEFINE p == ParseSignatureHeader(h)
  <1>1. p.ok /\ p.t.value = s /\ p.t.text = "good"
    BY ParseHeaderFacts, PartFacts
  <1>2. Matches(p, secret, s, body) <=> Mac(secret, s, body) \in M
    BY ParseHeaderFacts
  <1> HIDE DEF p
  <1>3. VerifySignature(body, h, secret, tolerance, now) =
          IF secret = 0 THEN "missing_secret"
          ELSE IF ~p.ok \/ p.t.text = "bad" THEN "invalid"
          ELSE IF Age(now, p.t.value) > Tolerance(tolerance) THEN "expired"
          ELSE IF Matches(p, secret, p.t.value, body) THEN "ok"
          ELSE "invalid"
    BY DEF VerifySignature, p
  <1> QED
    BY <1>1, <1>2, <1>3

-----------------------------------------------------------------------------
(* The inductive invariant.                                                *)

Macs(a, s, body, two) ==
    {Mac(a, s, body)} \cup IF two THEN {Mac(a - 1, s, body)} ELSE {}

\* What is on its way was signed at clock c under secret a, and the one before
\* it if two; then either the overlap is over for it, or it is signed under the
\* latest secret, or under the one before in a rotation that came after it.
SignedAt(c, o, a, two) ==
    /\ sent.header =
         <<T(c + o), V1(a, c + o, sent.body)>>
           \o IF two THEN <<V1(a - 1, c + o, sent.body)>> ELSE << >>
    /\ a \in 1 .. latest /\ (two => a - 1 >= 1)
    /\ \/ c + Overlap <= clock
       \/ a = latest /\ (two \/ rotated = NotRotating)
       \/ a = latest - 1 /\ rotated # NotRotating /\ c <= rotated

SentSigned ==
    \/ sent.header = << >>
    \/ \E c \in 0 .. clock, o \in Offsets, a \in 1 .. latest, two \in BOOLEAN :
         SignedAt(c, o, a, two)

\* The receiver holds the latest secret, or the overlap goes on and it holds
\* the one before; and as long as that goes on it does not drop it.
HeldAgrees ==
    /\ held[1] \in {latest, latest - 1}
    /\ held[2] \in {0, latest - 1}
    /\ held[1] # latest => rotated # NotRotating /\ held[2] = 0
    /\ rotated # NotRotating =>
         /\ latest >= 2 /\ rotated <= clock
         /\ held[1] = latest => held[2] = latest - 1

WebhookIInv ==
    /\ WebhookTypeOK
    /\ SentSigned
    /\ HeldAgrees
    /\ AcceptedWasSent
    /\ NothingLostInRotation
    /\ ErrorsTellWhy

\* What is signed has the shape the verifier reads.
LEMMA SignedFacts ==
    ASSUME WebhookTypeOK, NEW c \in Int, NEW o \in Int, NEW a \in Int, NEW two \in BOOLEAN,
           SignedAt(c, o, a, two)
    PROVE  /\ Shape(sent.header, c + o, Macs(a, c + o, sent.body, two))
           /\ Stamp = c + o
           /\ \A secret : SignedUnder(secret) <=>
                Mac(secret, c + o, sent.body) \in Macs(a, c + o, sent.body, two)
  <1> DEFINE H == sent.header
             s == c + o
             b == sent.body
             M == Macs(a, s, b, two)
  <1>1. /\ H[1] = T(s) /\ H[2] = V1(a, s, b) /\ M # {}
        /\ Len(H) \in {2, 3} /\ DOMAIN H = 1 .. Len(H)
        /\ two => Len(H) = 3 /\ H[3] = V1(a - 1, s, b)
        /\ Len(H) = 2 \/ (Len(H) = 3 /\ two)
    <2>1. CASE two
      <3>1. H = <<T(s), V1(a, s, b)>> \o <<V1(a - 1, s, b)>>
        BY <2>1 DEF SignedAt
      <3>2. \A x, y, z : LET t == <<x, y>> \o <<z>>
                         IN  /\ Len(t) = 3 /\ DOMAIN t = 1 .. 3
                             /\ t[1] = x /\ t[2] = y /\ t[3] = z
        OBVIOUS
      <3> QED
        BY <2>1, <3>1, <3>2 DEF Macs
    <2>2. CASE ~two
      <3>1. H = <<T(s), V1(a, s, b)>>
        BY <2>2 DEF SignedAt
      <3> QED
        BY <2>2, <3>1 DEF Macs
    <2> QED
      BY <2>1, <2>2
  <1>2. \A x : x \in M <=> x = Mac(a, s, b) \/ (two /\ x = Mac(a - 1, s, b))
    BY DEF Macs
  <1>3. \A x : V1(x, s, b) = Part("v1", "good", Mac(x, s, b))
    BY DEF V1
  <1> HIDE DEF M, s
  <1>4. Shape(H, s, M)
    <2>1. \A i \in 2 .. Len(H) : i = 2 \/ (i = 3 /\ two)
      <3>1. CASE two
        <4>1. \A i \in 2 .. 3 : i = 2 \/ i = 3
          OBVIOUS
        <4>2. Len(H) = 3
          BY <1>1, <3>1, Zenon
        <4> QED
          BY <3>1, <4>1, <4>2, Zenon
      <3>2. CASE ~two
        <4>1. \A i \in 2 .. 2 : i = 2
          OBVIOUS
        <4>2. Len(H) = 2
          BY <1>1, <3>2, Zenon
        <4> QED
          BY <4>1, <4>2, Zenon
      <3> QED
        BY <3>1, <3>2, Zenon
    <2>2. \A i \in 2 .. Len(H) : \E m \in M : H[i] = Part("v1", "good", m)
      BY <1>1, <1>2, <1>3, <2>1
    <2>3. 2 \in 2 .. Len(H) /\ (two => 3 \in 2 .. Len(H)) /\ Len(H) \in Nat \ {0}
      BY <1>1
    <2>4. \A m \in M : \E i \in 2 .. Len(H) : H[i] = Part("v1", "good", m)
      BY <1>1, <1>2, <1>3, <2>3
    <2> QED
      BY <1>1, <2>2, <2>3, <2>4, Zenon DEF Shape
  <1>5. Stamp = s
    BY <1>1, PartFacts DEF Stamp
  <1>6. ASSUME NEW secret
        PROVE  SignedUnder(secret) <=> Mac(secret, s, b) \in M
    <2>1. SignedUnder(secret) <=>
            \E i \in DOMAIN H : H[i] = Part("v1", "good", Mac(secret, s, b))
      BY <1>3, <1>5 DEF SignedUnder
    <2>2. \A i \in DOMAIN H : i = 1 \/ i \in 2 .. Len(H)
      BY <1>1
    <2>3. H[1] # Part("v1", "good", Mac(secret, s, b))
      BY <1>1, PartFacts
    <2>4. \A m : Part("v1", "good", m).value = m
      BY PartFacts
    <2>5. 2 .. Len(H) \subseteq DOMAIN H
      BY <1>1
    <2>6. SignedUnder(secret) => Mac(secret, s, b) \in M
      <3>1. SUFFICES ASSUME NEW i \in DOMAIN H,
                            H[i] = Part("v1", "good", Mac(secret, s, b))
                     PROVE  Mac(secret, s, b) \in M
        BY <2>1
      <3>2. i \in 2 .. Len(H)
        BY <2>2, <2>3, <3>1
      <3>3. PICK m \in M : H[i] = Part("v1", "good", m)
        BY <1>4, <3>2 DEF Shape
      <3>4. m = Mac(secret, s, b)
        BY <2>4, <3>1, <3>3
      <3> QED
        BY <3>4
    <2>7. Mac(secret, s, b) \in M => SignedUnder(secret)
      BY <1>4, <2>1, <2>5 DEF Shape
    <2> QED
      BY <2>6, <2>7
  <1> QED
    BY <1>4, <1>5, <1>6 DEF M, s

\* Whatever is received, and under whichever secret it is looked at.
LEMMA VerifiedFacts ==
    ASSUME WebhookIInv, sent.header # << >>, NEW h \in Carried(sent.header),
           NEW body \in Bodies, NEW tolerance \in Tolerances, NEW secret
    PROVE  LET o == VerifySignature(body, h, secret, tolerance, clock) IN
           /\ o \in Errors \cup {"ok"} /\ o # "decode"
           /\ o = "ok" =>
                /\ body = sent.body /\ SignedUnder(secret)
                /\ Within(tolerance) \/ OutOfRange(tolerance)
           /\ /\ h # << >> /\ secret # 0 /\ body = sent.body
              /\ SignedUnder(secret) /\ Within(tolerance)
              => o = "ok"
           /\ o = "expired" => ~Within(tolerance)
           /\ o = "invalid" => body # sent.body \/ ~SignedUnder(secret)
  <1> DEFINE o == VerifySignature(body, h, secret, tolerance, clock)
  <1>1. CASE h = << >>
    <2>1. o = "missing_signature"
      BY <1>1 DEF VerifySignature
    <2> HIDE DEF o
    <2> QED
      BY <1>1, <2>1 DEF Errors, o
  <1>2. CASE h # << >>
    <2>1. PICK c \in 0 .. clock, f \in Offsets, a \in 1 .. latest, two \in BOOLEAN :
            SignedAt(c, f, a, two)
      BY DEF WebhookIInv, SentSigned
    <2>2. c \in Int /\ f \in Int /\ a \in Int /\ clock \in Int
      BY <2>1, BoundsAssumption DEF WebhookIInv, WebhookTypeOK, Clock
    <2> DEFINE s == c + f
               M == Macs(a, s, sent.body, two)
    <2>3. /\ Shape(sent.header, s, M)
          /\ Stamp = s
          /\ \A x : SignedUnder(x) <=> Mac(x, s, sent.body) \in M
      BY <2>1, <2>2, SignedFacts DEF WebhookIInv
    <2>4. \A x : Mac(x, s, body) \in M => body = sent.body
      BY DEF Macs, Mac
    <2>5. s \in Int
      BY <2>2
    <2> HIDE DEF s, M
    <2>6. Reads(h, s, M)
      <3>1. PICK S : sent.header \in Seq(S)
        BY DEF WebhookIInv, WebhookTypeOK, Headers
      <3> QED
        BY <1>2, <2>3, <3>1, CarriedFacts
    <2>7. o = IF secret = 0 THEN "missing_secret"
              ELSE IF Age(clock, s) > Tolerance(tolerance) THEN "expired"
              ELSE IF Mac(secret, s, body) \in M THEN "ok"
              ELSE "invalid"
      BY <1>2, <2>6, SignatureFacts
    <2>8. /\ Tolerance(tolerance) \in 1 .. MaxDuration
          /\ ~(Age(clock, s) > Tolerance(tolerance))
               <=> Within(tolerance) \/ OutOfRange(tolerance)
      BY <2>2, <2>3, <2>5, AgeFacts DEF Within, OutOfRange
    <2>9. Mac(secret, s, body) \in M <=> body = sent.body /\ SignedUnder(secret)
      BY <2>3, <2>4
    <2> HIDE DEF o
    <2> QED
      BY <1>2, <2>7, <2>8, <2>9, Zenon DEF o, Errors
  <1> QED
    BY <1>1, <1>2

\* As long as a delivery is within the tolerance, the receiver holds a secret
\* that it is signed under.
LEMMA HeldFacts ==
    ASSUME WebhookIInv, sent.header # << >>, NEW tolerance \in Tolerances, Within(tolerance)
    PROVE  \E i \in DOMAIN held : held[i] # 0 /\ SignedUnder(held[i])
  <1>1. PICK c \in 0 .. clock, f \in Offsets, a \in 1 .. latest, two \in BOOLEAN :
          SignedAt(c, f, a, two)
    BY DEF WebhookIInv, SentSigned
  <1>2. c \in Int /\ f \in Int /\ a \in Int /\ clock \in 0 .. MaxClock
    BY <1>1, BoundsAssumption DEF WebhookIInv, WebhookTypeOK, Clock
  <1>3. /\ Stamp = c + f
        /\ SignedUnder(a)
        /\ two => SignedUnder(a - 1)
    <2> DEFINE M == Macs(a, c + f, sent.body, two)
    <2>1. Mac(a, c + f, sent.body) \in M
      BY DEF Macs
    <2>2. two => Mac(a - 1, c + f, sent.body) \in M
      BY Zenon DEF Macs
    <2> HIDE DEF M
    <2>3. /\ Stamp = c + f
          /\ \A x : SignedUnder(x) <=> Mac(x, c + f, sent.body) \in M
      BY <1>1, <1>2, SignedFacts DEF WebhookIInv, M
    <2> QED
      BY <2>1, <2>2, <2>3, Zenon
  <1>4. ~(c + Overlap <= clock)
    <2>1. f + Tolerance(tolerance) < Overlap \/ f - Tolerance(tolerance) > MaxClock
      BY <1>1, OffsetAssumption DEF Tolerance
    <2>2. Tolerance(tolerance) \in Int
      BY AgeFacts
    <2> QED
      BY <1>1, <1>2, <1>3, <2>1, <2>2, BoundsAssumption DEF Within
  <1>5. /\ held[1] \in Int /\ held[2] \in Int /\ DOMAIN held = {1, 2}
        /\ latest \in Int
    BY DEF WebhookIInv, WebhookTypeOK
  <1>6. CASE a = latest
    BY <1>1, <1>3, <1>4, <1>5, <1>6 DEF WebhookIInv, HeldAgrees, SignedAt
  <1>7. CASE a = latest - 1 /\ rotated # NotRotating
    BY <1>1, <1>3, <1>5, <1>7 DEF WebhookIInv, HeldAgrees, SignedAt
  <1> QED
    BY <1>1, <1>4, <1>6, <1>7 DEF SignedAt

-----------------------------------------------------------------------------
(* Every step keeps the invariant.                                         *)

\* Nothing is said of what has yet to be received.
LEMMA NothingSaid ==
    ASSUME verdict' = NoVerdict
    PROVE  /\ verdict' \in Verdicts
           /\ AcceptedWasSent' /\ NothingLostInRotation' /\ ErrorsTellWhy'
  <1>1. AnyBody \in Bodies /\ (CHOOSE t \in Tolerances : TRUE) \in Tolerances
    BY BoundsAssumption DEF AnyBody
  <1>2. NoVerdict \in Verdicts
    BY <1>1 DEF NoVerdict, Verdicts, Helpers, VerifyOutcomes
  <1>3. NoVerdict.helper = "VerifyWebhookAt" /\ NoVerdict.outcome = "none"
    BY DEF NoVerdict
  <1> QED
    BY <1>2, <1>3 DEF AcceptedWasSent, NothingLostInRotation, ErrorsTellWhy

LEMMA InitWebhookIInv == WebhookInit => WebhookIInv
  <1> SUFFICES ASSUME WebhookInit PROVE WebhookIInv
    OBVIOUS
  <1>1. AnyBody \in Bodies /\ (CHOOSE t \in Tolerances : TRUE) \in Tolerances
    BY BoundsAssumption DEF AnyBody
  <1>2. NoVerdict \in Verdicts
    BY <1>1 DEF NoVerdict, Verdicts, Helpers, VerifyOutcomes
  <1>3. WebhookTypeOK
    <2>1. held \in [1 .. 2 -> 0 .. MaxSecret]
      BY BoundsAssumption DEF WebhookInit
    <2> QED
      BY <1>1, <1>2, <2>1, BoundsAssumption DEF WebhookInit, WebhookTypeOK, Headers, Clock
  <1>4. SentSigned /\ HeldAgrees
    BY DEF WebhookInit, SentSigned, HeldAgrees
  <1>5. verdict.helper = "VerifyWebhookAt" /\ verdict.outcome = "none"
    BY DEF WebhookInit, NoVerdict
  <1> QED
    BY <1>3, <1>4, <1>5 DEF WebhookIInv, AcceptedWasSent, NothingLostInRotation, ErrorsTellWhy

\* What is on its way stays signed when time goes on and secrets change.
LEMMA SignedStays ==
    ASSUME WebhookIInv, UNCHANGED sent, clock' \in Int, clock' >= clock,
           \A c \in 0 .. clock, o \in Offsets, a \in 1 .. latest, two \in BOOLEAN :
             SignedAt(c, o, a, two) => SignedAt(c, o, a, two)'
    PROVE  SentSigned'
  <1>1. CASE sent.header = << >>
    BY <1>1 DEF SentSigned
  <1>2. CASE sent.header # << >>
    <2>1. PICK c \in 0 .. clock, o \in Offsets, a \in 1 .. latest, two \in BOOLEAN :
            SignedAt(c, o, a, two)
      BY <1>2 DEF WebhookIInv, SentSigned
    <2>2. SignedAt(c, o, a, two)'
      BY <2>1
    <2>3. c \in 0 .. clock' /\ a \in (1 .. latest)'
      BY <2>1, <2>2 DEF SignedAt, WebhookIInv, WebhookTypeOK, Clock
    <2> QED
      BY <2>2, <2>3 DEF SentSigned
  <1> QED
    BY <1>1, <1>2

LEMMA SentRests ==
    ASSUME WebhookIInv, UNCHANGED <<clock, latest, rotated, sent>>
    PROVE  SentSigned'
  <1>1. ASSUME NEW c, NEW o, NEW a, NEW two, SignedAt(c, o, a, two)
        PROVE  SignedAt(c, o, a, two)'
    BY <1>1 DEF SignedAt
  <1>2. clock \in Int
    BY BoundsAssumption DEF WebhookIInv, WebhookTypeOK, Clock
  <1> QED
    BY <1>1, <1>2, SignedStays

LEMMA DeliverIInv ==
    ASSUME WebhookIInv, NEW body \in Bodies, Deliver(body)
    PROVE  WebhookIInv'
  <1>1. PICK o \in Offsets :
          sent' = [body |-> body, header |-> Header(clock + o, body)]
    BY DEF Deliver
  <1> DEFINE s == clock + o
             two == rotated # NotRotating
  <1>2. /\ verdict' = NoVerdict /\ UNCHANGED <<clock, latest, rotated, held>>
        /\ sent'.body = body
        /\ sent'.header = <<T(s), V1(latest, s, body)>>
                            \o IF two THEN <<V1(latest - 1, s, body)>> ELSE << >>
    <2>1. sent'.header = Header(s, body) /\ sent'.body = body
      BY <1>1
    <2>2. Header(s, body) = <<T(s), V1(latest, s, body)>>
                              \o IF two THEN <<V1(latest - 1, s, body)>> ELSE << >>
      BY DEF Header
    <2> QED
      BY <2>1, <2>2 DEF Deliver
  <1>3. /\ clock \in 0 .. MaxClock /\ latest \in 1 .. MaxSecret
        /\ two => latest - 1 \in 1 .. MaxSecret
    BY DEF WebhookIInv, WebhookTypeOK, HeldAgrees, Clock
  <1>4. sent'.header \in Headers(body)
    <2> DEFINE P == { T(sec) : sec \in Stamps }
                      \cup { V1(x, sec, body) : x \in 1 .. MaxSecret, sec \in Stamps }
    <2>1. s \in Stamps
      BY <1>3 DEF Stamps, Clock
    <2>2. T(s) \in P /\ V1(latest, s, body) \in P
          /\ (two => V1(latest - 1, s, body) \in P)
      BY <1>3, <2>1
    <2> HIDE DEF P
    <2>3. CASE two
      <3>1. sent'.header = <<T(s), V1(latest, s, body)>> \o <<V1(latest - 1, s, body)>>
        BY <1>2, <2>3
      <3>2. sent'.header \in Seq(P)
        BY <2>2, <2>3, <3>1
      <3> QED
        BY <3>2 DEF Headers, P
    <2>4. CASE ~two
      <3>1. sent'.header = <<T(s), V1(latest, s, body)>> \o << >>
        BY <1>2, <2>4
      <3>2. sent'.header \in Seq(P)
        BY <2>2, <3>1
      <3> QED
        BY <3>2 DEF Headers, P
    <2> QED
      BY <2>3, <2>4
  <1>5. SentSigned'
    <2>1. SignedAt(clock, o, latest, two)'
      BY <1>2, <1>3 DEF SignedAt
    <2>2. clock' = clock /\ clock \in 0 .. clock /\ latest \in (1 .. latest)'
      BY <1>2, <1>3
    <2> QED
      BY <1>2, <2>1, <2>2 DEF SentSigned
  <1>6. HeldAgrees'
    BY <1>2 DEF WebhookIInv, HeldAgrees
  <1> QED
    BY <1>2, <1>4, <1>5, <1>6, NothingSaid DEF WebhookIInv, WebhookTypeOK

LEMMA ReceiveIInv ==
    ASSUME WebhookIInv, NEW helper \in Helpers, Receive(helper)
    PROVE  WebhookIInv'
  <1>1. PICK h \in Carried(sent.header), body \in Bodies, tolerance \in Tolerances :
          verdict' = [helper |-> helper, body |-> body, carried |-> h # << >>,
                      tolerance |-> tolerance,
                      outcome |->
                        IF helper = "VerifyWebhookAt"
                          THEN VerifyWebhookAt(body, h, held[1], tolerance, clock)
                          ELSE VerifyWebhookAny(body, h, held, tolerance, clock)]
    BY DEF Receive
  <1>2. sent.header # << >> /\ UNCHANGED <<clock, latest, rotated, held, sent>>
    BY DEF Receive
  <1> DEFINE At(secret) == VerifyWebhookAt(body, h, secret, tolerance, clock)
             Any == VerifyWebhookAny(body, h, held, tolerance, clock)
  <1>3. ASSUME NEW secret
        PROVE  /\ At(secret) \in Errors \cup {"ok"}
               /\ At(secret) \in {"ok", "decode"} => SignedUnder(secret)
               /\ At(secret) = "ok" =>
                    /\ body = sent.body
                    /\ Within(tolerance) \/ OutOfRange(tolerance)
               /\ /\ h # << >> /\ secret # 0 /\ body = sent.body
                  /\ body \notin Undecodable
                  /\ SignedUnder(secret) /\ Within(tolerance)
                  => At(secret) = "ok"
               /\ At(secret) = "expired" => ~Within(tolerance)
               /\ At(secret) = "invalid" => body # sent.body \/ ~SignedUnder(secret)
    <2> DEFINE o == VerifySignature(body, h, secret, tolerance, clock)
    <2>1. At(secret) = IF o = "ok" /\ body \in Undecodable THEN "decode" ELSE o
      BY DEF VerifyWebhookAt
    <2>2. /\ o \in Errors \cup {"ok"} /\ o # "decode"
          /\ o = "ok" =>
               /\ body = sent.body /\ SignedUnder(secret)
               /\ Within(tolerance) \/ OutOfRange(tolerance)
          /\ /\ h # << >> /\ secret # 0 /\ body = sent.body
             /\ SignedUnder(secret) /\ Within(tolerance)
             => o = "ok"
          /\ o = "expired" => ~Within(tolerance)
          /\ o = "invalid" => body # sent.body \/ ~SignedUnder(secret)
      BY <1>2, VerifiedFacts
    <2> HIDE DEF o, At
    <2> QED
      BY <2>1, <2>2 DEF Errors
  <1>4. /\ Any \in {"ok", "invalid"}
        /\ Any = "ok" <=> \E i \in DOMAIN held : At(held[i]) = "ok"
    BY DEF VerifyWebhookAny
  <1>5. /\ verdict'.helper = helper /\ verdict'.body = body
        /\ verdict'.tolerance = tolerance
        /\ verdict'.outcome = IF helper = "VerifyWebhookAt" THEN At(held[1]) ELSE Any
    BY <1>1
  <1>6. verdict'.carried => h # << >>
    BY <1>1
  <1>7. UNCHANGED <<clock, sent, held>>
    BY <1>2
  <1> HIDE DEF At, Any
  <1>8. AcceptedWasSent'
    <2>1. 1 \in DOMAIN held
      BY DEF WebhookIInv, WebhookTypeOK
    <2>2. /\ \A x : SignedUnder(x)' <=> SignedUnder(x)
          /\ Within(tolerance)' <=> Within(tolerance)
          /\ OutOfRange(tolerance)' <=> OutOfRange(tolerance)
      BY <1>7 DEF SignedUnder, Within, OutOfRange, Stamp
    <2> QED
      BY <1>3, <1>4, <1>5, <1>7, <2>1, <2>2 DEF AcceptedWasSent
  <1>9. NothingLostInRotation'
    <2>1. SUFFICES ASSUME helper = "VerifyWebhookAny", h # << >>, body = sent.body,
                          body \notin Undecodable, Within(tolerance)
                   PROVE  Any = "ok"
      BY <1>5, <1>6, <1>7 DEF NothingLostInRotation, Within, Stamp
    <2>2. PICK i \in DOMAIN held : held[i] # 0 /\ SignedUnder(held[i])
      BY <1>2, <2>1, HeldFacts
    <2> QED
      BY <1>3, <1>4, <2>1, <2>2
  <1>10. ErrorsTellWhy'
    <2>1. /\ \A x : SignedUnder(x)' <=> SignedUnder(x)
          /\ Within(tolerance)' <=> Within(tolerance)
      BY <1>7 DEF SignedUnder, Within, Stamp
    <2> QED
      BY <1>3, <1>5, <1>7, <2>1 DEF ErrorsTellWhy
  <1>11. verdict' \in Verdicts
    <2>1. verdict'.outcome \in VerifyOutcomes
      BY <1>3, <1>4, <1>5 DEF VerifyOutcomes, Errors
    <2> DEFINE outcome == verdict'.outcome
               carried == h # << >>
    <2>2. verdict' = [helper |-> helper, body |-> body, carried |-> carried,
                      tolerance |-> tolerance, outcome |-> outcome]
      BY <1>1
    <2>3. carried \in BOOLEAN
      OBVIOUS
    <2> HIDE DEF outcome, carried
    <2> QED
      BY <2>1, <2>2, <2>3 DEF Verdicts, outcome
  <1>12. SentSigned'
    BY <1>2, SentRests
  <1>13. HeldAgrees'
    BY <1>2 DEF WebhookIInv, HeldAgrees
  <1>14. WebhookTypeOK'
    BY <1>2, <1>11 DEF WebhookIInv, WebhookTypeOK
  <1> QED
    BY <1>8, <1>9, <1>10, <1>12, <1>13, <1>14 DEF WebhookIInv

LEMMA NextWebhookIInv == WebhookIInv /\ [WebhookNext]_webhookVars => WebhookIInv'
  <1> SUFFICES ASSUME WebhookIInv, [WebhookNext]_webhookVars PROVE WebhookIInv'
    OBVIOUS
  <1> USE DEF Clock
  <1>1. /\ clock \in 0 .. MaxClock /\ latest \in 1 .. MaxSecret /\ MaxClock \in Nat
        /\ held \in [1 .. 2 -> 0 .. MaxSecret] /\ MaxSecret \in Nat
        /\ rotated \in 0 .. MaxClock \cup {NotRotating}
    BY BoundsAssumption DEF WebhookIInv, WebhookTypeOK
  <1>2. CASE Tick
    <2>1. clock' = clock + 1 /\ clock' \in 0 .. MaxClock
      BY <1>1, <1>2 DEF Tick
    <2>2. verdict' = NoVerdict /\ UNCHANGED <<latest, rotated, held, sent>>
      BY <1>2 DEF Tick
    <2>3. SentSigned'
      <3>1. ASSUME NEW c \in 0 .. clock, NEW o \in Offsets, NEW a \in 1 .. latest,
                   NEW two \in BOOLEAN, SignedAt(c, o, a, two)
            PROVE  SignedAt(c, o, a, two)'
        <4>1. c + Overlap <= clock => c + Overlap <= clock'
          BY <1>1, <2>1, BoundsAssumption
        <4> QED
          BY <2>2, <3>1, <4>1 DEF SignedAt
      <3> QED
        BY <1>1, <2>1, <2>2, <3>1, SignedStays
    <2>4. HeldAgrees'
      BY <1>1, <2>1, <2>2 DEF WebhookIInv, HeldAgrees, NotRotating
    <2> QED
      BY <2>1, <2>2, <2>3, <2>4, NothingSaid DEF WebhookIInv, WebhookTypeOK
  <1>3. CASE Rotate
    <2>1. /\ rotated = NotRotating /\ held[1] = latest /\ held[2] = 0
          /\ latest' = latest + 1 /\ latest' \in 1 .. MaxSecret
          /\ rotated' = clock /\ rotated' # NotRotating
          /\ verdict' = NoVerdict /\ UNCHANGED <<clock, held, sent>>
      BY <1>1, <1>3 DEF Rotate, NotRotating
    <2>2. SentSigned'
      <3>1. ASSUME NEW c \in 0 .. clock, NEW o \in Offsets, NEW a \in 1 .. latest,
                   NEW two \in BOOLEAN, SignedAt(c, o, a, two)
            PROVE  SignedAt(c, o, a, two)'
        <4>1. a \in (1 .. latest)' /\ c <= rotated' /\ (a = latest => a = latest' - 1)
          BY <1>1, <2>1
        <4> QED
          BY <2>1, <3>1, <4>1 DEF SignedAt
      <3> QED
        BY <1>1, <2>1, <3>1, SignedStays
    <2>3. HeldAgrees'
      BY <1>1, <2>1 DEF WebhookIInv, HeldAgrees
    <2> QED
      BY <1>1, <2>1, <2>2, <2>3, NothingSaid DEF WebhookIInv, WebhookTypeOK
  <1>4. CASE EndOverlap
    <2>1. /\ rotated # NotRotating /\ clock >= rotated + Overlap
          /\ held[1] = latest /\ rotated' = NotRotating
          /\ verdict' = NoVerdict /\ UNCHANGED <<clock, latest, held, sent>>
      BY <1>4 DEF EndOverlap
    <2>2. SentSigned'
      <3>1. ASSUME NEW c \in 0 .. clock, NEW o \in Offsets, NEW a \in 1 .. latest,
                   NEW two \in BOOLEAN, SignedAt(c, o, a, two)
            PROVE  SignedAt(c, o, a, two)'
        <4>1. c <= rotated => c + Overlap <= clock
          BY <1>1, <2>1, BoundsAssumption
        <4> QED
          BY <2>1, <3>1, <4>1 DEF SignedAt
      <3> QED
        BY <1>1, <2>1, <3>1, SignedStays
    <2>3. HeldAgrees'
      BY <2>1 DEF WebhookIInv, HeldAgrees
    <2> QED
      BY <1>1, <2>1, <2>2, <2>3, NothingSaid DEF WebhookIInv, WebhookTypeOK
  <1>5. CASE Adopt
    <2>1. /\ held[1] # latest /\ held' = <<latest, held[1]>>
          /\ verdict' = NoVerdict /\ UNCHANGED <<clock, latest, rotated, sent>>
      BY <1>5 DEF Adopt
    <2>2. held' \in [1 .. 2 -> 0 .. MaxSecret]
      BY <1>1, <2>1
    <2>3. SentSigned'
      BY <2>1, SentRests
    <2>4. HeldAgrees'
      BY <1>1, <2>1 DEF WebhookIInv, HeldAgrees
    <2> QED
      BY <2>1, <2>2, <2>3, <2>4, NothingSaid DEF WebhookIInv, WebhookTypeOK
  <1>6. CASE Drop
    <2>1. /\ rotated = NotRotating /\ held' = <<held[1], 0>>
          /\ verdict' = NoVerdict /\ UNCHANGED <<clock, latest, rotated, sent>>
      BY <1>6 DEF Drop
    <2>2. held' \in [1 .. 2 -> 0 .. MaxSecret]
      BY <1>1, <2>1
    <2>3. SentSigned'
      BY <2>1, SentRests
    <2>4. HeldAgrees'
      BY <1>1, <2>1 DEF WebhookIInv, HeldAgrees
    <2> QED
      BY <2>1, <2>2, <2>3, <2>4, NothingSaid DEF WebhookIInv, WebhookTypeOK
  <1>7. CASE \E body \in Bodies : Deliver(body)
    BY <1>7, DeliverIInv
  <1>8. CASE \E helper \in Helpers : Receive(helper)
    BY <1>8, ReceiveIInv
  <1>9. CASE UNCHANGED webhookVars
    <2>1. WebhookTypeOK' /\ HeldAgrees'
      BY <1>9 DEF webhookVars, WebhookIInv, WebhookTypeOK, HeldAgrees
    <2>5. SentSigned'
      BY <1>9, SentRests DEF webhookVars
    <2>2. AcceptedWasSent'
      BY <1>9 DEF webhookVars, WebhookIInv, AcceptedWasSent, SignedUnder, Within, OutOfRange, Stamp
    <2>3. NothingLostInRotation'
      BY <1>9 DEF webhookVars, WebhookIInv, NothingLostInRotation, Within, Stamp
    <2>4. ErrorsTellWhy'
      BY <1>9 DEF webhookVars, WebhookIInv, ErrorsTellWhy, SignedUnder, Within, Stamp
    <2> QED
      BY <2>1, <2>2, <2>3, <2>4, <2>5 DEF WebhookIInv
  <1> QED
    BY <1>2, <1>3, <1>4, <1>5, <1>6, <1>7, <1>8, <1>9 DEF WebhookNext

-----------------------------------------------------------------------------
(* The theorems.                                                           *)

\* The inductive invariant holds: what is on its way was signed, and the
\* receiver holds the secrets it takes to accept it.
THEOREM WebhookInvariance == WebhookSpec => []WebhookIInv
  <1> QED
    BY InitWebhookIInv, NextWebhookIInv, PTL DEF WebhookSpec

\* Every variable of the service and the receiver keeps its type, for every
\* number of rotations and every clock (webhook.go keeps no state of its own).
THEOREM WebhookTypeCorrect == WebhookSpec => []WebhookTypeOK
  <1>1. WebhookIInv => WebhookTypeOK
    BY DEF WebhookIInv
  <1> QED
    BY <1>1, WebhookInvariance, PTL

\* What VerifyWebhookAt or VerifyWebhookAny accepts was sent with this body and
\* signed under a secret the receiver holds, within the tolerance or out of
\* the range of a Duration.
THEOREM Accepted == WebhookSpec => []AcceptedWasSent
  <1>1. WebhookIInv => AcceptedWasSent
    BY DEF WebhookIInv
  <1> QED
    BY <1>1, WebhookInvariance, PTL

\* VerifyWebhookAny, given the new and the previous secret as the README says,
\* accepts every delivery that comes in time, whenever it was signed.
THEOREM NothingLost == WebhookSpec => []NothingLostInRotation
  <1>1. WebhookIInv => NothingLostInRotation
    BY DEF WebhookIInv
  <1> QED
    BY <1>1, WebhookInvariance, PTL

\* The errors of VerifyWebhookAt say what is the matter with a delivery.
THEOREM ErrorsTell == WebhookSpec => []ErrorsTellWhy
  <1>1. WebhookIInv => ErrorsTellWhy
    BY DEF WebhookIInv
  <1> QED
    BY <1>1, WebhookInvariance, PTL

-----------------------------------------------------------------------------
(* The inductive invariant.                                                *)

\* Until its challenge is accepted a call has no quote and has paid nothing.
Fresh(c) ==
    pc[c] \in {"idle", "ask"} =>
        quoted[c] = NoQuote /\ PaidBy(c) = {} /\ ~err[c]

\* Payers pay what the server asked for.
Quoted(c) ==
    pc[c] \in {"provide", "facilitate", "prove"} =>
        challenge[c] = quoted[c] /\ quoted[c] \in Quotes

\* The provider is asked before anything is paid; the facilitator after a
\* provider that failed, or in its place.
PaidSoFar(c) ==
    /\ pc[c] = "provide" => PaidBy(c) = {}
    /\ pc[c] = "facilitate" =>
         /\ ~err[c] => PaidBy(c) = {}
         /\ callbacks[c] = {} => PaidBy(c) = {}
    /\ \A p, q \in PaidBy(c) : p # q => err[c]

\* What is presented is empty, or was paid for what was asked; it is not taken
\* before.
Presented(c) ==
    /\ pc[c] # "returned" /\ pc[c] # "prove" => proof[c] = NoPayment
    /\ pc[c] = "prove" =>
         \/ proof[c] = NoPayment
         \/ proof[c] \in PaidBy(c) /\ proof[c].quote = quoted[c]
    /\ pc[c] # "returned" => PaidBy(c) \cap served = {}

TrueResult(c) ==
    /\ pc[c] # "returned" => result[c] = Plain("none")
    /\ result[c].kind = "ok" /\ quoted[c] # NoQuote =>
         proof[c] \in PaidBy(c) \cap served /\ proof[c].quote = quoted[c]
    /\ result[c].kind \in ChallengeErrors \cup {"unavailable"} => PaidBy(c) = {}
    /\ result[c].status = 402 =>
         /\ PaidBy(c) \cap served = {}
         /\ challenge[c] # NoQuote
         /\ PaidBy(c) # {} \/ proof[c] = NoPayment

CallOK(c) ==
    /\ Fresh(c)
    /\ Quoted(c)
    /\ PaidSoFar(c)
    /\ Presented(c)
    /\ TrueResult(c)

X402IInv == X402TypeOK /\ served \subseteq paid /\ \A c \in Calls : CallOK(c)

-----------------------------------------------------------------------------
(* The invariant holds at first.                                           *)

LEMMA InitX402IInv == X402Init => X402IInv
  <1> SUFFICES ASSUME X402Init PROVE X402IInv
    OBVIOUS
  <1> USE DEF X402Init
  <1>1. X402TypeOK
    <2>1. Plain("none") \in Results
      BY DEF Plain, Results, Outcomes, Kinds
    <2> QED
      BY <2>1 DEF X402TypeOK
  <1>2. ASSUME NEW c \in Calls PROVE CallOK(c)
    <2>1. PaidBy(c) = {}
      BY DEF PaidBy
    <2> QED
      BY <2>1 DEF CallOK, Fresh, Quoted, PaidSoFar, Presented, TrueResult, Plain,
                  ChallengeErrors
  <1>3. served \subseteq paid
    OBVIOUS
  <1> QED
    BY <1>1, <1>2, <1>3 DEF X402IInv

-----------------------------------------------------------------------------
(* The steps of a call.                                                    *)

Step(c) ==
    \/ Start(c) \/ AskAnswered(c) \/ AskChallenged(c)
    \/ ProvideProof(c) \/ ProviderFails(c)
    \/ Facilitate(c) \/ FacilitatorFails(c) \/ NoCallback(c)
    \/ ProveServed(c) \/ ProveRefused(c)

\* What an answer, or an error in its place, is read as.
LEMMA ReceivedFacts ==
    ASSUME NEW r \in Free \cup Refused, NEW o \in Received(r)
    PROVE  /\ o \in Results
           /\ o.kind \in {"ok", "api", "decode", "transport"}
           /\ o.status = IF o.kind = "transport" THEN 0 ELSE r.status
           /\ r \in Refused => o.kind # "ok"
  <1>1. r \in Replies /\ (r \in Refused => r.status >= 400)
    <2>1. CASE r \in Free
      BY <2>1, RefusalsAssumption DEF Free, Resource, Status, Replies, Refused
    <2>2. CASE r \in Refused
      <3>1. PICK s \in Refusals : r = Status(s)
        BY <2>2 DEF Refused
      <3>2. s \in Nat /\ s >= 400
        BY RefusalsAssumption
      <3> QED
        BY <3>1, <3>2 DEF Status, Replies
    <2> QED
      BY <2>1, <2>2
  <1>2. CASE o = Plain("transport")
    BY <1>2 DEF Plain, Results, Outcomes, Kinds
  <1>3. CASE o # Plain("transport")
    <2>1. PICK w \in BOOLEAN, intact \in BOOLEAN : o = DecodeResponse(r, w, intact)
      BY <1>3 DEF Received, ReadOf
    <2> QED
      BY <1>1, <2>1 DEF DecodeResponse, Replies, Results, Outcomes, Kinds
  <1> QED
    BY <1>2, <1>3

\* Only one outcome is a challenge: its quote is the one asked for.
LEMMA ParseChallengeFacts ==
    ASSUME NEW header \in ChallengeHeaders, NEW body \in ChallengeBodies
    PROVE  LET form == ParseX402Challenge(header, body)
               asked == IF header.kind = "challenge" THEN header.quote ELSE body.quote
           IN  /\ asked \in Quotes \cup {NoQuote}
               /\ form.quote \in Quotes \cup {NoQuote}
               /\ form.kind = "challenge" => form.quote = asked /\ asked \in Quotes
               /\ form.kind # "challenge" => form.kind \in ChallengeErrors
  <1>1. ASSUME NEW f \in ChallengeBodies
        PROVE  \/ f.kind = "challenge" /\ f.quote \in Quotes
               \/ f.kind \in {"none", "empty", "junk", "broken"} /\ f.quote = NoQuote
    BY DEF ChallengeBodies, ChallengeHeaders, Challenge, Form
  <1>2. header \in ChallengeBodies
    BY DEF ChallengeBodies
  <1> QED
    BY <1>1, <1>2 DEF ParseX402Challenge, Form, ChallengeErrors

LEMMA StepType ==
    ASSUME X402TypeOK, NEW c \in Calls, Quoted(c), Step(c)
    PROVE  X402TypeOK'
  <1> USE DEF X402TypeOK, Goto, Return, Proves, Fails
  <1>1. ASSUME NEW by \in Payers, pc[c] \in {"provide", "facilitate"}
        PROVE  Payment(c, by) \in Payments
    BY <1>1 DEF Payment, Payments, Quoted
  <1>2. \A k \in ChallengeErrors \cup {"unavailable", "prover"} : Plain(k) \in Results
    BY DEF Results
  <1>3. CASE Start(c)
    BY <1>3 DEF Start
  <1>4. CASE AskAnswered(c)
    BY <1>4, ReceivedFacts DEF AskAnswered
  <1>5. CASE AskChallenged(c)
    <2>1. PICK header \in ChallengeHeaders, body \in ChallengeBodies :
            LET form == ParseX402Challenge(header, body)
            IN  /\ quoted' = [quoted EXCEPT ![c] =
                     IF header.kind = "challenge" THEN header.quote ELSE body.quote]
                /\ challenge' = [challenge EXCEPT ![c] = form.quote]
                /\ IF form.kind = "challenge"
                     THEN Goto(c, FirstPayer(c)) /\ UNCHANGED result
                     ELSE Return(c, Plain(form.kind))
      BY <1>5 DEF AskChallenged
    <2> QED
      BY <1>2, <1>5, <2>1, ParseChallengeFacts DEF AskChallenged, FirstPayer
  <1>6. CASE ProvideProof(c)
    BY <1>1, <1>6 DEF ProvideProof, Payers
  <1>7. CASE ProviderFails(c)
    BY <1>1, <1>2, <1>7 DEF ProviderFails, Payers
  <1>8. CASE Facilitate(c)
    BY <1>1, <1>8 DEF Facilitate, Payers
  <1>9. CASE FacilitatorFails(c)
    BY <1>1, <1>2, <1>9 DEF FacilitatorFails, Payers
  <1>10. CASE NoCallback(c)
    BY <1>2, <1>10 DEF NoCallback
  <1>11. CASE ProveServed(c)
    BY <1>11, ReceivedFacts DEF ProveServed, Free
  <1>12. CASE ProveRefused(c)
    BY <1>12, ReceivedFacts DEF ProveRefused
  <1> QED
    BY <1>3, <1>4, <1>5, <1>6, <1>7, <1>8, <1>9, <1>10, <1>11, <1>12 DEF Step

\* A step of c is nobody else's affair: payments carry the call they are for.
LEMMA StepFrame ==
    ASSUME X402TypeOK, NEW c \in Calls, CallOK(c), Step(c), NEW d \in Calls \ {c}
    PROVE  /\ pc'[d] = pc[d] /\ callbacks'[d] = callbacks[d]
           /\ challenge'[d] = challenge[d] /\ proof'[d] = proof[d]
           /\ err'[d] = err[d] /\ result'[d] = result[d] /\ quoted'[d] = quoted[d]
           /\ PaidBy(d)' = PaidBy(d)
           /\ PaidBy(d)' \cap served' = PaidBy(d) \cap served
  <1>1. /\ paid \subseteq paid'
        /\ \A p \in paid' \ paid : p.call = c
        /\ served \subseteq served'
        /\ \A p \in served' \ served : p.call = c
    <2>1. NoPayment \notin paid
      BY QuotesAssumption DEF X402TypeOK, NoPayment, Payments
    <2>2. CASE ProveServed(c)
      BY <2>1, <2>2 DEF ProveServed, CallOK, Presented, PaidBy
    <2>3. CASE ~ProveServed(c)
      BY <2>3 DEF Step, Start, AskAnswered, AskChallenged, ProvideProof, ProviderFails,
             Facilitate, FacilitatorFails, NoCallback, ProveRefused, Proves, Fails, Payment
    <2> QED
      BY <2>2, <2>3
  <1>2. PaidBy(d)' = PaidBy(d) /\ PaidBy(d)' \cap served' = PaidBy(d) \cap served
    BY <1>1 DEF PaidBy
  <1>3. /\ pc'[d] = pc[d] /\ callbacks'[d] = callbacks[d]
        /\ challenge'[d] = challenge[d] /\ proof'[d] = proof[d]
        /\ err'[d] = err[d] /\ result'[d] = result[d] /\ quoted'[d] = quoted[d]
    BY DEF Step, Start, AskAnswered, AskChallenged, ProvideProof, ProviderFails,
           Facilitate, FacilitatorFails, NoCallback, ProveServed, ProveRefused,
           Proves, Fails, Goto, Return, X402TypeOK
  <1> QED
    BY <1>2, <1>3

\* A step that pays nothing has nothing served either.
LEMMA Unpaid ==
    ASSUME NEW c, UNCHANGED <<paid, served>>
    PROVE  PaidBy(c)' = PaidBy(c) /\ PaidBy(c)' \cap served' = PaidBy(c) \cap served
  BY DEF PaidBy

LEMMA StepOwn ==
    ASSUME X402TypeOK, served \subseteq paid, NEW c \in Calls, CallOK(c), Step(c)
    PROVE  CallOK(c)'
  <1> USE DEF X402TypeOK, Goto, Return, CallOK, Fresh, Quoted, PaidSoFar, Presented,
              TrueResult
  <1>1. \A k \in ChallengeErrors \cup {"none", "unavailable", "prover"} :
            Plain(k).kind = k /\ Plain(k).status = 0
    BY DEF Plain
  <1>2. \A k \in ChallengeErrors : k \notin {"ok", "none", "prover", "transport", "api",
                                            "decode", "unavailable"}
    BY DEF ChallengeErrors
  <1>3. CASE Start(c)
    BY <1>1, <1>2, <1>3, Unpaid DEF Start
  <1>4. CASE AskAnswered(c)
    <2>1. PICK r \in Free \cup Refused : \E o \in Received(r) :
            (r.status # 402 \/ o.kind = "transport") /\ Return(c, o)
      BY <1>4 DEF AskAnswered
    <2>2. PICK o \in Received(r) :
            (r.status # 402 \/ o.kind = "transport") /\ Return(c, o)
      BY <2>1
    <2>3. /\ o.kind \in {"ok", "api", "decode", "transport"}
          /\ o.status = IF o.kind = "transport" THEN 0 ELSE r.status
      BY ReceivedFacts
    <2>4. o.status # 402
      BY <2>2, <2>3
    <2> QED
      BY <1>2, <1>4, <2>2, <2>3, <2>4, Unpaid DEF AskAnswered
  <1>5. CASE AskChallenged(c)
    <2>1. PICK header \in ChallengeHeaders, body \in ChallengeBodies :
            LET form == ParseX402Challenge(header, body)
            IN  /\ quoted' = [quoted EXCEPT ![c] =
                     IF header.kind = "challenge" THEN header.quote ELSE body.quote]
                /\ challenge' = [challenge EXCEPT ![c] = form.quote]
                /\ IF form.kind = "challenge"
                     THEN Goto(c, FirstPayer(c)) /\ UNCHANGED result
                     ELSE Return(c, Plain(form.kind))
      BY <1>5 DEF AskChallenged
    <2> QED
      BY <1>1, <1>2, <1>5, <2>1, ParseChallengeFacts, Unpaid DEF AskChallenged, FirstPayer
  <1>6. CASE ProvideProof(c)
    <2>1. /\ served' = served
          /\ \/ /\ PaidBy(c)' = {Payment(c, "provider")}
                /\ proof'[c] = Payment(c, "provider")
             \/ PaidBy(c)' = {} /\ proof'[c] = NoPayment
      BY <1>6 DEF ProvideProof, Proves, PaidBy, Payment
    <2>2. PaidBy(c)' \cap served' = {}
      BY <1>6, <2>1 DEF ProvideProof, PaidBy
    <2>3. proof'[c] # NoPayment => proof'[c].quote = quoted'[c]
      BY <1>6, <2>1 DEF ProvideProof, Payment
    <2>4. /\ pc[c] = "provide" /\ pc'[c] = "prove" /\ result'[c] = Plain("none")
          /\ challenge'[c] = quoted'[c] /\ quoted'[c] \in Quotes
      BY <1>6 DEF ProvideProof
    <2> QED
      BY <1>1, <1>2, <2>1, <2>2, <2>3, <2>4
  <1>7. CASE ProviderFails(c)
    <2>1. PaidBy(c)' \in {{}, {Payment(c, "provider")}} /\ served' = served
      BY <1>7 DEF ProviderFails, Fails, PaidBy, Payment
    <2>2. PaidBy(c)' \cap served' = {}
      BY <1>7, <2>1 DEF ProviderFails, PaidBy
    <2>3. err'[c] /\ pc'[c] \in {"facilitate", "returned"}
          /\ (pc'[c] = "facilitate" => callbacks'[c] # {})
      BY <1>7 DEF ProviderFails
    <2>4. /\ pc'[c] # "returned" => result'[c] = Plain("none")
          /\ result'[c] \in {Plain("none"), Plain("prover")}
      BY <1>7 DEF ProviderFails
    <2>5. challenge'[c] = quoted'[c] /\ quoted'[c] \in Quotes
          /\ proof'[c] = NoPayment
      BY <1>7 DEF ProviderFails, Fails
    <2> QED
      BY <1>1, <1>2, <2>2, <2>3, <2>4, <2>5
  <1>8. CASE Facilitate(c)
    <2>1. /\ served' = served
          /\ \/ /\ PaidBy(c)' = PaidBy(c) \cup {Payment(c, "facilitator")}
                /\ proof'[c] = Payment(c, "facilitator")
             \/ PaidBy(c)' = PaidBy(c) /\ proof'[c] = NoPayment
      BY <1>8 DEF Facilitate, Proves, PaidBy, Payment
    <2>2. PaidBy(c)' \cap served' = {}
      BY <1>8, <2>1 DEF Facilitate, PaidBy
    <2>3. proof'[c] # NoPayment => proof'[c].quote = quoted'[c]
      BY <1>8, <2>1 DEF Facilitate, Payment
    <2>4. \A p, q \in PaidBy(c)' : p # q => err'[c]
      BY <1>8, <2>1 DEF Facilitate
    <2> QED
      BY <1>1, <1>2, <1>8, <2>1, <2>2, <2>3, <2>4 DEF Facilitate
  <1>9. CASE FacilitatorFails(c)
    <2>1. PaidBy(c)' \in {PaidBy(c), PaidBy(c) \cup {Payment(c, "facilitator")}}
          /\ served' = served
      BY <1>9 DEF FacilitatorFails, Fails, PaidBy, Payment
    <2>2. \A p, q \in PaidBy(c)' : p # q => err'[c]
      BY <1>9, <2>1 DEF FacilitatorFails
    <2>3. pc'[c] = "returned" /\ result'[c] = Plain("prover")
      BY <1>9 DEF FacilitatorFails
    <2> QED
      BY <1>1, <1>2, <2>2, <2>3
  <1>10. CASE NoCallback(c)
    BY <1>1, <1>2, <1>10, Unpaid DEF NoCallback
  <1>11. CASE ProveServed(c)
    <2>1. PICK r \in {Resource} \cup { s \in Refused : s.status >= 500 } :
            \E o \in Received(r) : Return(c, o)
      BY <1>11 DEF ProveServed
    <2>2. PICK o \in Received(r) : Return(c, o)
      BY <2>1
    <2>3. r \in Free \cup Refused /\ r.status # 402
      BY <2>1 DEF Free, Resource
    <2>4. o.kind \in {"ok", "api", "decode", "transport"} /\ o.status # 402
      BY <2>3, ReceivedFacts
    <2>5. PaidBy(c)' = PaidBy(c) /\ proof'[c] \in served' /\ proof'[c] = proof[c]
          /\ proof[c] # NoPayment
      BY <1>11, QuotesAssumption DEF ProveServed, PaidBy, NoPayment, Payments
    <2>6. pc'[c] = "returned" /\ result'[c] = o /\ quoted'[c] = quoted[c]
          /\ err'[c] = err[c] /\ pc[c] = "prove"
      BY <1>11, <2>2 DEF ProveServed
    <2> QED
      BY <1>2, <2>4, <2>5, <2>6
  <1>12. CASE ProveRefused(c)
    <2>1. PICK r \in Refused : \E o \in Received(r) : Return(c, o)
      BY <1>12 DEF ProveRefused
    <2>2. PICK o \in Received(r) : Return(c, o)
      BY <2>1
    <2>3. o.kind \in {"api", "decode", "transport"}
      BY ReceivedFacts
    <2>4. PaidBy(c)' = PaidBy(c) /\ PaidBy(c)' \cap served' = PaidBy(c) \cap served
      BY <1>12, Unpaid DEF ProveRefused
    <2>5. pc'[c] = "returned" /\ result'[c] = o /\ quoted'[c] = quoted[c]
          /\ err'[c] = err[c] /\ pc[c] = "prove" /\ proof'[c] = proof[c]
      BY <1>12, <2>2 DEF ProveRefused
    <2>6. PaidBy(c) # {} \/ proof[c] = NoPayment
      BY <2>5
    <2>7. challenge'[c] = challenge[c] /\ challenge[c] # NoQuote
      BY <1>12, <2>5, QuotesAssumption DEF ProveRefused
    <2> QED
      BY <1>2, <2>3, <2>4, <2>5, <2>6, <2>7
  <1> QED
    BY <1>3, <1>4, <1>5, <1>6, <1>7, <1>8, <1>9, <1>10, <1>11, <1>12 DEF Step

LEMMA NextX402IInv == X402IInv /\ [X402Next]_x402Vars => X402IInv'
  <1> SUFFICES ASSUME X402IInv, [X402Next]_x402Vars PROVE X402IInv'
    OBVIOUS
  <1> USE DEF X402IInv
  <1>1. CASE UNCHANGED x402Vars
    BY <1>1 DEF x402Vars, clientVars, X402TypeOK, CallOK, Fresh, Quoted, PaidSoFar, Presented,
                TrueResult, PaidBy
  <1>2. CASE \E c \in Calls : Step(c)
    <2>1. PICK c \in Calls : Step(c)
      BY <1>2
    <2>2. X402TypeOK'
      BY <2>1, StepType DEF CallOK
    <2>3. (served \subseteq paid)'
      BY <2>1 DEF Step, Start, AskAnswered, AskChallenged, ProvideProof, ProviderFails,
         Facilitate, FacilitatorFails, NoCallback, ProveServed, ProveRefused, Proves, Fails
    <2>4. ASSUME NEW d \in Calls PROVE CallOK(d)'
      <3>1. CASE d = c
        BY <2>1, <3>1, StepOwn
      <3>2. CASE d # c
        <4>1. /\ pc'[d] = pc[d] /\ callbacks'[d] = callbacks[d]
              /\ challenge'[d] = challenge[d] /\ proof'[d] = proof[d]
              /\ err'[d] = err[d] /\ result'[d] = result[d] /\ quoted'[d] = quoted[d]
              /\ PaidBy(d)' = PaidBy(d)
              /\ PaidBy(d)' \cap served' = PaidBy(d) \cap served
          BY <2>1, <3>2, StepFrame
        <4>2. CallOK(d)
          OBVIOUS
        <4> QED
          BY <4>1, <4>2 DEF CallOK, Fresh, Quoted, PaidSoFar, Presented, TrueResult
      <3> QED
        BY <3>1, <3>2
    <2> QED
      BY <2>2, <2>3, <2>4
  <1> QED
    BY <1>1, <1>2 DEF X402Next, Step

-----------------------------------------------------------------------------
(* The theorems.                                                           *)

\* The invariant of the calls, the payments and what the server has taken.
THEOREM X402Invariance == X402Spec => []X402IInv
  <1>1. X402Init => X402IInv
    BY InitX402IInv
  <1>2. X402IInv /\ [X402Next]_x402Vars => X402IInv'
    BY NextX402IInv
  <1> QED
    BY <1>1, <1>2, PTL DEF X402Spec

\* Every variable keeps its type.
THEOREM X402TypeCorrect == X402Spec => []X402TypeOK
  <1>1. X402IInv => X402TypeOK
    BY DEF X402IInv
  <1> QED
    BY <1>1, X402Invariance, PTL

\* A challenge is paid twice only after a provider that said it had failed.
THEOREM OnePayment == X402Spec => []PaidOnce
  <1>1. X402IInv => PaidOnce
    BY DEF X402IInv, CallOK, PaidSoFar, PaidOnce
  <1> QED
    BY <1>1, X402Invariance, PTL

\* A resource got after a challenge was paid for, as it was asked.
THEOREM PaidFor == X402Spec => []SuccessIsPaidFor
  <1>1. X402IInv => SuccessIsPaidFor
    BY DEF X402IInv, CallOK, TrueResult, SuccessIsPaidFor
  <1> QED
    BY <1>1, X402Invariance, PTL

\* The error of a call tells whether it has paid.
THEOREM ErrorTells == X402Spec => []ErrorTellsIfPaid
  <1>1. X402IInv => ErrorTellsIfPaid
    BY DEF X402IInv, CallOK, TrueResult, ErrorTellsIfPaid
  <1> QED
    BY <1>1, X402Invariance, PTL
================================================================================
