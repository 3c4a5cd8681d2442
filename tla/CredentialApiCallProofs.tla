--------------------------- MODULE CredentialApiCallProofs ------------------
(***************************************************************************)
(* Proofs about CredentialRotation, for any calls, idempotency keys, types *)
(* and number of attempts, and about ApiCall, for any calls, identifiers,  *)
(* merchants and base URLs.  The two share the lemmas about doJSON and     *)
(* nothing else.                                                           *)
(***************************************************************************)
EXTENDS CredentialRotation, ApiCall, DoJSONProofs, FiniteSetTheorems,
        SequenceTheorems

-----------------------------------------------------------------------------
(* The inductive invariant.                                                *)

KeyOf(c) == input[c].key
TypeOf(c) == input[c].type
RotatedBy(t, i) == issued[t][i].call

\* Nobody has a credential that was not issued.
KeysHeld ==
    \A c \in Calls : IF Started(c) THEN input[c].apiKey <= Latest("api_key")
                                   ELSE input[c] = Nothing

RequestsStarted == \A m \in requests : Started(m.call)

RotationsAsked ==
    \A t \in AllTypes : \A i \in DOMAIN issued[t] :
        LET c == RotatedBy(t, i)
        IN  Started(c) /\ input[c].op = "rotate" /\ TypeOf(c) = t

\* Who rotates the API key is authenticated by the latest, or the one before.
RotatedByHolder ==
    \A i \in DOMAIN issued["api_key"] :
        input[RotatedBy("api_key", i)].apiKey \in {Initial + i - 1, Initial + i - 2}

\* A keyed rotation is the one its key records.
RotationsRecorded ==
    \A t \in AllTypes : \A i \in DOMAIN issued[t] :
        LET k == KeyOf(RotatedBy(t, i))
        IN  k # NoKey => records[k] = Initial + i

KeyNamesOne ==
    \A c, d \in Calls :
        KeyOf(c) = KeyOf(d) /\ KeyOf(c) # NoKey =>
            input[c].op = input[d].op /\ TypeOf(c) = TypeOf(d)

\* What an answer on type t may carry.
IssuedId(t, id) == id \in {0, Masked} \/ (id > Initial /\ id <= Latest(t))

RecordsIssued ==
    /\ \A k \in Keys : records[k] # 0 => \E c \in Calls : KeyOf(c) = k
    /\ \A c \in Calls : KeyOf(c) # NoKey => IssuedId(TypeOf(c), records[KeyOf(c)])

OverlapHolds ==
    \A t \in AllTypes : Len(issued[t]) # 0 /\ ~ended[t] => overlap[t]

\* What a caller is told is true of the credentials.
LockedOut(c) == Started(c) /\ input[c].apiKey \notin Valid("api_key")
TrueAnswer(c, status, id) ==
    /\ status # 204
    /\ status = 401 => LockedOut(c)
    /\ IssuedId(TypeOf(c), id)

RepliesTrue == \A c \in Calls : TrueAnswer(c, reply[c].status, reply[c].id)
ResultsTrue == \A c \in Calls : TrueAnswer(c, result[c].status, result[c].id)

Untold ==
    \A c \in Calls :
        ~Started(c) => reply[c] = NoReply /\ result[c] = Plain("none")

\* No answer of the service leaves a caller without its resource: what is no
\* error has one, and so has what doJSON makes of it.
RepliesNameIt ==
    \A c \in Calls :
        reply[c] = NoReply \/ reply[c].status >= 400 \/ reply[c].id # 0
OkNamesIt == \A c \in Calls : result[c].kind = "ok" => result[c].id # 0

IInv ==
    /\ TypeOK
    /\ KeysHeld
    /\ Untold
    /\ RequestsStarted
    /\ RotationsAsked
    /\ RotatedByHolder
    /\ RotationsRecorded
    /\ KeyNamesOne
    /\ RecordsIssued
    /\ OverlapHolds
    /\ RepliesTrue
    /\ ResultsTrue
    /\ RepliesNameIt
    /\ OkNamesIt

-----------------------------------------------------------------------------
(* The invariant holds at first.                                           *)

LEMMA InitIInv == Init => IInv
  <1> SUFFICES ASSUME Init PROVE IInv
    OBVIOUS
  <1> USE DEF Init, ClientInit
  <1>1. TypeOK
    <2>1. Plain("none") \in Outcomes /\ NoReply \in Replies
      BY DEF Plain, Outcomes, Kinds, NoReply, Replies
    <2>2. Nothing \in Inputs
      BY DEF Nothing, Inputs, Ops, AllTypes
    <2>3. 0 \in Attempts
      BY AttemptsAssumption DEF Attempts
    <2> QED
      BY <2>1, <2>2, <2>3 DEF TypeOK, ClientTypeOK
  <1>2. KeysHeld /\ Untold /\ RequestsStarted /\ KeyNamesOne
    BY DEF KeysHeld, Untold, Started, RequestsStarted, KeyNamesOne, KeyOf, TypeOf, Nothing
  <1>3. \A t \in AllTypes : issued[t] = << >> /\ Len(issued[t]) = 0
    OBVIOUS
  <1>4. RotationsAsked /\ RotatedByHolder /\ RotationsRecorded /\ OverlapHolds
    BY <1>3 DEF RotationsAsked, RotatedByHolder, RotationsRecorded, OverlapHolds, AllTypes
  <1>5. \A c \in Calls : KeyOf(c) = NoKey
    BY DEF KeyOf, Nothing
  <1>6. RecordsIssued /\ RepliesTrue /\ ResultsTrue /\ RepliesNameIt /\ OkNamesIt
    BY <1>5 DEF RecordsIssued, RepliesTrue, ResultsTrue, TrueAnswer, IssuedId, NoReply,
                Plain, RepliesNameIt, OkNamesIt
  <1> QED
    BY <1>1, <1>2, <1>4, <1>6 DEF IInv

\* The credentials are numbered from Initial on.
LEMMA LatestFacts ==
    ASSUME TypeOK, NEW t \in AllTypes
    PROVE  /\ issued[t] \in Seq(Requests)
           /\ DOMAIN issued[t] = 1 .. Len(issued[t])
           /\ Len(issued[t]) \in Nat
           /\ Latest(t) \in Nat /\ Latest(t) >= Initial
  BY DEF TypeOK, Latest, Initial

LEMMA InputFacts ==
    ASSUME TypeOK, NEW c \in Calls
    PROVE  /\ input[c].op \in Ops /\ TypeOf(c) \in AllTypes
           /\ KeyOf(c) \in Keys \cup {NoKey}
           /\ input[c].apiKey \in Nat
  BY DEF TypeOK, Inputs, TypeOf, KeyOf

-----------------------------------------------------------------------------
(* Every step keeps it: the caller's steps.                                *)

LEMMA StartIInv ==
    ASSUME IInv, NEW c \in Calls, NEW op \in Ops, NEW t \in Types,
           NEW k \in Keys \cup {NoKey}, NEW a \in HeldApiKeys, Start(c, op, t, k, a)
    PROVE  IInv'
  <1> USE DEF IInv, Start, Enter
  <1>1. t \in AllTypes /\ ~Started(c) /\ "api_key" \in AllTypes
    BY TypesAssumption DEF AllTypes, Started
  <1>2. Latest(t) \in Nat /\ Latest("api_key") \in Nat
    BY <1>1, LatestFacts
  <1>3. a \in Nat /\ a <= Latest("api_key")
    <2>1. CASE a = Initial
      BY <1>1, <2>1, LatestFacts DEF Initial
    <2>2. CASE a # Initial
      <3>1. PICK d \in Calls : a = result[d].id /\ TypeOf(d) = "api_key"
        BY <2>2 DEF HeldApiKeys, TypeOf
      <3>2. a \in Nat
        BY <3>1 DEF TypeOK, ClientTypeOK, Outcomes
      <3>3. IssuedId("api_key", a)
        BY <3>1 DEF ResultsTrue, TrueAnswer
      <3> QED
        BY <1>1, <3>2, <3>3, LatestFacts DEF IssuedId, Masked, Initial
    <2> QED
      BY <2>1, <2>2
  <1> DEFINE i == [op |-> op, type |-> t, key |-> k, apiKey |-> a, held |-> Latest(t)]
  <1>4. i \in Inputs
    BY <1>1, <1>2, <1>3 DEF Inputs
  <1>5. /\ input' = [input EXCEPT ![c] = i]
        /\ i.op = op /\ i.type = t /\ i.key = k /\ i.apiKey = a
    OBVIOUS
  <1> HIDE DEF i
  <1>6. /\ input' \in [Calls -> Inputs] /\ input'[c] = i
        /\ \A d \in Calls \ {c} : input'[d] = input[d]
    BY <1>4, <1>5 DEF TypeOK
  <1>7. \A d \in Calls : Started(d)' <=> Started(d) \/ d = c
    BY DEF Started, TypeOK, ClientTypeOK
  <1>8. UNCHANGED <<attempt, ctx, lastErr, result, requests, reply, serverVars>>
    OBVIOUS
  <1>9. TypeOK'
    BY <1>6, <1>8 DEF TypeOK, ClientTypeOK, serverVars
  <1>10. \A u : /\ Latest(u)' = Latest(u)
                /\ Valid(u)' = Valid(u)
                /\ \A x : IssuedId(u, x)' = IssuedId(u, x)
    BY <1>8 DEF Latest, Valid, IssuedId, serverVars
  <1>11. KeysHeld' /\ Untold' /\ RequestsStarted'
    <2>1. KeysHeld'
      BY <1>3, <1>5, <1>6, <1>7, <1>10 DEF KeysHeld
    <2>2. Untold' /\ RequestsStarted'
      BY <1>7, <1>8 DEF Untold, RequestsStarted, TypeOK, ClientTypeOK, Requests
    <2> QED
      BY <2>1, <2>2
  <1>12. \A u \in AllTypes : \A j \in DOMAIN issued[u] :
           LET d == RotatedBy(u, j)
           IN  d \in Calls /\ d # c /\ RotatedBy(u, j)' = d
    <2> SUFFICES ASSUME NEW u \in AllTypes, NEW j \in DOMAIN issued[u]
                 PROVE  /\ RotatedBy(u, j) \in Calls /\ RotatedBy(u, j) # c
                        /\ RotatedBy(u, j)' = RotatedBy(u, j)
      OBVIOUS
    <2>1. issued[u][j] \in Requests
      BY LatestFacts
    <2>2. Started(RotatedBy(u, j))
      BY DEF RotationsAsked
    <2> QED
      BY <1>1, <1>8, <2>1, <2>2 DEF RotatedBy, serverVars, Requests
  <1>13. RotationsAsked' /\ RotatedByHolder' /\ RotationsRecorded' /\ OverlapHolds'
    <2>1. RotationsAsked'
      BY <1>6, <1>7, <1>8, <1>12 DEF RotationsAsked, TypeOf, serverVars
    <2>2. RotatedByHolder'
      BY <1>1, <1>6, <1>8, <1>12 DEF RotatedByHolder, serverVars
    <2>3. RotationsRecorded'
      BY <1>6, <1>8, <1>12 DEF RotationsRecorded, KeyOf, serverVars
    <2>4. OverlapHolds'
      BY <1>8 DEF OverlapHolds, serverVars
    <2> QED
      BY <2>1, <2>2, <2>3, <2>4
  <1>14. \A d \in Calls \ {c} : KeyOf(d)' = KeyOf(d) /\ TypeOf(d)' = TypeOf(d)
    BY <1>6 DEF KeyOf, TypeOf
  <1>15. KeyOf(c)' = k /\ TypeOf(c)' = t
    BY <1>5, <1>6 DEF KeyOf, TypeOf
  <1>16. \A d \in Calls : k # NoKey /\ KeyOf(d) = k => input[d].op = op /\ TypeOf(d) = t
    BY DEF KeyOf, TypeOf
  <1>17. KeyNamesOne'
    BY <1>5, <1>6, <1>14, <1>15, <1>16 DEF KeyNamesOne
  <1>18. KeyOf(c) = NoKey
    BY <1>1 DEF KeysHeld, KeyOf, Nothing
  <1>19. RecordsIssued'
    <2>1. \A x \in Keys : records[x] # 0 => \E d \in Calls \ {c} : KeyOf(d) = x
      BY <1>18, KeysAssumption DEF RecordsIssued
    <2>2. k # NoKey => IssuedId(t, records[k])
      <3>1. CASE k # NoKey /\ records[k] # 0
        <4>1. PICK d \in Calls : KeyOf(d) = k
          BY <3>1 DEF RecordsIssued
        <4> QED
          BY <1>16, <3>1, <4>1 DEF RecordsIssued
      <3>2. CASE records[k] = 0
        BY <3>2 DEF IssuedId
      <3> QED
        BY <3>1, <3>2
    <2>3. records' = records
      BY <1>8 DEF serverVars
    <2> QED
      BY <1>10, <1>14, <1>15, <2>1, <2>2, <2>3 DEF RecordsIssued
  <1>20. RepliesTrue' /\ ResultsTrue'
    <2>1. ASSUME NEW d \in Calls \ {c}, NEW s, NEW x, TrueAnswer(d, s, x)
          PROVE  TrueAnswer(d, s, x)'
      BY <1>6, <1>7, <1>10, <1>14, <2>1 DEF TrueAnswer, LockedOut
    <2>2. TrueAnswer(c, 0, 0)'
      BY DEF TrueAnswer, IssuedId
    <2>3. /\ reply[c].status = 0 /\ reply[c].id = 0
          /\ result[c].status = 0 /\ result[c].id = 0
      BY <1>1 DEF Untold, NoReply, Plain
    <2> QED
      BY <1>8, <2>1, <2>2, <2>3 DEF RepliesTrue, ResultsTrue
  <1>21. RepliesNameIt' /\ OkNamesIt'
    BY <1>8 DEF RepliesNameIt, OkNamesIt
  <1> QED
    BY <1>9, <1>11, <1>13, <1>17, <1>19, <1>20, <1>21

\* Nothing that is known of the credentials changes when they are left alone.
LEMMA CredentialsKept ==
    ASSUME IInv, TypeOK', UNCHANGED <<input, serverVars>>,
           \A c \in Calls : Started(c)' = Started(c)
    PROVE  /\ KeysHeld' /\ RotationsAsked' /\ RotatedByHolder' /\ RotationsRecorded'
           /\ KeyNamesOne' /\ RecordsIssued' /\ OverlapHolds'
           /\ \A c \in Calls : \A s, x : TrueAnswer(c, s, x)' = TrueAnswer(c, s, x)
  <1> USE DEF IInv
  <1>1. UNCHANGED <<issued, overlap, ended, records>>
    BY DEF serverVars
  <1>2. \A u : Latest(u)' = Latest(u) /\ Valid(u)' = Valid(u)
    BY <1>1 DEF Latest, Valid
  <1>3. \A u, x : IssuedId(u, x)' = IssuedId(u, x)
    BY <1>2 DEF IssuedId
  <1>4. KeysHeld' /\ KeyNamesOne' /\ OverlapHolds'
    BY <1>1, <1>2 DEF KeysHeld, KeyNamesOne, KeyOf, TypeOf, OverlapHolds
  <1>5. \A t \in AllTypes : \A i \in DOMAIN issued[t] :
          RotatedBy(t, i) \in Calls /\ RotatedBy(t, i)' = RotatedBy(t, i)
    <2> SUFFICES ASSUME NEW t \in AllTypes, NEW i \in DOMAIN issued[t]
                 PROVE  RotatedBy(t, i) \in Calls /\ RotatedBy(t, i)' = RotatedBy(t, i)
      OBVIOUS
    <2>1. issued[t][i] \in Requests
      BY LatestFacts
    <2> QED
      BY <1>1, <2>1 DEF RotatedBy, Requests
  <1>6. RotationsAsked'
    BY <1>1, <1>5 DEF RotationsAsked, TypeOf
  <1>7. RotatedByHolder' /\ RotationsRecorded'
    BY <1>1, <1>5 DEF RotatedByHolder, RotationsRecorded, KeyOf, AllTypes
  <1>8. RecordsIssued'
    BY <1>1, <1>3 DEF RecordsIssued, KeyOf, TypeOf
  <1>9. \A c \in Calls : \A s, x : TrueAnswer(c, s, x)' = TrueAnswer(c, s, x)
    BY <1>2, <1>3 DEF TrueAnswer, LockedOut, TypeOf
  <1> QED
    BY <1>4, <1>6, <1>7, <1>8, <1>9

LEMMA ClientIInv ==
    ASSUME IInv, NEW c \in Calls, ClientStep(c)
    PROVE  IInv'
  <1> USE DEF IInv, ClientStep
  <1>1. ClientTypeOK' /\ ClientTypeOK
    BY ClientStepType DEF TypeOK
  <1>2. ClientFrame(c)
    BY <1>1, ClientStepFrame
  <1>3. UNCHANGED <<input, serverVars>>
    OBVIOUS
  <1>4. TypeOK'
    BY <1>1, <1>3 DEF TypeOK, serverVars
  <1>5. Started(c) /\ \A d \in Calls : Started(d)' = Started(d)
    BY <1>2 DEF ClientFrame, Started
  <1>6. RequestsStarted'
    BY <1>1, <1>2, <1>5 DEF RequestsStarted, ClientFrame, ClientTypeOK, Requests
  <1>7. \A d \in Calls : reply'[d] \in {reply[d], NoReply}
    BY <1>2 DEF ClientFrame
  <1>8. Untold'
    BY <1>2, <1>5, <1>7 DEF Untold, ClientFrame
  <1>9. \A d \in Calls : TrueAnswer(d, 0, 0)
    BY DEF TrueAnswer, IssuedId
  <1>10. \A d \in Calls : \A s, x : TrueAnswer(d, s, x)' = TrueAnswer(d, s, x)
    BY <1>3, <1>4, <1>5, CredentialsKept
  <1>11. RepliesTrue'
    <2> SUFFICES ASSUME NEW d \in Calls, NEW r, r = reply'[d]
                 PROVE  TrueAnswer(d, r.status, r.id)'
      BY DEF RepliesTrue
    <2>1. TrueAnswer(d, r.status, r.id)
      BY <1>7, <1>9 DEF RepliesTrue, NoReply
    <2> QED
      BY <1>10, <2>1
  <1>12. /\ TrueAnswer(c, result'[c].status, result'[c].id)
         /\ result'[c].kind = "ok" => result'[c].id # 0
    <2>1. CASE pc'[c] # "returned"
      BY <1>2, <2>1 DEF ResultsTrue, OkNamesIt, ClientFrame
    <2>2. CASE result'[c] \in {Plain("transport"), Plain("cancelled")}
      BY <1>9, <2>2 DEF Plain
    <2>3. CASE /\ reply[c] # NoReply
               /\ \E intact \in BOOLEAN :
                    result'[c] = DecodeResponse(reply[c], TRUE, intact)
      <3>4. reply[c].status >= 400 \/ reply[c].id # 0
        BY <2>3 DEF RepliesNameIt
      <3>1. /\ result'[c].status = reply[c].status
            /\ result'[c].id \in {0, reply[c].id}
            /\ result'[c].kind = "ok" /\ reply[c].status # 204 => result'[c].id # 0
        BY <1>1, <2>3, <3>4 DEF DecodeResponse, ClientTypeOK, Replies
      <3>2. TrueAnswer(c, reply[c].status, reply[c].id)
        BY DEF RepliesTrue
      <3> QED
        BY <3>1, <3>2 DEF TrueAnswer, IssuedId
    <2> QED
      BY <1>1, <2>1, <2>2, <2>3, ClientReturns
  <1>13. ResultsTrue'
    <2> SUFFICES ASSUME NEW d \in Calls, NEW o, o = result'[d]
                 PROVE  TrueAnswer(d, o.status, o.id)'
      BY DEF ResultsTrue
    <2>1. TrueAnswer(d, o.status, o.id)
      BY <1>2, <1>12 DEF ResultsTrue, ClientFrame
    <2> QED
      BY <1>10, <2>1
  <1>14. OkNamesIt'
    BY <1>2, <1>12 DEF OkNamesIt, ClientFrame
  <1>15. RepliesNameIt'
    BY <1>7 DEF RepliesNameIt
  <1> QED
    BY <1>3, <1>4, <1>5, <1>6, <1>8, <1>11, <1>13, <1>14, <1>15, CredentialsKept

LEMMA CancelIInv ==
    ASSUME IInv, NEW c \in Calls, CancelCtx(c)
    PROVE  IInv'
  <1> USE DEF IInv, CancelCtx, Cancel
  <1>1. TypeOK'
    BY DEF TypeOK, ClientTypeOK, serverVars
  <1>2. \A d \in Calls : Started(d)' = Started(d)
    BY DEF Started
  <1>3. Untold' /\ RequestsStarted'
    BY <1>2 DEF Untold, RequestsStarted, TypeOK, ClientTypeOK, Requests
  <1>4. \A d \in Calls : \A s, x : TrueAnswer(d, s, x)' = TrueAnswer(d, s, x)
    BY <1>1, <1>2, CredentialsKept
  <1>5. RepliesTrue' /\ ResultsTrue'
    <2>1. \A d \in Calls : /\ TrueAnswer(d, reply[d].status, reply[d].id)
                           /\ TrueAnswer(d, result[d].status, result[d].id)
      BY DEF RepliesTrue, ResultsTrue
    <2> SUFFICES ASSUME NEW d \in Calls, NEW r, r = reply'[d], NEW o, o = result'[d]
                 PROVE  /\ TrueAnswer(d, r.status, r.id)'
                        /\ TrueAnswer(d, o.status, o.id)'
      BY DEF RepliesTrue, ResultsTrue
    <2> QED
      BY <1>4, <2>1
  <1>6. RepliesNameIt' /\ OkNamesIt'
    BY DEF RepliesNameIt, OkNamesIt
  <1> QED
    BY <1>1, <1>2, <1>3, <1>5, <1>6, CredentialsKept

-----------------------------------------------------------------------------
(* Every step keeps it: the service.                                       *)

\* What is known of the credentials, and what a step does to them: those
\* that were not good become good only by being issued.
Credentials ==
    /\ issued \in [AllTypes -> Seq(Requests)]
    /\ overlap \in [AllTypes -> BOOLEAN]
    /\ ended \in [AllTypes -> BOOLEAN]
    /\ records \in [Keys -> Nat]
    /\ KeysHeld
    /\ RotationsAsked
    /\ RotatedByHolder
    /\ RotationsRecorded
    /\ RecordsIssued
    /\ OverlapHolds

Moves ==
    /\ \A t \in AllTypes : Latest(t)' \in Nat /\ Latest(t)' >= Latest(t)
    /\ Valid("api_key")' \subseteq
           Valid("api_key") \cup (Latest("api_key") + 1 .. Latest("api_key")')

\* What was answered stays true.
LEMMA AnswersStay ==
    ASSUME IInv, Moves, UNCHANGED <<pc, input>>,
           NEW c \in Calls, NEW s, NEW x \in Nat, TrueAnswer(c, s, x)
    PROVE  TrueAnswer(c, s, x)'
  <1> USE DEF IInv, Moves
  <1>1. TypeOf(c) \in AllTypes /\ TypeOf(c)' = TypeOf(c) /\ input[c].apiKey \in Nat
    BY InputFacts DEF TypeOf
  <1>2. IssuedId(TypeOf(c), x)'
    <2>1. Latest(TypeOf(c)) \in Nat
      BY <1>1, LatestFacts
    <2>2. PICK t \in AllTypes : t = TypeOf(c)
      BY <1>1
    <2>3. IssuedId(t, x)'
      BY <2>1, <2>2 DEF IssuedId, TrueAnswer, Masked, Initial
    <2> QED
      BY <1>1, <2>2, <2>3
  <1>3. ASSUME LockedOut(c) PROVE LockedOut(c)'
    <2>1. Latest("api_key") \in Nat
      BY LatestFacts DEF AllTypes
    <2>2. input[c].apiKey <= Latest("api_key")
      BY <1>3 DEF LockedOut, KeysHeld
    <2> QED
      BY <1>1, <1>3, <2>1, <2>2 DEF LockedOut, Started, AllTypes
  <1> QED
    BY <1>2, <1>3 DEF TrueAnswer

LEMMA RespondFacts ==
    ASSUME TypeOK, NEW m \in requests, NEW r \in Replies,
           Respond(m, r) \/ Answer(m, r)
    PROVE  /\ requests' \subseteq requests
           /\ reply' \in [Calls -> Replies]
           /\ \A d \in Calls :
                \/ reply'[d] = reply[d]
                \/ d = m.call /\ reply'[d] \in {r, Refusal(GatewayStatus)}
  <1>1. Refusal(GatewayStatus) \in Replies
    BY GatewayAssumption DEF Refusal, Replies
  <1> QED
    BY <1>1 DEF TypeOK, ClientTypeOK, Respond, Answer, Requests

LEMMA PerformFacts ==
    ASSUME IInv, NEW m \in requests, NEW id \in Nat, Perform(m, id)
    PROVE  /\ m.call \in Calls /\ m \in Requests /\ Started(m.call)
           /\ input[m.call].apiKey \in Valid("api_key")
           /\ Respond(m, Body(id))
           /\ records' \in [Keys -> Nat]
           /\ KeyOf(m.call) = NoKey => records' = records
           /\ KeyOf(m.call) # NoKey =>
                /\ KeyOf(m.call) \in Keys
                /\ records[KeyOf(m.call)] = 0
                /\ records' = [records EXCEPT ![KeyOf(m.call)] = id]
  <1>1. m.call \in Calls /\ m \in Requests /\ Started(m.call)
    BY DEF IInv, TypeOK, ClientTypeOK, Requests, RequestsStarted
  <1>2. KeyOf(m.call) \in Keys \cup {NoKey} /\ KeyOf(m.call) = IdempotencyHeader(m)
    BY <1>1, InputFacts DEF IInv, KeyOf, IdempotencyHeader
  <1>3. records \in [Keys -> Nat]
    BY DEF IInv, TypeOK
  <1> QED
    BY <1>1, <1>2, <1>3 DEF Perform, Authenticated, ApiKeyHeader, Located

LEMMA RotateCredentials ==
    ASSUME IInv, NEW m \in requests, Rotate(m), UNCHANGED <<pc, input>>,
           NEW t, t = TypeOf(m.call), NEW n, n = Latest(t) + 1
    PROVE  Credentials' /\ Moves /\ IssuedId(t, n)'
  <1>1. PICK c \in Calls, k \in Keys \cup {NoKey} :
          /\ c = m.call /\ t = TypeOf(c) /\ k = KeyOf(c)
          /\ t \in AllTypes /\ n \in Nat
    <2>1. m.call \in Calls
      BY DEF IInv, TypeOK, ClientTypeOK, Requests
    <2>2. TypeOf(m.call) \in AllTypes /\ KeyOf(m.call) \in Keys \cup {NoKey}
      BY <2>1, InputFacts DEF IInv
    <2>3. Latest(TypeOf(m.call)) + 1 \in Nat
      BY <2>2, LatestFacts DEF IInv
    <2> QED
      BY <2>1, <2>2, <2>3
  <1>2. /\ m \in Requests /\ Started(c) /\ input[c].apiKey \in Valid("api_key")
        /\ records' \in [Keys -> Nat]
        /\ k = NoKey => records' = records
        /\ k # NoKey => k \in Keys /\ records[k] = 0 /\ records' = [records EXCEPT ![k] = n]
    BY <1>1, PerformFacts DEF Rotate, TypeOf
  <1>3. /\ input[c].op = "rotate"
        /\ issued' = [issued EXCEPT ![t] = Append(issued[t], m)]
        /\ overlap' = [overlap EXCEPT ![t] = TRUE]
        /\ ended' = ended
    BY <1>1 DEF Rotate, TypeOf
  <1>4. /\ TypeOK
        /\ issued \in [AllTypes -> Seq(Requests)] /\ overlap \in [AllTypes -> BOOLEAN]
        /\ ended \in [AllTypes -> BOOLEAN] /\ records \in [Keys -> Nat]
        /\ issued[t] \in Seq(Requests)
    BY <1>1 DEF IInv, TypeOK
  <1>0. /\ KeysHeld /\ RotationsAsked /\ RotatedByHolder /\ RotationsRecorded
        /\ KeyNamesOne /\ RecordsIssued /\ OverlapHolds
    BY DEF IInv
  <1>5a. PICK s : s = Append(issued[t], m)
    OBVIOUS
  <1>5. /\ s \in Seq(Requests)
        /\ Len(s) = Len(issued[t]) + 1
        /\ DOMAIN s = 1 .. Len(issued[t]) + 1
        /\ DOMAIN issued[t] = 1 .. Len(issued[t])
        /\ Len(issued[t]) \in Nat
        /\ \A i \in 1 .. Len(issued[t]) : s[i] = issued[t][i]
        /\ s[Len(issued[t]) + 1] = m
    BY <1>2, <1>4, <1>5a, AppendFacts
  <1>6. issued' = [issued EXCEPT ![t] = s] /\ issued' \in [AllTypes -> Seq(Requests)]
        /\ overlap' \in [AllTypes -> BOOLEAN] /\ ended' \in [AllTypes -> BOOLEAN]
    BY <1>1, <1>3, <1>4, <1>5a, <1>5
  <1>7. n = Initial + Len(issued[t]) + 1 /\ n > Initial
    BY <1>1, <1>5 DEF Latest, Initial
  <1>8. /\ \A u \in AllTypes \ {t} : Latest(u)' = Latest(u) /\ Valid(u)' = Valid(u)
        /\ \A u \in AllTypes : u = t => Latest(u)' = n /\ Valid(u)' = {n, n - 1}
    BY <1>1, <1>3, <1>4, <1>5, <1>6, <1>7 DEF Latest, Valid, Initial
  <1>9. /\ \A u \in AllTypes : Latest(u)' \in Nat /\ Latest(u)' >= Latest(u)
        /\ Latest(t) = n - 1
    BY <1>1, <1>4, <1>8, LatestFacts
  <1>10. Moves
    <2>1. CASE t = "api_key"
      <3>1. Latest("api_key") \in Valid("api_key")
        BY DEF Valid
      <3>2. Latest("api_key") = n - 1 /\ "api_key" \in AllTypes
        BY <1>9, <2>1 DEF AllTypes
      <3>3. Latest("api_key")' = n /\ Valid("api_key")' = {n, n - 1}
        BY <1>8, <2>1, <3>2
      <3>4. n \in Latest("api_key") + 1 .. Latest("api_key")'
        BY <1>1, <3>2, <3>3
      <3> QED
        BY <1>9, <3>1, <3>2, <3>3, <3>4 DEF Moves
    <2>2. CASE t # "api_key"
      BY <1>8, <1>9, <2>2 DEF Moves, AllTypes
    <2> QED
      BY <2>1, <2>2
  <1>11. KeysHeld'
    BY <1>0, <1>4, <1>9, LatestFacts, InputFacts DEF KeysHeld, Started, AllTypes
  <1>12. \A u \in AllTypes : \A i \in DOMAIN issued'[u] :
           \/ i \in DOMAIN issued[u] /\ issued'[u][i] = issued[u][i]
           \/ u = t /\ i = n - Initial /\ issued'[u][i] = m
    <2> SUFFICES ASSUME NEW u \in AllTypes, NEW i, i \in DOMAIN issued'[u]
                 PROVE  \/ i \in DOMAIN issued[u] /\ issued'[u][i] = issued[u][i]
                        \/ u = t /\ i = n - Initial /\ issued'[u][i] = m
      OBVIOUS
    <2>1. CASE u = t
      <3>1. issued'[u] = s
        BY <1>4, <1>6, <2>1
      <3> QED
        BY <1>5, <1>7, <2>1, <3>1 DEF Initial
    <2>2. CASE u # t
      BY <1>4, <1>6, <2>2
    <2> QED
      BY <2>1, <2>2
  <1>13. RotationsAsked'
    <2> SUFFICES ASSUME NEW u \in AllTypes, NEW i, i \in DOMAIN issued'[u],
                        NEW d, d = issued'[u][i].call
                 PROVE  Started(d) /\ input[d].op = "rotate" /\ TypeOf(d) = u
      BY DEF RotationsAsked, RotatedBy, TypeOf, Started
    <2>1. CASE i \in DOMAIN issued[u] /\ issued'[u][i] = issued[u][i]
      BY <1>0, <2>1 DEF RotationsAsked, RotatedBy
    <2>2. CASE u = t /\ issued'[u][i] = m
      BY <1>1, <1>2, <1>3, <2>2
    <2> QED
      BY <1>12, <2>1, <2>2
  <1>14. RotatedByHolder'
    <2> SUFFICES ASSUME NEW i, i \in DOMAIN issued'["api_key"]
                 PROVE  input[issued'["api_key"][i].call].apiKey
                          \in {Initial + i - 1, Initial + i - 2}
      BY DEF RotatedByHolder, RotatedBy
    <2>1. CASE i \in DOMAIN issued["api_key"] /\ issued'["api_key"][i] = issued["api_key"][i]
      BY <1>0, <2>1 DEF RotatedByHolder, RotatedBy
    <2>2. CASE t = "api_key" /\ i = n - Initial /\ issued'["api_key"][i] = m
      <3>1. input[c].apiKey \in {Latest("api_key"), Latest("api_key") - 1}
        BY <1>2 DEF Valid
      <3>2. Latest("api_key") = n - 1
        BY <1>9, <2>2
      <3>3. issued'["api_key"][i].call = c
        BY <1>1, <2>2
      <3>4. i = n - Initial
        BY <2>2
      <3>6. Initial + i - 1 = n - 1 /\ Initial + i - 2 = n - 2
        BY <1>1, <3>4 DEF Initial
      <3>5. input[c].apiKey = n - 1 \/ input[c].apiKey = n - 2
        BY <1>1, <3>1, <3>2
      <3> QED
        BY <3>3, <3>5, <3>6
    <2> QED
      BY <1>12, <2>1, <2>2 DEF AllTypes
  <1>15. RotationsRecorded'
    <2> SUFFICES ASSUME NEW u \in AllTypes, NEW i, i \in DOMAIN issued'[u],
                        KeyOf(issued'[u][i].call) # NoKey
                 PROVE  records'[KeyOf(issued'[u][i].call)] = Initial + i
      BY DEF RotationsRecorded, RotatedBy, KeyOf
    <2>1. CASE i \in DOMAIN issued[u] /\ issued'[u][i] = issued[u][i]
      <3>1. records[KeyOf(issued[u][i].call)] = Initial + i /\ i \in Nat
        BY <1>4, <2>1, LatestFacts, <1>0 DEF RotationsRecorded, RotatedBy
      <3>2. KeyOf(issued[u][i].call) \in Keys
        <4>1. issued[u][i] \in Requests
          BY <1>4, <2>1
        <4> QED
          BY <1>4, <2>1, <4>1, InputFacts DEF Requests
      <3> QED
        BY <1>2, <1>4, <2>1, <3>1, <3>2 DEF Initial
    <2>2. CASE i = n - Initial /\ issued'[u][i] = m
      BY <1>1, <1>2, <1>4, <1>7, <2>2 DEF Initial
    <2> QED
      BY <1>12, <2>1, <2>2
  <1>16. \A u \in AllTypes : \A x \in Nat : IssuedId(u, x) => IssuedId(u, x)'
    BY <1>4, <1>9, LatestFacts DEF IssuedId, Masked, Initial
  <1>17. IssuedId(t, n)'
    BY <1>1, <1>7, <1>8 DEF IssuedId, Initial
  <1>18. RecordsIssued'
    <2>1. \A x \in Keys : records'[x] # 0 => \E d \in Calls : KeyOf(d) = x
      BY <1>0, <1>1, <1>2, <1>4 DEF RecordsIssued
    <2>2. ASSUME NEW d \in Calls, NEW u \in AllTypes, u = TypeOf(d), KeyOf(d) # NoKey,
                 NEW x, x = records'[KeyOf(d)]
          PROVE  IssuedId(u, x)'
      <3>1. KeyOf(d) \in Keys
        BY <1>4, <2>2, InputFacts
      <3>2. CASE KeyOf(d) = k
        <4>1. u = t
          BY <1>1, <2>2, <1>0, <3>2 DEF KeyNamesOne
        <4> QED
          BY <1>2, <1>4, <1>17, <2>2, <3>2, <4>1
      <3>3. CASE KeyOf(d) # k
        <4>1. x = records[KeyOf(d)] /\ x \in Nat
          BY <1>2, <1>4, <2>2, <3>1, <3>3
        <4> QED
          BY <1>16, <2>2, <1>0, <4>1 DEF RecordsIssued
      <3> QED
        BY <3>2, <3>3
    <2>3. \A d \in Calls : TypeOf(d) \in AllTypes /\ TypeOf(d)' = TypeOf(d)
                            /\ KeyOf(d)' = KeyOf(d)
      BY <1>4, InputFacts DEF TypeOf, KeyOf
    <2> QED
      BY <2>1, <2>2, <2>3 DEF RecordsIssued
  <1>19. OverlapHolds'
    BY <1>3, <1>4, <1>5, <1>6, <1>0 DEF OverlapHolds
  <1> QED
    BY <1>2, <1>6, <1>10, <1>11, <1>13, <1>14, <1>15, <1>17, <1>18, <1>19
       DEF Credentials

LEMMA RevokeCredentials ==
    ASSUME IInv, NEW m \in requests, Revoke(m), UNCHANGED <<pc, input>>
    PROVE  Credentials' /\ Moves
  <1>1. PICK c \in Calls, t \in AllTypes, k \in Keys \cup {NoKey} :
          c = m.call /\ t = TypeOf(c) /\ k = KeyOf(c)
    <2>1. m.call \in Calls
      BY DEF IInv, TypeOK, ClientTypeOK, Requests
    <2> QED
      BY <2>1, InputFacts DEF IInv
  <1>2. /\ records' \in [Keys -> Nat]
        /\ k = NoKey => records' = records
        /\ k # NoKey =>
             k \in Keys /\ records[k] = 0 /\ records' = [records EXCEPT ![k] = Masked]
    BY <1>1, PerformFacts DEF Revoke, Masked
  <1>3. /\ issued' = issued
        /\ overlap' = [overlap EXCEPT ![t] = FALSE]
        /\ ended' = [ended EXCEPT ![t] = TRUE]
    BY <1>1 DEF Revoke, TypeOf
  <1>4. /\ TypeOK
        /\ issued \in [AllTypes -> Seq(Requests)] /\ overlap \in [AllTypes -> BOOLEAN]
        /\ ended \in [AllTypes -> BOOLEAN] /\ records \in [Keys -> Nat]
    BY DEF IInv, TypeOK
  <1>5. /\ KeysHeld /\ RotationsAsked /\ RotatedByHolder /\ RotationsRecorded
        /\ RecordsIssued /\ OverlapHolds
    BY DEF IInv
  <1>6. Moves /\ \A u : Latest(u)' = Latest(u)
    <2>1. \A u : Latest(u)' = Latest(u)
      BY <1>3 DEF Latest
    <2>2. Valid("api_key")' \subseteq Valid("api_key")
      BY <1>3, <1>4, <2>1 DEF Valid, AllTypes
    <2> QED
      BY <1>4, <2>1, <2>2, LatestFacts DEF Moves
  <1>7. KeysHeld'
    BY <1>5, <1>6 DEF KeysHeld, Started
  <1>8. RotationsAsked' /\ RotatedByHolder'
    BY <1>3, <1>5 DEF RotationsAsked, RotatedByHolder, RotatedBy, Started, TypeOf
  <1>9. RotationsRecorded'
    <2> SUFFICES ASSUME NEW u \in AllTypes, NEW i \in DOMAIN issued[u],
                        NEW x, x = KeyOf(issued[u][i].call), x # NoKey
                 PROVE  records'[x] = Initial + i
      BY <1>3 DEF RotationsRecorded, RotatedBy, KeyOf
    <2>1. records[x] = Initial + i /\ i \in Nat
      BY <1>4, <1>5, LatestFacts DEF RotationsRecorded, RotatedBy
    <2>2. x \in Keys
      <3>1. issued[u][i] \in Requests
        BY <1>4
      <3> QED
        BY <1>4, <3>1, InputFacts DEF Requests
    <2> QED
      BY <1>2, <1>4, <2>1, <2>2 DEF Initial
  <1>10. RecordsIssued'
    <2>1. \A x \in Keys : records'[x] # 0 => \E d \in Calls : KeyOf(d) = x
      BY <1>1, <1>2, <1>4, <1>5 DEF RecordsIssued
    <2>2. ASSUME NEW d \in Calls, KeyOf(d) # NoKey
          PROVE  IssuedId(TypeOf(d), records'[KeyOf(d)])
      <3>1. KeyOf(d) \in Keys
        BY <1>4, <2>2, InputFacts
      <3>2. CASE KeyOf(d) = k
        BY <1>2, <1>4, <2>2, <3>1, <3>2 DEF IssuedId
      <3>3. CASE KeyOf(d) # k
        BY <1>2, <1>4, <1>5, <2>2, <3>1, <3>3 DEF RecordsIssued
      <3> QED
        BY <3>2, <3>3
    <2>3. \A u, x : IssuedId(u, x)' = IssuedId(u, x)
      BY <1>6 DEF IssuedId
    <2> QED
      BY <2>1, <2>2, <2>3 DEF RecordsIssued, KeyOf, TypeOf
  <1>11. OverlapHolds'
    BY <1>3, <1>4, <1>5 DEF OverlapHolds
  <1> QED
    BY <1>2, <1>3, <1>4, <1>6, <1>7, <1>8, <1>9, <1>10, <1>11 DEF Credentials

LEMMA LapseIInv ==
    ASSUME IInv, NEW t \in Types, Lapse(t)
    PROVE  IInv'
  <1> USE DEF IInv, Lapse, clientVars
  <1>1. t \in AllTypes
    BY TypesAssumption DEF AllTypes
  <1>2. /\ TypeOK' /\ Untold' /\ RequestsStarted' /\ KeyNamesOne'
        /\ RepliesNameIt' /\ OkNamesIt'
    BY <1>1 DEF TypeOK, ClientTypeOK, Untold, RequestsStarted, KeyNamesOne, Started,
                KeyOf, TypeOf, RepliesNameIt, OkNamesIt
  <1>3. Moves /\ \A u : Latest(u)' = Latest(u)
    <2>1. \A u : Latest(u)' = Latest(u)
      BY DEF Latest
    <2>2. Valid("api_key")' \subseteq Valid("api_key")
      BY <1>1, <2>1 DEF Valid, AllTypes, TypeOK
    <2> QED
      BY <2>1, <2>2, LatestFacts DEF Moves
  <1>4. \A u, x : IssuedId(u, x)' = IssuedId(u, x)
    BY <1>3 DEF IssuedId
  <1>5. KeysHeld' /\ RecordsIssued'
    BY <1>3, <1>4 DEF KeysHeld, RecordsIssued, Started, KeyOf, TypeOf
  <1>6. RotationsAsked' /\ RotatedByHolder' /\ RotationsRecorded'
    BY DEF RotationsAsked, RotatedByHolder, RotationsRecorded, RotatedBy, Started, KeyOf,
           TypeOf
  <1>7. OverlapHolds'
    BY <1>1 DEF OverlapHolds, TypeOK
  <1>8. RepliesTrue' /\ ResultsTrue'
    <2>1. \A d \in Calls : reply[d].id \in Nat /\ result[d].id \in Nat
      BY DEF TypeOK, ClientTypeOK, Replies, Outcomes
    <2> SUFFICES ASSUME NEW d \in Calls, NEW r, r = reply[d], NEW o, o = result[d]
                 PROVE  /\ TrueAnswer(d, r.status, r.id)'
                        /\ TrueAnswer(d, o.status, o.id)'
      BY DEF RepliesTrue, ResultsTrue
    <2>2. TrueAnswer(d, r.status, r.id) /\ TrueAnswer(d, o.status, o.id)
      BY DEF RepliesTrue, ResultsTrue
    <2> QED
      BY <1>3, <2>1, <2>2, AnswersStay
  <1> QED
    BY <1>2, <1>5, <1>6, <1>7, <1>8

\* What the service answers is true of the credentials as it leaves them.
LEMMA ServerAnswers ==
    ASSUME IInv, NEW m \in requests, ServerStep(m)
    PROVE  /\ Credentials' /\ Moves
           /\ requests' \subseteq requests /\ reply' \in [Calls -> Replies]
           /\ \A d \in Calls : \A r \in Replies :
                reply'[d] = r =>
                    r = reply[d] \/ (d = m.call /\ TrueAnswer(d, r.status, r.id)')
  <1>1. /\ UNCHANGED <<pc, attempt, ctx, lastErr, result, input>>
        /\ TypeOK /\ m.call \in Calls /\ Started(m.call)
    BY DEF ServerStep, IInv, TypeOK, ClientTypeOK, Requests, RequestsStarted
  <1>2. Credentials /\ (UNCHANGED serverVars => Credentials' /\ Moves)
    <2>1. Credentials
      BY DEF IInv, TypeOK, Credentials
    <2>2. ASSUME UNCHANGED serverVars
          PROVE  Credentials' /\ Moves
      <3>1. /\ UNCHANGED <<issued, overlap, ended, records>>
            /\ \A u : Latest(u)' = Latest(u) /\ Valid(u)' = Valid(u)
        BY <2>2 DEF serverVars, Latest, Valid
      <3>2. \A u, x : IssuedId(u, x)' = IssuedId(u, x)
        BY <3>1 DEF IssuedId
      <3>3. Credentials'
        BY <1>1, <2>1, <3>1, <3>2
           DEF Credentials, KeysHeld, RotationsAsked, RotatedByHolder, RotationsRecorded,
               RecordsIssued, OverlapHolds, RotatedBy, Started, KeyOf, TypeOf
      <3> QED
        BY <1>1, <3>1, <3>3, LatestFacts DEF Moves
    <2> QED
      BY <2>1, <2>2
  <1>3. ASSUME NEW r \in Replies, Respond(m, r) \/ Answer(m, r),
               TrueAnswer(m.call, r.status, r.id)', Credentials', Moves
        PROVE  /\ requests' \subseteq requests /\ reply' \in [Calls -> Replies]
               /\ \A d \in Calls : \A q \in Replies :
                    reply'[d] = q =>
                        q = reply[d] \/ (d = m.call /\ TrueAnswer(d, q.status, q.id)')
    <2>1. TrueAnswer(m.call, GatewayStatus, 0)' /\ GatewayStatus # 401
      BY GatewayAssumption DEF TrueAnswer, IssuedId
    <2> QED
      BY <1>1, <1>3, <2>1, RespondFacts DEF Refusal
  <1>4. CASE Rotate(m)
    <2>1. PICK t, n : t = TypeOf(m.call) /\ n = Latest(t) + 1
      OBVIOUS
    <2>2. Credentials' /\ Moves /\ IssuedId(t, n)'
      BY <1>1, <1>4, <2>1, RotateCredentials
    <2>3. n \in Nat /\ TypeOf(m.call)' = t
      BY <1>1, <2>1, InputFacts, LatestFacts DEF TypeOf
    <2>4. Respond(m, Body(n))
      BY <1>4, <2>1, <2>3, PerformFacts DEF Rotate, TypeOf
    <2>5. Body(n) \in Replies /\ Body(n).status = 200 /\ Body(n).id = n
      BY <2>3 DEF Body, Replies
    <2>6. TrueAnswer(m.call, 200, n)'
      BY <2>2, <2>3 DEF TrueAnswer
    <2> QED
      BY <1>3, <2>2, <2>4, <2>5, <2>6
  <1>5. Body(Masked) \in Replies /\ Body(Masked).status = 200 /\ Body(Masked).id = Masked
        /\ TrueAnswer(m.call, 200, Masked)'
    BY DEF Body, Replies, Masked, TrueAnswer, IssuedId
  <1>6. CASE Revoke(m)
    <2>1. Credentials' /\ Moves
      BY <1>1, <1>6, RevokeCredentials
    <2>2. Respond(m, Body(Masked))
      BY <1>6, PerformFacts DEF Revoke, Masked
    <2> QED
      BY <1>3, <1>5, <2>1, <2>2
  <1>7. CASE Replay(m)
    <2>1. Credentials' /\ Moves
      BY <1>2, <1>7 DEF Replay
    <2>2. PICK n : n = Located(m)
      OBVIOUS
    <2>3. n \in Nat /\ IssuedId(TypeOf(m.call), n)
      <3>1. KeyOf(m.call) \in Keys \cup {NoKey}
        BY <1>1, InputFacts
      <3>2. n # 0 => KeyOf(m.call) # NoKey /\ n = records[KeyOf(m.call)]
        BY <2>2 DEF Located, IdempotencyHeader, KeyOf
      <3>3. CASE n = 0
        BY <3>3 DEF IssuedId
      <3>4. CASE n # 0
        BY <1>1, <1>2, <3>1, <3>2, <3>4 DEF Credentials, RecordsIssued
      <3> QED
        BY <3>3, <3>4
    <2>4. TrueAnswer(m.call, 200, n)
      BY <2>3 DEF TrueAnswer
    <2>5. TrueAnswer(m.call, 200, n)'
      BY <1>1, <2>1, <2>3, <2>4, AnswersStay
    <2>6. Body(n) \in Replies /\ Body(n).status = 200 /\ Body(n).id = n
      BY <2>3 DEF Body, Replies
    <2>7. Respond(m, Body(n)) \/ Respond(m, Body(Masked))
      BY <1>7, <2>2 DEF Replay
    <2> QED
      BY <1>3, <1>5, <2>1, <2>5, <2>6, <2>7
  <1>8. CASE Unauthorized(m)
    <2>1. Credentials' /\ Moves
      BY <1>2, <1>8 DEF Unauthorized
    <2>2. TrueAnswer(m.call, 401, 0)
      BY <1>1, <1>8
         DEF Unauthorized, Authenticated, ApiKeyHeader, TrueAnswer, LockedOut, IssuedId
    <2>3. TrueAnswer(m.call, 401, 0)'
      BY <1>1, <2>1, <2>2, AnswersStay
    <2>4. Answer(m, Refusal(401)) /\ Refusal(401) \in Replies
      BY <1>8 DEF Unauthorized, Refusal, Replies
    <2>5. Refusal(401).status = 401 /\ Refusal(401).id = 0
      BY DEF Refusal
    <2> QED
      BY <1>3, <2>1, <2>3, <2>4, <2>5
  <1>9. CASE Unavailable(m)
    <2>1. Credentials' /\ Moves
      BY <1>2, <1>9 DEF Unavailable
    <2>2. TrueAnswer(m.call, GatewayStatus, 0)'
      BY GatewayAssumption DEF TrueAnswer, IssuedId
    <2>3. Answer(m, Refusal(GatewayStatus)) /\ Refusal(GatewayStatus) \in Replies
      BY <1>9, GatewayAssumption DEF Unavailable, Refusal, Replies
    <2>4. Refusal(GatewayStatus).status = GatewayStatus /\ Refusal(GatewayStatus).id = 0
      BY DEF Refusal
    <2> QED
      BY <1>3, <2>1, <2>2, <2>3, <2>4
  <1> QED
    BY <1>4, <1>6, <1>7, <1>8, <1>9 DEF ServerStep

LEMMA AnswersNameIt ==
    ASSUME IInv, NEW m \in requests, ServerStep(m)
    PROVE  RepliesNameIt'
  <1>1. /\ TypeOK /\ RepliesNameIt
        /\ m.call \in Calls /\ input[m.call].type \in AllTypes
    BY InputFacts DEF IInv, TypeOK, ClientTypeOK, Requests, TypeOf
  <1>2. ASSUME NEW r \in Replies, Respond(m, r) \/ Answer(m, r),
               r.status >= 400 \/ r.id # 0
        PROVE  RepliesNameIt'
    <2>1. Refusal(GatewayStatus).status >= 400
      BY GatewayAssumption DEF Refusal
    <2> QED
      BY <1>1, <1>2, <2>1, RespondFacts DEF RepliesNameIt
  <1>3. ASSUME NEW n \in Nat \ {0}, Respond(m, Body(n))
        PROVE  RepliesNameIt'
    <2>1. Body(n) \in Replies /\ Body(n).id # 0
      BY DEF Body, Replies
    <2> QED
      BY <1>2, <1>3, <2>1
  <1>4. CASE Rotate(m)
    <2> PICK n : n = Latest(input[m.call].type) + 1
      OBVIOUS
    <2>1. n \in Nat \ {0} /\ Respond(m, Body(n))
      BY <1>1, <1>4, LatestFacts DEF Rotate, Perform
    <2> QED
      BY <1>3, <2>1
  <1>5. Masked \in Nat \ {0}
    BY DEF Masked
  <1>6. CASE Revoke(m)
    BY <1>3, <1>5, <1>6 DEF Revoke, Perform
  <1>7. CASE Replay(m)
    <2> PICK n : n = Located(m)
      OBVIOUS
    <2>1. n \in Nat \ {0}
      <3>1. n # 0
        BY <1>7 DEF Replay
      <3>2. IdempotencyHeader(m) \in Keys \cup {NoKey}
        BY <1>1, InputFacts DEF IdempotencyHeader, KeyOf
      <3>3. n \in Nat
        BY <1>1, <3>2 DEF Located, TypeOK
      <3> QED
        BY <3>1, <3>3
    <2>2. Respond(m, Body(n)) \/ Respond(m, Body(Masked))
      BY <1>7 DEF Replay
    <2> QED
      BY <1>3, <1>5, <2>1, <2>2
  <1>8. CASE Unauthorized(m)
    <2>1. Refusal(401) \in Replies /\ Refusal(401).status >= 400
      BY DEF Refusal, Replies
    <2> QED
      BY <1>2, <1>8, <2>1 DEF Unauthorized
  <1>9. CASE Unavailable(m)
    <2>1. Refusal(GatewayStatus) \in Replies /\ Refusal(GatewayStatus).status >= 400
      BY GatewayAssumption DEF Refusal, Replies
    <2> QED
      BY <1>2, <1>9, <2>1 DEF Unavailable
  <1> QED
    BY <1>4, <1>6, <1>7, <1>8, <1>9 DEF ServerStep

LEMMA ServerIInv ==
    ASSUME IInv, NEW m \in requests, ServerStep(m)
    PROVE  IInv'
  <1>1. /\ UNCHANGED <<pc, attempt, ctx, lastErr, result, input>>
        /\ TypeOK /\ m.call \in Calls /\ Started(m.call)
    BY DEF ServerStep, IInv, TypeOK, ClientTypeOK, Requests, RequestsStarted
  <1>2. /\ Credentials' /\ Moves
        /\ requests' \subseteq requests /\ reply' \in [Calls -> Replies]
        /\ \A d \in Calls : \A r \in Replies :
             reply'[d] = r =>
                 r = reply[d] \/ (d = m.call /\ TrueAnswer(d, r.status, r.id)')
    BY ServerAnswers
  <1>3. TypeOK'
    BY <1>1, <1>2 DEF TypeOK, ClientTypeOK, Credentials
  <1>4. RequestsStarted' /\ KeyNamesOne'
    BY <1>1, <1>2
       DEF IInv, RequestsStarted, KeyNamesOne, Started, KeyOf, TypeOf
  <1>5. Untold'
    <2> SUFFICES ASSUME NEW d \in Calls, ~Started(d)
                 PROVE  reply'[d] = NoReply /\ result'[d] = Plain("none")
      BY <1>1 DEF Untold, Started
    <2>1. reply'[d] = reply[d]
      BY <1>1, <1>2
    <2> QED
      BY <1>1, <2>1 DEF IInv, Untold
  <1>6. RepliesTrue'
    <2> SUFFICES ASSUME NEW d \in Calls, NEW r \in Replies, r = reply'[d]
                 PROVE  TrueAnswer(d, r.status, r.id)'
      BY <1>2 DEF RepliesTrue
    <2>1. CASE r = reply[d]
      <3>1. TrueAnswer(d, r.status, r.id) /\ r.id \in Nat
        BY <2>1 DEF IInv, RepliesTrue, Replies
      <3> QED
        BY <1>1, <1>2, <3>1, AnswersStay
    <2>2. CASE r # reply[d]
      BY <1>2, <2>2
    <2> QED
      BY <2>1, <2>2
  <1>7. ResultsTrue'
    <2> SUFFICES ASSUME NEW d \in Calls, NEW o, o = result[d]
                 PROVE  TrueAnswer(d, o.status, o.id)'
      BY <1>1 DEF ResultsTrue
    <2>1. TrueAnswer(d, o.status, o.id) /\ o.id \in Nat
      BY <1>1 DEF IInv, ResultsTrue, TypeOK, ClientTypeOK, Outcomes
    <2> QED
      BY <1>1, <1>2, <2>1, AnswersStay
  <1> QED
    BY <1>1, <1>2, <1>3, <1>4, <1>5, <1>6, <1>7, AnswersNameIt
       DEF IInv, Credentials, OkNamesIt

LEMMA NextIInv == IInv /\ [Next]_vars => IInv'
  <1> SUFFICES ASSUME IInv, [Next]_vars PROVE IInv'
    OBVIOUS
  <1>1. CASE \E c \in Calls :
                \E op \in Ops, t \in Types, k \in Keys \cup {NoKey}, a \in HeldApiKeys :
                   Start(c, op, t, k, a)
    BY <1>1, StartIInv
  <1>2. CASE \E c \in Calls : ClientStep(c)
    BY <1>2, ClientIInv
  <1>3. CASE \E c \in Calls : CancelCtx(c)
    BY <1>3, CancelIInv
  <1>4. CASE \E m \in requests : ServerStep(m)
    BY <1>4, ServerIInv
  <1>5. CASE \E t \in Types : Lapse(t)
    BY <1>5, LapseIInv
  <1>6. CASE UNCHANGED vars
    <2>1. TypeOK' /\ \A c \in Calls : Started(c)' = Started(c)
      BY <1>6 DEF IInv, TypeOK, ClientTypeOK, vars, clientVars, serverVars, Started
    <2>2. Untold' /\ RequestsStarted' /\ RepliesTrue' /\ ResultsTrue' /\ OkNamesIt'
      BY <1>6 DEF IInv, OkNamesIt, Untold, RequestsStarted, RepliesTrue, ResultsTrue, TrueAnswer,
                  LockedOut, IssuedId, Valid, Latest, Started, TypeOf, vars, clientVars,
                  serverVars
    <2>3. RepliesNameIt'
      BY <1>6 DEF IInv, RepliesNameIt, vars, clientVars
    <2> QED
      BY <1>6, <2>1, <2>2, <2>3, CredentialsKept DEF IInv, vars
  <1> QED
    BY <1>1, <1>2, <1>3, <1>4, <1>5, <1>6 DEF Next

-----------------------------------------------------------------------------
(* The theorems.                                                           *)

\* The credentials, the records and what the callers hold stay consistent.
THEOREM Invariance == Spec => []IInv
  <1>1. Init => IInv
    BY InitIInv
  <1>2. IInv /\ [Next]_vars => IInv'
    BY NextIInv
  <1> QED
    BY <1>1, <1>2, PTL DEF Spec

\* Every variable keeps its type.
THEOREM TypeCorrect == Spec => []TypeOK
  <1>1. IInv => TypeOK
    BY DEF IInv
  <1> QED
    BY <1>1, Invariance, PTL

\* An API key that was answered 401 is never good again.
THEOREM UnauthorizedStays == Spec => []UnauthorizedIsFinal
  <1>1. IInv => UnauthorizedIsFinal
    BY DEF IInv, ResultsTrue, TrueAnswer, LockedOut, UnauthorizedIsFinal
  <1> QED
    BY <1>1, Invariance, PTL

\* One API key authenticates two rotations of the API key and no more,
\* however often the calls made with it are retried.
THEOREM TwoRotations == Spec => []TwoRotationsPerApiKey
  <1>1. IInv => TwoRotationsPerApiKey
    <2> SUFFICES ASSUME IInv, NEW a \in Initial .. Latest("api_key")
                 PROVE  Cardinality({ i \in DOMAIN issued["api_key"] :
                                        input[issued["api_key"][i].call].apiKey = a }) <= 2
      BY DEF TwoRotationsPerApiKey
    <2> DEFINE R == { i \in DOMAIN issued["api_key"] :
                        input[issued["api_key"][i].call].apiKey = a }
    <2>1. a \in Int /\ DOMAIN issued["api_key"] \subseteq Int
      BY LatestFacts DEF IInv, AllTypes, Initial
    <2>2. R \subseteq {a - 1, a}
      BY <2>1 DEF IInv, RotatedByHolder, RotatedBy, Initial
    <2>3. {a - 1, a} = {a - 1} \cup {a}
      OBVIOUS
    <2>4. IsFiniteSet({a - 1}) /\ Cardinality({a - 1}) = 1
      BY FS_Singleton
    <2>5. IsFiniteSet({a - 1, a}) /\ Cardinality({a - 1, a}) = 2
      <3>1. a \notin {a - 1}
        BY <2>1
      <3> QED
        BY <2>3, <2>4, <3>1, FS_AddElement
    <2>6. Cardinality(R) <= Cardinality({a - 1, a})
      BY <2>2, <2>5, FS_Subset
    <2> QED
      BY <2>5, <2>6
  <1> QED
    BY <1>1, Invariance, PTL

\* A keyed rotation is one rotation, and the credential before it stays.
THEOREM KeyedRotation == Spec => []KeyedRotationKeepsBoth
  <1>1. IInv => KeyedRotationKeepsBoth
    <2> SUFFICES ASSUME IInv, NEW c \in Calls, Started(c), input[c].op = "rotate",
                        KeyOf(c) # NoKey, OneRotationAsked(c),
                        NEW t, t = TypeOf(c)
                 PROVE  /\ Len(issued[t]) <= 1
                        /\ ~ended[t] => Initial \in Valid(t)
                        /\ result[c].kind = "ok" /\ result[c].id # Masked =>
                               result[c].id = Latest(t)
      BY DEF KeyedRotationKeepsBoth, KeyOf, TypeOf
    <2>1. /\ TypeOK /\ t \in AllTypes
          /\ Len(issued[t]) \in Nat /\ DOMAIN issued[t] = 1 .. Len(issued[t])
      BY InputFacts, LatestFacts DEF IInv
    <2>2. \A i \in DOMAIN issued[t] : records[KeyOf(c)] = Initial + i
      <3> SUFFICES ASSUME NEW i \in DOMAIN issued[t]
                   PROVE  records[KeyOf(c)] = Initial + i
        OBVIOUS
      <3>1. issued[t][i] \in Requests
        BY <2>1, LatestFacts
      <3>2. /\ RotatedBy(t, i) \in Calls
            /\ Started(RotatedBy(t, i)) /\ input[RotatedBy(t, i)].op = "rotate"
            /\ TypeOf(RotatedBy(t, i)) = t
        BY <2>1, <3>1 DEF IInv, RotationsAsked, RotatedBy, Requests
      <3>3. KeyOf(RotatedBy(t, i)) = KeyOf(c)
        BY <3>2 DEF OneRotationAsked, KeyOf, TypeOf
      <3> QED
        BY <2>1, <3>3 DEF IInv, RotationsRecorded
    <2>3. Len(issued[t]) <= 1
      <3> SUFFICES ASSUME Len(issued[t]) >= 2 PROVE FALSE
        BY <2>1
      <3>1. 1 \in DOMAIN issued[t] /\ 2 \in DOMAIN issued[t]
        BY <2>1
      <3>2. records[KeyOf(c)] = Initial + 1 /\ records[KeyOf(c)] = Initial + 2
        BY <2>2, <3>1
      <3> QED
        BY <3>2 DEF Initial
    <2>4. ~ended[t] => Initial \in Valid(t)
      <3>1. CASE Len(issued[t]) = 0
        BY <3>1 DEF Valid, Latest, Initial
      <3>2. CASE Len(issued[t]) = 1
        <4>1. ~ended[t] => overlap[t]
          <5>1. Len(issued[t]) # 0
            BY <3>2
          <5>2. OverlapHolds
            BY DEF IInv
          <5> QED
            BY <2>1, <5>1, <5>2 DEF OverlapHolds
        <4>2. Latest(t) - 1 = Initial
          BY <3>2 DEF Latest, Initial
        <4> QED
          BY <4>1, <4>2 DEF Valid
      <3>3. \A l \in Nat : l <= 1 => l = 0 \/ l = 1
        OBVIOUS
      <3> QED
        BY <2>1, <2>3, <3>1, <3>2, <3>3
    <2>5. ASSUME result[c].kind = "ok", result[c].id # Masked
          PROVE  result[c].id = Latest(t)
      <3>1. IssuedId(t, result[c].id) /\ result[c].id \in Nat
        BY <2>1 DEF IInv, ResultsTrue, TrueAnswer, TypeOK, ClientTypeOK, Outcomes
      <3>2. result[c].id # 0
        BY <2>5 DEF IInv, OkNamesIt
      <3> QED
        BY <2>1, <2>3, <2>5, <3>1, <3>2 DEF IssuedId, Latest, Initial
    <2> QED
      BY <2>3, <2>4, <2>5
  <1> QED
    BY <1>1, Invariance, PTL

-----------------------------------------------------------------------------
(* ApiCall: what a call sends, and which operation that is.                *)

\* A path below a base URL is found again there.
LEMMA BelowBase ==
    \A b, p \in Seq(STRING) :
        /\ b \o p \in Seq(STRING)
        /\ SubSeq(b \o p, 1, Len(b)) = b
        /\ SubSeq(b \o p, Len(b) + 1, Len(b \o p)) = p
  <1> TAKE b, p \in Seq(STRING)
  <1>1. b \o p \in Seq(STRING) /\ Len(b \o p) = Len(b) + Len(p)
    OBVIOUS
  <1>2. SubSeq(b \o p, 1, Len(b)) = b
    OBVIOUS
  <1>3. SubSeq(b \o p, Len(b) + 1, Len(b \o p)) = p
    OBVIOUS
  <1> QED
    BY <1>1, <1>2, <1>3

LEMMA SameLength ==
    ASSUME NEW m \in Nat, NEW n \in Nat, 1 .. m = 1 .. n
    PROVE  m = n
  <1>1. CASE m < n
    BY <1>1, n \in 1 .. n
  <1>2. CASE n < m
    BY <1>2, m \in 1 .. m
  <1> QED
    BY <1>1, <1>2

\* An argument in its place leaves the path as long as it was.
LEMMA FilledPath ==
    ASSUME NEW path \in Seq(STRING), NEW id \in STRING
    PROVE  /\ Fill(path, id) \in Seq(STRING)
           /\ Len(Fill(path, id)) = Len(path)
           /\ DOMAIN Fill(path, id) = 1 .. Len(path)
           /\ \A i \in 1 .. Len(path) :
                Fill(path, id)[i] = IF path[i] = Id THEN id ELSE path[i]
  <1>1. DOMAIN path = 1 .. Len(path) /\ Len(path) \in Nat
    OBVIOUS
  <1>2. Fill(path, id) = [i \in 1 .. Len(path) |->
                            IF path[i] = Id THEN id ELSE path[i]]
    BY <1>1 DEF Fill
  <1>3. \A i \in 1 .. Len(path) : path[i] \in STRING
    OBVIOUS
  <1>4. Fill(path, id) \in [1 .. Len(path) -> STRING]
    BY <1>2, <1>3
  <1>5. Fill(path, id) \in Seq(STRING)
    BY <1>1, <1>4, SeqDef, Zenon
  <1>6. DOMAIN Fill(path, id) = 1 .. Len(path)
    BY <1>2
  <1>7. Len(Fill(path, id)) = Len(path)
    <2>1. 1 .. Len(path) = 1 .. Len(Fill(path, id)) /\ Len(Fill(path, id)) \in Nat
      BY <1>5, <1>6, LenProperties
    <2> QED
      BY <1>1, <2>1, SameLength
  <1>8. \A i \in 1 .. Len(path) :
          Fill(path, id)[i] = IF path[i] = Id THEN id ELSE path[i]
    BY <1>2
  <1> QED
    BY <1>5, <1>6, <1>7, <1>8

\* A path without dots stays as it is.
LEMMA NoDots ==
    ASSUME NEW path, \A i \in DOMAIN path : path[i] \notin Dots
    PROVE  RemoveDots(path) = path
  BY DEF RemoveDots

LEMMA PiecesOfPath ==
    ASSUME NEW path \in Seq(STRING), NEW i \in 3 .. Len(path)
    PROVE  /\ SubSeq(path, 1, i - 1) \in Seq(STRING)
           /\ SubSeq(path, 1, i - 2) \in Seq(STRING)
           /\ i # Len(path) => SubSeq(path, i + 1, Len(path)) \in Seq(STRING)
           /\ Empty \in STRING => <<Empty>> \in Seq(STRING)
  OBVIOUS

LEMMA JoinedPath ==
    \A front, rest \in Seq(STRING) : front \o rest \in Seq(STRING)
  OBVIOUS

\* What dots leave of a path is a path.
LEMMA DotsRemoved ==
    ASSUME NEW path \in Seq(STRING),
           \A i \in DOMAIN path : path[i] \in Dots => i > 2
    PROVE  RemoveDots(path) \in Seq(STRING)
  <1> DEFINE at == { i \in DOMAIN path : path[i] \in Dots }
  <1>1. CASE at = {}
    BY <1>1 DEF RemoveDots
  <1>2. CASE at # {}
    <2> PICK i \in DOMAIN path : i = (CHOOSE j \in at : TRUE) /\ i > 2
      BY <1>2
    <2>1. i \in 3 .. Len(path)
      OBVIOUS
    <2>2. SubSeq(path, 1, IF path[i] = Dot THEN i - 1 ELSE i - 2) \in Seq(STRING)
      BY <2>1, PiecesOfPath, Zenon
    <2>3. (IF i = Len(path) THEN <<Empty>> ELSE SubSeq(path, i + 1, Len(path)))
            \in Seq(STRING)
      BY <2>1, PiecesOfPath, SegmentsAssumption
    <2>4. RemoveDots(path) =
            SubSeq(path, 1, IF path[i] = Dot THEN i - 1 ELSE i - 2) \o
              (IF i = Len(path) THEN <<Empty>> ELSE SubSeq(path, i + 1, Len(path)))
      BY <1>2, Zenon DEF RemoveDots
    <2> QED
      BY <2>2, <2>3, <2>4, JoinedPath, Zenon
  <1> QED
    BY <1>1, <1>2

\* Only an argument can be dots, and only in its place.
LEMMA DotsOfFill ==
    ASSUME NEW op \in DOMAIN RequestTable, NEW id \in STRING
    PROVE  LET p == Fill(RequestTable[op].path, id) IN
           /\ p \in Seq(STRING)
           /\ \A i \in DOMAIN p : p[i] \in Dots => i > 2
           /\ id \notin Dots => \A i \in DOMAIN p : p[i] \notin Dots
  <1> DEFINE path == RequestTable[op].path
             p == Fill(path, id)
  <1>0. path \in Seq(STRING)
    BY BuildersAssumption
  <1>1. /\ \A i \in DOMAIN path : path[i] \notin Dots
        /\ \A i \in DOMAIN path : path[i] = Id => i > 2
    BY BuildersAssumption
  <1> HIDE DEF path
  <1>2. /\ p \in Seq(STRING) /\ DOMAIN p = 1 .. Len(path)
        /\ \A i \in 1 .. Len(path) : p[i] = IF path[i] = Id THEN id ELSE path[i]
    BY <1>0, FilledPath
  <1> HIDE DEF p
  <1>6. DOMAIN path = 1 .. Len(path)
    BY <1>0
  <1>3. \A i \in DOMAIN p : p[i] \in Dots => path[i] = Id /\ id \in Dots
    BY <1>1, <1>2, <1>6
  <1>4. \A i \in DOMAIN p : p[i] \in Dots => i > 2
    BY <1>1, <1>2, <1>3, <1>6
  <1> QED
    BY <1>2, <1>3, <1>4 DEF p, path

\* A request with the path of an operation is routed to it, whatever text the
\* argument is that is a segment of its own: every other operation has a fixed
\* segment that is not there.
LEMMA RoutedBack ==
    ASSUME NEW op \in DOMAIN RequestTable, NEW id \in STRING, id # Empty
    PROVE  Routed(RequestTable[op].method, Fill(RequestTable[op].path, id)) = {op}
  <1> DEFINE path == RequestTable[op].path
             p == Fill(path, id)
             found == { o \in DOMAIN Operations :
                          /\ Operations[o].method = RequestTable[op].method
                          /\ Matches(Operations[o].path, p) }
             fixed == { o \in found : Operations[o].path = p }
  <1>1. /\ op \in DOMAIN Operations
        /\ path \in Seq(STRING)
        /\ Operations[op].path = [i \in DOMAIN path |->
                                    IF path[i] = Id THEN Param ELSE path[i]]
        /\ Operations[op].method = RequestTable[op].method
    BY BuildersAssumption DEF PathOf
  <1>2. /\ DOMAIN p = 1 .. Len(path) /\ Len(p) = Len(path)
        /\ \A i \in 1 .. Len(path) : p[i] = IF path[i] = Id THEN id ELSE path[i]
    BY <1>1, FilledPath
  <1>3. DOMAIN path = 1 .. Len(path) /\ Len(path) \in Nat
    BY <1>1
  <1>4. Len(Operations[op].path) = Len(path)
    BY <1>1, <1>3
  <1>5. Matches(Operations[op].path, p)
    BY <1>1, <1>2, <1>3, <1>4 DEF Matches
  <1>6. ASSUME NEW o \in found, o # op
        PROVE  FALSE
    <2>1. /\ Operations[o].method = Operations[op].method
          /\ Len(Operations[o].path) = Len(Operations[op].path)
          /\ \A i \in DOMAIN p : Operations[o].path[i] \in {Param, p[i]}
      BY <1>1, <1>2, <1>4 DEF Matches
    <2>2. ToldApart(op, o)
      BY <1>1, <1>6, <2>1, RoutesAssumption
    <2>3. PICK i \in DOMAIN path :
            /\ Operations[op].path[i] # Operations[o].path[i]
            /\ Param \notin {Operations[op].path[i], Operations[o].path[i]}
      BY <1>1, <2>2 DEF ToldApart
    <2>4. Operations[op].path[i] = path[i] /\ p[i] = path[i]
      BY <1>1, <1>2, <1>3, <2>3
    <2> QED
      BY <1>2, <1>3, <2>1, <2>3, <2>4
  <1>7. found = {op}
    BY <1>1, <1>5, <1>6
  <1>8. fixed = {} \/ fixed = {op}
    BY <1>7
  <1>9. Routed(RequestTable[op].method, p) = IF fixed # {} THEN fixed ELSE found
    BY DEF Routed
  <1> QED
    BY <1>7, <1>8, <1>9

-----------------------------------------------------------------------------
(* ApiCall: the inductive invariant.                                       *)

\* A call was made with arguments that its operation takes.
Meant(c) ==
    /\ made[c].by \in {"typed", "raw"}
    /\ Typed(c) => made[c].name \in DOMAIN MethodTable
    /\ OpOf(c) \in DOMAIN RequestTable
    /\ made[c].id \in IdsFor(OpOf(c))
    /\ made[c].header /\ ~Typed(c) => RequestTable[OpOf(c)].header # "none"

\* The path of a request below the base URL.
Below(c) == RemoveDots(Fill(RequestTable[OpOf(c)].path, made[c].id))

\* What was sent is what the builder makes of the arguments: the arguments
\* other than the merchant are still what they were.
SentAsBuilt(c) ==
    /\ wire[c].method = RequestTable[OpOf(c)].method
    /\ wire[c].path = baseURL.path \o Below(c)
    /\ wire[c].query = Query(c)
    /\ wire[c].headers = BuiltHeaders(c) \cup ApplyEditors(c)
    /\ Lists(c) /\ c \notin raced => wire[c].merchant = made[c].merchant

\* The struct that callers share names the merchant of a running list that no
\* other has raced with.
OwnsParams(c) ==
    /\ Lists(c) /\ made[c].shares /\ c \notin raced
    /\ pc[c] \notin {"idle", "returned"}
    => shared = made[c].merchant

\* The operation a call asks for, or one at the end of a detour.
Reaches(c, o) == o = OpOf(c) \/ <<OpOf(c), made[c].id, o>> \in Detours

\* What the service answered, it answered to the present request.
ServedAsSent(c) ==
    /\ wire[c] # NoWire
    /\ Reaches(c, served[c].op)
    /\ served[c].merchant = wire[c].merchant
    /\ served[c].intent => served[c].schema = "PaymentSessionOrIntent"

\* A reply, or a result, tells of an error or of what was served.
Says(c, r) ==
    \/ r.status \in 400 .. 599 /\ r.id = 0
    \/ /\ served[c] # NotServed
       /\ r.status \in DOMAIN Operations[served[c].op].replies
       /\ served[c].schema = Operations[served[c].op].replies[r.status]
       /\ r.code = 0
       /\ r.id # 0 => served[c].schema # NoContent

Answered(c) ==
    /\ pc[c] # "wait" => reply[c] = NoReply
    /\ pc[c] # "returned" => result[c] = Plain("none")
    /\ reply[c] # NoReply => Says(c, reply[c])
    /\ result[c].kind = "ok" =>
         /\ Says(c, result[c])
         /\ Typed(c) => result[c].status < 400 /\ ~Unfit(c, OutOf(c))

CallFits(c) ==
    /\ pc[c] # "idle" => Meant(c)
    /\ pc[c] = "wait" => wire[c] # NoWire
    /\ wire[c] # NoWire => pc[c] # "idle" /\ SentAsBuilt(c)
    /\ OwnsParams(c)
    /\ served[c] # NotServed => ServedAsSent(c)
    /\ Answered(c)

ApiCallIInv == ApiCallTypeOK /\ \A c \in Calls : CallFits(c)

-----------------------------------------------------------------------------
(* ApiCall: what the invariant says of the requests and the answers.       *)

LEMMA RowFacts ==
    ASSUME NEW op \in DOMAIN RequestTable
    PROVE  /\ op \in DOMAIN Operations
           /\ RequestTable[op].method \in STRING
           /\ RequestTable[op].method = Operations[op].method
           /\ RequestTable[op].path \in Seq(STRING)
           /\ Operations[op].path =
                [i \in DOMAIN RequestTable[op].path |->
                   IF RequestTable[op].path[i] = Id
                     THEN Param ELSE RequestTable[op].path[i]]
           /\ \A i \in DOMAIN RequestTable[op].path :
                RequestTable[op].path[i] # Param
           /\ RequestTable[op].query \subseteq STRING
           /\ RequestTable[op].query = Operations[op].query
           /\ RequestTable[op].json \in BOOLEAN
           /\ RequestTable[op].json = Operations[op].json
           /\ RequestTable[op].header \in {"none", "Idempotency-Key", "Authorization"}
  BY BuildersAssumption DEF PathOf

LEMMA IdsAreTexts == \A id \in Ids \cup {"none"} : id \in STRING
  <1>1. Ids \subseteq STRING
    BY IdsAssumption, Zenon
  <1>2. "none" \in STRING
    BY LiteralsAssumption
  <1> QED
    BY <1>1, <1>2

\* What an identifier that is no segment of its own leads to is in the table.
LEMMA OddRoutes ==
    ASSUME NEW op \in DOMAIN RequestTable, NEW id \in Odd, TakesId(op),
           NEW o \in Routed(RequestTable[op].method,
                           RemoveDots(Fill(RequestTable[op].path, id)))
    PROVE  <<op, id, o>> \in Detours
  BY DetoursAssumption

\* The request of a call is found below the base URL and routed to the
\* operation of the call, or to the end of a detour.
LEMMA SentFacts ==
    ASSUME ApiCallIInv, NEW c \in Calls, wire[c] # NoWire
    PROVE  /\ Meant(c) /\ SentAsBuilt(c)
           /\ OpOf(c) \in DOMAIN RequestTable
           /\ made[c].id \in STRING
           /\ made[c].id \notin Odd =>
                /\ Mounted(wire[c]) = Fill(RequestTable[OpOf(c)].path, made[c].id)
                /\ OperationsOf(wire[c]) = {OpOf(c)}
           /\ made[c].id \in Odd =>
                \A o \in OperationsOf(wire[c]) : <<OpOf(c), made[c].id, o>> \in Detours
  <1>1. Meant(c) /\ SentAsBuilt(c)
    BY DEF ApiCallIInv, CallFits
  <1>2. OpOf(c) \in DOMAIN RequestTable
    BY <1>1 DEF Meant
  <1>3. made[c].id \in STRING
    <2>1. made[c].id \in Ids \cup {"none"}
      BY DEF ApiCallIInv, ApiCallTypeOK, Asked
    <2> QED
      BY <2>1, IdsAreTexts
  <1>4. baseURL.path \in Seq(STRING)
    BY BaseURLsAssumption DEF ApiCallIInv, ApiCallTypeOK
  <1> DEFINE p == Fill(RequestTable[OpOf(c)].path, made[c].id)
  <1>5. Below(c) \in Seq(STRING) /\ (made[c].id \notin Dots => Below(c) = p)
    BY <1>2, <1>3, DotsOfFill, DotsRemoved, NoDots, Zenon DEF Below
  <1>6. wire[c].path = baseURL.path \o Below(c) /\ wire[c].method = RequestTable[OpOf(c)].method
    BY <1>1 DEF SentAsBuilt
  <1>7. Mounted(wire[c]) = Below(c)
    <2>1. /\ SubSeq(baseURL.path \o Below(c), 1, Len(baseURL.path)) = baseURL.path
          /\ SubSeq(baseURL.path \o Below(c), Len(baseURL.path) + 1,
                    Len(baseURL.path \o Below(c))) = Below(c)
      BY <1>4, <1>5, BelowBase, Zenon
    <2> QED
      BY <1>6, <2>1, Zenon DEF Mounted
  <1>8. ASSUME made[c].id \notin Odd
        PROVE  Mounted(wire[c]) = p /\ OperationsOf(wire[c]) = {OpOf(c)}
    <2>1. made[c].id \notin Dots /\ made[c].id # Empty
      BY <1>8, Zenon DEF Odd
    <2>2. Mounted(wire[c]) = p
      BY <1>5, <1>7, <2>1, Zenon
    <2> QED
      BY <1>2, <1>3, <1>6, <2>1, <2>2, RoutedBack, Zenon DEF OperationsOf
  <1>9. ASSUME made[c].id \in Odd, NEW o \in OperationsOf(wire[c])
        PROVE  <<OpOf(c), made[c].id, o>> \in Detours
    <2>1. made[c].id # "none"
      BY <1>9, SegmentsAssumption DEF Odd
    <2>2. TakesId(OpOf(c))
      BY <1>1, <2>1, Zenon DEF Meant, IdsFor
    <2>3. o \in Routed(RequestTable[OpOf(c)].method,
                      RemoveDots(Fill(RequestTable[OpOf(c)].path, made[c].id)))
      BY <1>6, <1>7, <1>9, Zenon DEF OperationsOf, Below
    <2> QED
      BY <1>2, <1>9, <2>2, <2>3, OddRoutes, Zenon
  <1> QED
    BY <1>1, <1>2, <1>3, <1>8, <1>9, Zenon

LEMMA HeaderFacts ==
    ASSUME ApiCallIInv, NEW c \in Calls, wire[c] # NoWire
    PROVE  /\ {"X-API-Key", "Accept"} \subseteq wire[c].headers
           /\ "Content-Type" \in wire[c].headers <=> RequestTable[OpOf(c)].json
           /\ wire[c].headers \cap {"Idempotency-Key", "Authorization"} # {}
                <=> made[c].header
  <1>1. /\ wire[c].headers = BuiltHeaders(c) \cup ApplyEditors(c)
        /\ made[c].header /\ ~Typed(c) => RequestTable[OpOf(c)].header # "none"
        /\ RequestTable[OpOf(c)].header \in {"none", "Idempotency-Key", "Authorization"}
    BY SentFacts, RowFacts DEF SentAsBuilt, Meant
  <1>2. ApplyEditors(c) = IF Typed(c) /\ made[c].header
                           THEN {"X-API-Key", "Accept", "Idempotency-Key"}
                           ELSE {"X-API-Key", "Accept"}
    BY DEF ApplyEditors
  <1>3. BuiltHeaders(c) = (IF RequestTable[OpOf(c)].json THEN {"Content-Type"} ELSE {})
                            \cup (IF ~Typed(c) /\ made[c].header
                                     THEN {RequestTable[OpOf(c)].header} ELSE {})
    BY DEF BuiltHeaders
  <1>4. {"X-API-Key", "Accept"} \subseteq wire[c].headers
    BY <1>1, <1>2
  <1>5. "Content-Type" \in wire[c].headers <=> RequestTable[OpOf(c)].json
    BY <1>1, <1>2, <1>3
  <1>6. wire[c].headers \cap {"Idempotency-Key", "Authorization"} # {}
          <=> made[c].header
    BY <1>1, <1>2, <1>3
  <1> QED
    BY <1>4, <1>5, <1>6

LEMMA AskedFacts == ApiCallIInv => AsksForWhatWasMeant
  <1> SUFFICES ASSUME ApiCallIInv, NEW c \in Calls, wire[c] # NoWire
               PROVE  /\ made[c].id \in Odd =>
                           \A o \in OperationsOf(wire[c]) :
                             <<OpOf(c), made[c].id, o>> \in Detours
                      /\ made[c].id \notin Odd =>
                           /\ OperationsOf(wire[c]) = {OpOf(c)}
                           /\ made[c].id # "none" =>
                                Arguments(OpOf(c), Mounted(wire[c])) = {made[c].id}
                      /\ made[c].filtered =>
                           wire[c].query = Operations[OpOf(c)].query
                      /\ "Content-Type" \in wire[c].headers
                           <=> Operations[OpOf(c)].json
    BY DEF AsksForWhatWasMeant
  <1> DEFINE path == RequestTable[OpOf(c)].path
             p == Fill(path, made[c].id)
  <1>1. /\ Meant(c) /\ SentAsBuilt(c)
        /\ OpOf(c) \in DOMAIN RequestTable /\ made[c].id \in STRING
        /\ made[c].id \notin Odd =>
             Mounted(wire[c]) = p /\ OperationsOf(wire[c]) = {OpOf(c)}
        /\ made[c].id \in Odd =>
             \A o \in OperationsOf(wire[c]) : <<OpOf(c), made[c].id, o>> \in Detours
    BY SentFacts
  <1>2. ASSUME made[c].id # "none"
        PROVE  Arguments(OpOf(c), p) = {made[c].id}
    <2>1. \E i \in DOMAIN path : path[i] = Id
      BY <1>1, <1>2, Zenon DEF Meant, IdsFor, TakesId
    <2>2. /\ path \in Seq(STRING) /\ DOMAIN path = 1 .. Len(path)
          /\ \A i \in DOMAIN path : Operations[OpOf(c)].path[i] = Param <=> path[i] = Id
      <3>1. path \in Seq(STRING)
        BY <1>1, RowFacts
      <3>2. DOMAIN path = 1 .. Len(path)
        BY <3>1
      <3>3. ASSUME NEW i \in DOMAIN path
            PROVE  Operations[OpOf(c)].path[i] = Param <=> path[i] = Id
        BY <1>1, RowFacts
      <3> QED
        BY <3>1, <3>2, <3>3
    <2>3. /\ DOMAIN p = DOMAIN path
          /\ \A i \in DOMAIN path : p[i] = IF path[i] = Id THEN made[c].id ELSE path[i]
      BY <1>1, <2>2, FilledPath
    <2> HIDE DEF p, path
    <2> QED
      BY <2>1, <2>2, <2>3 DEF Arguments
  <1>3. ASSUME made[c].filtered
        PROVE  wire[c].query = Operations[OpOf(c)].query
    BY <1>1, <1>3, RowFacts DEF SentAsBuilt, Query
  <1>4. "Content-Type" \in wire[c].headers <=> Operations[OpOf(c)].json
    BY <1>1, RowFacts, HeaderFacts
  <1> HIDE DEF p, path
  <1> QED
    BY <1>1, <1>2, <1>3, <1>4

LEMMA HeadersKept == ApiCallIInv => HeadersOnEveryAttempt
  BY HeaderFacts DEF HeadersOnEveryAttempt

\* What a list returns was served for the merchant its last request named.
LEMMA MerchantKept == ApiCallIInv => ListsAskedMerchant
  <1> SUFFICES ASSUME ApiCallIInv, NEW c \in Calls,
                      Lists(c), result[c].kind = "ok", c \notin raced
               PROVE  served[c].merchant = made[c].merchant
    BY DEF ListsAskedMerchant
  <1>1. Says(c, result[c]) /\ result[c].status < 400
    BY DEF ApiCallIInv, CallFits, Answered, Lists
  <1>2. result[c].status \notin 400 .. 599
    BY <1>1 DEF ApiCallIInv, ApiCallTypeOK, ClientTypeOK, Outcomes
  <1>3. served[c] # NotServed
    BY <1>1, <1>2, Zenon DEF Says
  <1>4. wire[c] # NoWire /\ served[c].merchant = wire[c].merchant
    BY <1>3, Zenon DEF ApiCallIInv, CallFits, ServedAsSent
  <1>5. wire[c].merchant = made[c].merchant
    BY <1>4, SentFacts, Zenon DEF SentAsBuilt
  <1> QED
    BY <1>4, <1>5

LEMMA AnswerRow ==
    ASSUME NEW op \in DOMAIN RequestTable, NEW s \in DOMAIN Operations[op].replies
    PROVE  /\ s \in Nat /\ Operations[op].replies[s] \in STRING
           /\ Operations[op].replies[s] # NoContent =>
                s \in DOMAIN ParserTable[op]
                /\ ParserTable[op][s] = Operations[op].replies[s]
  BY AnswersAssumption

LEMMA ErrorRow ==
    ASSUME NEW op \in DOMAIN RequestTable, NEW s \in DOMAIN ParserTable[op],
           s \in 400 .. 599
    PROVE  ParserTable[op][s] = "Error"
  BY AnswersAssumption

LEMMA MethodRow ==
    ASSUME NEW name \in DOMAIN MethodTable,
           NEW s \in DOMAIN Operations[MethodTable[name].op].replies
    PROVE  LET schema == Operations[MethodTable[name].op].replies[s] IN
           \/ MethodTable[name].out = schema
           \/ /\ schema = "PaymentSessionOrIntent"
              /\ MethodTable[name].out = "PaymentSession"
              /\ name \in {"CreatePaymentSession", "GetPaymentSession"}
  BY AnswersAssumption

\* No method decodes what is at the end of a detour.
LEMMA DetourRow ==
    ASSUME NEW op, NEW id, NEW o, <<op, id, o>> \in Detours
    PROVE  /\ o \in DOMAIN RequestTable
           /\ \A name \in DOMAIN MethodTable :
                MethodTable[name].op = op =>
                  \A s \in DOMAIN Operations[o].replies :
                    (Operations[o].replies[s] \in Arrays)
                      # (MethodTable[name].out \in Arrays)
  <1> PICK d \in Detours : d = <<op, id, o>>
    OBVIOUS
  <1>1. d[1] = op /\ d[3] = o
    OBVIOUS
  <1> QED
    BY <1>1, DetoursAssumption, Zenon

\* What was served is an operation of the description.
LEMMA ReachedRow ==
    ASSUME NEW c \in Calls, NEW o, Reaches(c, o), OpOf(c) \in DOMAIN RequestTable
    PROVE  o \in DOMAIN RequestTable /\ o # "none"
  <1>1. "none" \notin DOMAIN RequestTable
    BY BuildersAssumption
  <1>2. o \in DOMAIN RequestTable
    BY DetourRow, Zenon DEF Reaches
  <1> QED
    BY <1>1, <1>2, Zenon

LEMMA ReturnedMeant ==
    ASSUME ApiCallIInv, NEW c \in Calls, result[c].kind = "ok"
    PROVE  Meant(c) /\ Says(c, result[c]) /\ OpOf(c) \in DOMAIN RequestTable
  <1>1. result[c] # Plain("none")
    BY DEF Plain
  <1>2. pc[c] = "returned"
    BY <1>1 DEF ApiCallIInv, CallFits, Answered
  <1> QED
    BY <1>2 DEF ApiCallIInv, CallFits, Answered, Meant

LEMMA DecodedFacts == ApiCallIInv => DecodedAsSent
  <1> SUFFICES ASSUME ApiCallIInv, NEW c \in Calls,
                      Typed(c), result[c].kind = "ok"
               PROVE  \/ OutOf(c) = served[c].schema
                      \/ /\ served[c].schema = "PaymentSessionOrIntent"
                         /\ OutOf(c) = "PaymentSession"
                         /\ served[c].intent =>
                              made[c].name \in {"CreatePaymentSession",
                                               "GetPaymentSession"}
    BY DEF DecodedAsSent
  <1>1. Meant(c) /\ Says(c, result[c]) /\ result[c].status < 400 /\ ~Unfit(c, OutOf(c))
    BY ReturnedMeant, Zenon DEF ApiCallIInv, CallFits, Answered
  <1>2. result[c].status \notin 400 .. 599
    BY <1>1 DEF ApiCallIInv, ApiCallTypeOK, ClientTypeOK, Outcomes
  <1>5. /\ served[c] # NotServed
        /\ result[c].status \in DOMAIN Operations[served[c].op].replies
        /\ served[c].schema = Operations[served[c].op].replies[result[c].status]
    BY <1>1, <1>2, Zenon DEF Says
  <1>4. made[c].name \in DOMAIN MethodTable /\ OpOf(c) = MethodTable[made[c].name].op
    BY <1>1, Zenon DEF Meant, OpOf
  <1>6. served[c].op = OpOf(c)
    <2>1. Reaches(c, served[c].op)
      BY <1>5, Zenon DEF ApiCallIInv, CallFits, ServedAsSent
    <2>2. ASSUME <<OpOf(c), made[c].id, served[c].op>> \in Detours
          PROVE  FALSE
      <3>1. (served[c].schema \in Arrays) # (OutOf(c) \in Arrays)
        BY <1>4, <1>5, <2>2, DetourRow, Zenon DEF OutOf
      <3> QED
        BY <1>1, <3>1, Zenon DEF Unfit
    <2> QED
      BY <2>1, <2>2, Zenon DEF Reaches
  <1>3. /\ result[c].status \in DOMAIN Operations[OpOf(c)].replies
        /\ served[c].schema = Operations[OpOf(c)].replies[result[c].status]
    BY <1>5, <1>6, Zenon
  <1> PICK name \in DOMAIN MethodTable : name = made[c].name
    BY <1>4
  <1> PICK s \in DOMAIN Operations[MethodTable[name].op].replies :
          s = result[c].status
    BY <1>3, <1>4
  <1> QED
    BY <1>3, <1>4, MethodRow DEF OutOf

LEMMA ParserFacts == ApiCallIInv => ParsersAgree
  <1> SUFFICES ASSUME ApiCallIInv, NEW c \in Calls, result[c].kind = "ok",
                      served[c].op \in {OpOf(c), "none"}
               PROVE  LET found == Slot(OpOf(c), result[c].status,
                                        result[c].id # 0 \/ result[c].code # 0)
                      IN  IF result[c].id # 0 THEN found = served[c].schema
                          ELSE IF result[c].code # 0 THEN found = "Error"
                          ELSE found = "none"
    BY DEF ParsersAgree
  <1>1. OpOf(c) \in DOMAIN RequestTable /\ Says(c, result[c])
    BY ReturnedMeant
  <1>2. CASE result[c].id # 0
    <2>3. /\ served[c] # NotServed
          /\ result[c].status \in DOMAIN Operations[served[c].op].replies
          /\ served[c].schema = Operations[served[c].op].replies[result[c].status]
          /\ served[c].schema # NoContent
      BY <1>1, <1>2, Zenon DEF Says
    <2>4. Reaches(c, served[c].op)
      BY <2>3, Zenon DEF ApiCallIInv, CallFits, ServedAsSent
    <2>5. served[c].op = OpOf(c)
      BY <1>1, <2>4, ReachedRow, Zenon
    <2>1. /\ result[c].status \in DOMAIN Operations[OpOf(c)].replies
          /\ served[c].schema = Operations[OpOf(c)].replies[result[c].status]
          /\ served[c].schema # NoContent
      BY <2>3, <2>5, Zenon
    <2>2. /\ result[c].status \in DOMAIN ParserTable[OpOf(c)]
          /\ ParserTable[OpOf(c)][result[c].status] = served[c].schema
      BY <1>1, <2>1, AnswerRow
    <2> QED
      BY <1>2, <2>2 DEF Slot
  <1>3. CASE result[c].id = 0 /\ result[c].code # 0
    <2>1. result[c].status \in 400 .. 599
      BY <1>1, <1>3, Zenon DEF Says
    <2> QED
      BY <1>1, <1>3, <2>1, ErrorRow DEF Slot
  <1>4. CASE result[c].id = 0 /\ result[c].code = 0
    BY <1>4 DEF Slot
  <1> QED
    BY <1>2, <1>3, <1>4

-----------------------------------------------------------------------------
(* ApiCall: the initial state, and what a step leaves alone.               *)

LEMMA ApiCallTypes ==
    /\ NoCall \in Asked
    /\ NoWire \in Wires
    /\ NotServed \in Answers
    /\ Plain("none") \in Outcomes
    /\ NoReply \in Replies
  <1>1. NoCall \in Asked
    BY DEF NoCall, Asked
  <1>2. NoWire \in Wires
    BY LiteralsAssumption DEF NoWire, Wires, SomeMerchant
  <1>3. NotServed \in Answers
    BY LiteralsAssumption DEF NotServed, Answers, SomeMerchant
  <1> QED
    BY <1>1, <1>2, <1>3, PlainType DEF Kinds, NoReply, Replies

LEMMA InitApiCallIInv == ApiCallInit => ApiCallIInv
  <1> SUFFICES ASSUME ApiCallInit
               PROVE  ApiCallIInv
    OBVIOUS
  <1>1. 0 \in Attempts
    BY AttemptsAssumption DEF Attempts
  <1>2. ApiCallTypeOK
    BY <1>1, ApiCallTypes DEF ApiCallInit, ClientInit, ApiCallTypeOK, ClientTypeOK
  <1>3. ASSUME NEW c \in Calls
        PROVE  CallFits(c)
    <2>1. /\ pc[c] = "idle" /\ wire[c] = NoWire /\ served[c] = NotServed
          /\ reply[c] = NoReply /\ result[c] = Plain("none")
      BY DEF ApiCallInit, ClientInit
    <2>2. Plain("none").kind # "ok"
      BY DEF Plain
    <2> QED
      BY <2>1, <2>2 DEF CallFits, OwnsParams, Answered
  <1> QED
    BY <1>2, <1>3 DEF ApiCallIInv

\* How a call was made is fixed, and with it all that is computed from it.
LEMMA SameCall ==
    ASSUME NEW c \in Calls, made'[c] = made[c]
    PROVE  /\ Typed(c)' <=> Typed(c)
           /\ OpOf(c)' = OpOf(c)
           /\ Lists(c)' <=> Lists(c)
           /\ Meant(c)' <=> Meant(c)
           /\ Query(c)' = Query(c)
           /\ BuiltHeaders(c)' = BuiltHeaders(c)
           /\ ApplyEditors(c)' = ApplyEditors(c)
           /\ Below(c)' = Below(c)
           /\ \A o : Reaches(c, o)' <=> Reaches(c, o)
  <1>1. (Typed(c)' <=> Typed(c)) /\ OpOf(c)' = OpOf(c)
    BY DEF Typed, OpOf
  <1>2. (Lists(c)' <=> Lists(c)) /\ (Meant(c)' <=> Meant(c))
    BY <1>1 DEF Lists, Meant
  <1>3. /\ Query(c)' = Query(c)
        /\ BuiltHeaders(c)' = BuiltHeaders(c)
        /\ ApplyEditors(c)' = ApplyEditors(c)
    BY <1>1 DEF Query, BuiltHeaders, ApplyEditors
  <1>4. Below(c)' = Below(c) /\ \A o : Reaches(c, o)' <=> Reaches(c, o)
    BY <1>1 DEF Below, Reaches
  <1> QED
    BY <1>1, <1>2, <1>3, <1>4

LEMMA SentStays ==
    ASSUME NEW c \in Calls, made'[c] = made[c], baseURL' = baseURL,
           wire'[c] = wire[c], raced \subseteq raced', SentAsBuilt(c)
    PROVE  SentAsBuilt(c)'
  BY SameCall DEF SentAsBuilt

LEMMA ServedStays ==
    ASSUME NEW c \in Calls, made'[c] = made[c], wire'[c] = wire[c],
           served'[c] = served[c]
    PROVE  /\ ServedAsSent(c) => ServedAsSent(c)'
           /\ \A r : Says(c, r) => Says(c, r)'
           /\ Unfit(c, OutOf(c))' <=> Unfit(c, OutOf(c))
  <1>1. ServedAsSent(c) => ServedAsSent(c)'
    BY SameCall DEF ServedAsSent
  <1>2. ASSUME NEW r, Says(c, r)
        PROVE  Says(c, r)'
    BY <1>2, Zenon DEF Says
  <1>3. Unfit(c, OutOf(c))' <=> Unfit(c, OutOf(c))
    BY DEF Unfit, OutOf
  <1> QED
    BY <1>1, <1>2, <1>3

\* A call that a step does not concern.
LEMMA OtherCallFits ==
    ASSUME ApiCallIInv, NEW c \in Calls,
           made'[c] = made[c], baseURL' = baseURL, wire'[c] = wire[c],
           served'[c] = served[c], raced \subseteq raced', OwnsParams(c)',
           pc'[c] = pc[c], result'[c] = result[c], reply'[c] = reply[c]
    PROVE  CallFits(c)'
  <1>0. CallFits(c)
    BY DEF ApiCallIInv
  <1>1. /\ pc'[c] # "idle" => Meant(c)'
        /\ pc'[c] = "wait" => wire'[c] # NoWire
        /\ wire'[c] # NoWire => pc'[c] # "idle" /\ SentAsBuilt(c)'
    BY <1>0, SameCall, SentStays DEF CallFits
  <1>2. served'[c] # NotServed => ServedAsSent(c)'
    BY <1>0, ServedStays DEF CallFits
  <1>3. Answered(c)'
    <2>1. /\ reply[c] # NoReply => Says(c, reply[c])
          /\ result[c].kind = "ok" => Says(c, result[c])
      BY <1>0, Zenon DEF CallFits, Answered
    <2>2. /\ Says(c, reply[c]) => Says(c, reply[c])'
          /\ Says(c, result[c]) => Says(c, result[c])'
      <3> PICK r, o : r = reply[c] /\ o = result[c]
        OBVIOUS
      <3>1. /\ Says(c, r) => Says(c, r)'
            /\ Says(c, o) => Says(c, o)'
        BY ServedStays
      <3>2. r = reply'[c] /\ o = result'[c]
        OBVIOUS
      <3> QED
        BY <3>1, <3>2
    <2> QED
      BY <1>0, <2>1, <2>2, SameCall, ServedStays DEF CallFits, Answered
  <1> QED
    BY <1>1, <1>2, <1>3 DEF CallFits

-----------------------------------------------------------------------------
(* ApiCall: the calls begin.                                               *)

LEMMA BeginKeeps ==
    ASSUME ApiCallIInv, NEW c \in Calls, NEW how \in Asked, Begin(c, how),
           shared' \in Merchants \cup {NoMerchant},
           raced \subseteq raced', raced' \subseteq Calls,
           Meant(c)',
           \A d \in Calls : OwnsParams(d)'
    PROVE  ApiCallIInv'
  <1> USE DEF Begin, Enter
  <1>0. /\ ApiCallTypeOK /\ ClientTypeOK
        /\ pc[c] = "idle" /\ pc' = [pc EXCEPT ![c] = "ready"]
        /\ made' = [made EXCEPT ![c] = how]
        /\ UNCHANGED <<attempt, ctx, lastErr, result, requests, reply,
                       baseURL, wire, served>>
    BY DEF ApiCallIInv, ApiCallTypeOK
  <1>1. ApiCallTypeOK'
    BY <1>0 DEF ApiCallTypeOK, ClientTypeOK
  <1>2. CallFits(c)'
    <2>1. /\ wire[c] = NoWire /\ served[c] = NotServed
          /\ reply[c] = NoReply /\ result[c] = Plain("none")
      BY <1>0, Zenon DEF ApiCallIInv, CallFits, Answered, ServedAsSent
    <2>2. pc'[c] = "ready"
      BY <1>0 DEF ApiCallTypeOK, ClientTypeOK
    <2>3. Plain("none").kind # "ok"
      BY DEF Plain
    <2> QED
      BY <1>0, <2>1, <2>2, <2>3 DEF CallFits, Answered
  <1>3. ASSUME NEW d \in Calls, d # c
        PROVE  CallFits(d)'
    <2>1. made'[d] = made[d] /\ pc'[d] = pc[d]
      BY <1>0, <1>3 DEF ApiCallTypeOK, ClientTypeOK
    <2> QED
      BY <1>0, <2>1, OtherCallFits
  <1> QED
    BY <1>1, <1>2, <1>3 DEF ApiCallIInv

\* Calls that share nothing: the struct and the races are as before.
LEMMA OwnsStays ==
    ASSUME ApiCallIInv, NEW c \in Calls, made'[c] = made[c],
           UNCHANGED <<shared, raced>>,
           pc'[c] \notin {"idle", "returned"} => pc[c] \notin {"idle", "returned"}
    PROVE  OwnsParams(c)'
  <1>1. OwnsParams(c)
    BY DEF ApiCallIInv, CallFits
  <1>2. Lists(c)' <=> Lists(c)
    BY SameCall
  <1> QED
    BY <1>1, <1>2 DEF OwnsParams

LEMMA LoneBeginKeeps ==
    ASSUME ApiCallIInv, NEW c \in Calls, NEW how \in Asked, Begin(c, how),
           UNCHANGED <<shared, raced>>, ~how.shares, Meant(c)'
    PROVE  ApiCallIInv'
  <1>0. /\ pc' = [pc EXCEPT ![c] = "ready"]
        /\ made' = [made EXCEPT ![c] = how]
        /\ made \in [Calls -> Asked]
        /\ DOMAIN pc = Calls
        /\ shared \in Merchants \cup {NoMerchant} /\ raced \subseteq Calls
    BY DEF Begin, Enter, ApiCallIInv, ApiCallTypeOK, ClientTypeOK
  <1>1. ASSUME NEW d \in Calls
        PROVE  OwnsParams(d)'
    <2>1. CASE d = c
      <3>1. made'[d].shares = how.shares
        BY <1>0, <2>1
      <3> QED
        BY <3>1 DEF OwnsParams
    <2>2. CASE d # c
      <3>1. made'[d] = made[d] /\ pc'[d] = pc[d]
        BY <1>0, <2>2, Zenon DEF Begin, Enter, ApiCallIInv, ApiCallTypeOK, ClientTypeOK
      <3> QED
        BY <3>1, OwnsStays
    <2> QED
      BY <2>1, <2>2
  <1> QED
    BY <1>0, <1>1, BeginKeeps

LEMMA StartTypedKeeps ==
    ASSUME ApiCallIInv, NEW c \in Calls, NEW name \in DOMAIN MethodTable,
           StartTyped(c, name)
    PROVE  ApiCallIInv'
  <1> DEFINE op == MethodTable[name].op
  <1>1. PICK id \in IdsFor(op), f \in Filters(op),
             h \in IF MethodTable[name].keyed THEN BOOLEAN ELSE {FALSE} :
          Begin(c, Plainly("typed", name, id, h, f))
    BY DEF StartTyped
  <1>2. /\ id \in Ids \cup {"none"} /\ f \in BOOLEAN /\ h \in BOOLEAN
        /\ UNCHANGED <<shared, raced>>
    BY <1>1 DEF IdsFor, Filters, StartTyped
  <1> DEFINE how == Plainly("typed", name, id, h, f)
  <1>3. how \in Asked
    BY <1>2 DEF Asked, Names, Plainly
  <1>4. Begin(c, how)
    BY <1>1
  <1>5. made'[c] = how
    BY <1>4 DEF Begin, ApiCallIInv, ApiCallTypeOK
  <1>6. op \in DOMAIN RequestTable
    BY BuildersAssumption
  <1>7. Meant(c)'
    BY <1>5, <1>6 DEF Meant, Typed, OpOf, Plainly
  <1>8. ~how.shares
    BY DEF Plainly
  <1> HIDE DEF how
  <1> QED
    BY <1>2, <1>3, <1>4, <1>7, <1>8, LoneBeginKeeps

LEMMA StartRawKeeps ==
    ASSUME ApiCallIInv, NEW c \in Calls, NEW op \in DOMAIN RequestTable,
           StartRaw(c, op)
    PROVE  ApiCallIInv'
  <1>1. PICK id \in IdsFor(op), f \in Filters(op),
             h \in IF RequestTable[op].header = "none" THEN {FALSE} ELSE BOOLEAN :
          Begin(c, Plainly("raw", op, id, h, f))
    BY DEF StartRaw
  <1>2. /\ id \in Ids \cup {"none"} /\ f \in BOOLEAN /\ h \in BOOLEAN
        /\ h => RequestTable[op].header # "none"
        /\ UNCHANGED <<shared, raced>>
    BY <1>1 DEF IdsFor, Filters, StartRaw
  <1> DEFINE how == Plainly("raw", op, id, h, f)
  <1>3. how \in Asked
    BY <1>2 DEF Asked, Names, Plainly
  <1>4. Begin(c, how)
    BY <1>1
  <1>5. made'[c] = how
    BY <1>4 DEF Begin, ApiCallIInv, ApiCallTypeOK
  <1>6. Meant(c)'
    BY <1>2, <1>5 DEF Meant, Typed, OpOf, Plainly
  <1>7. ~how.shares
    BY DEF Plainly
  <1> HIDE DEF how
  <1> QED
    BY <1>2, <1>3, <1>4, <1>6, <1>7, LoneBeginKeeps

\* Whoever writes the struct while others run with it races with all of them.
LEMMA StartListKeeps ==
    ASSUME ApiCallIInv, NEW c \in Calls, StartList(c)
    PROVE  ApiCallIInv'
  <1>1. PICK merchant \in Merchants, given \in BOOLEAN :
          /\ Begin(c, Listing(merchant, given, given))
          /\ shared' = IF given THEN merchant ELSE shared
          /\ raced' = raced \cup { d \in Calls : /\ given
                                                /\ made[d].shares
                                                /\ pc[d] # "returned" }
    BY DEF StartList
  <1> DEFINE how == Listing(merchant, given, given)
  <1>2. "ListCatalogProducts" \in DOMAIN MethodTable
        /\ MethodTable["ListCatalogProducts"].op = "ListCatalogProducts"
    BY ListAssumption
  <1>3. how \in Asked
    BY <1>2 DEF Asked, Names, Listing
  <1>4. Begin(c, how)
    BY <1>1
  <1>5. /\ made' = [made EXCEPT ![c] = how] /\ made \in [Calls -> Asked]
        /\ pc' = [pc EXCEPT ![c] = "ready"] /\ DOMAIN pc = Calls
        /\ shared \in Merchants \cup {NoMerchant} /\ raced \subseteq Calls
    BY <1>4 DEF Begin, Enter, ApiCallIInv, ApiCallTypeOK, ClientTypeOK
  <1>6. made'[c] = how
    BY <1>5
  <1>7. Meant(c)'
    BY <1>2, <1>6, ListAssumption, BuildersAssumption
       DEF Meant, Typed, OpOf, IdsFor, TakesId, Listing
  <1> HIDE DEF how
  <1>8. /\ shared' \in Merchants \cup {NoMerchant}
        /\ raced \subseteq raced' /\ raced' \subseteq Calls
    BY <1>1, <1>5
  <1>9. ASSUME NEW d \in Calls
        PROVE  OwnsParams(d)'
    <2>1. CASE d = c
      BY <1>1, <1>6, <2>1 DEF OwnsParams, how, Listing
    <2>2. CASE d # c
      <3>1. made'[d] = made[d] /\ pc'[d] = pc[d] /\ (Lists(d)' <=> Lists(d))
        BY <1>5, <2>2, SameCall
      <3>2. OwnsParams(d)
        BY DEF ApiCallIInv, CallFits
      <3>3. CASE given
        BY <1>1, <3>1, <3>3 DEF OwnsParams
      <3>4. CASE ~given
        BY <1>1, <1>8, <3>1, <3>2, <3>4 DEF OwnsParams
      <3> QED
        BY <3>3, <3>4
    <2> QED
      BY <2>1, <2>2
  <1> QED
    BY <1>3, <1>4, <1>7, <1>8, <1>9, BeginKeeps

-----------------------------------------------------------------------------
(* ApiCall: the exchanges.                                                 *)

LEMMA BuiltFacts ==
    ASSUME ApiCallIInv, NEW c \in Calls, Meant(c), NEW w \in Built(c)
    PROVE  /\ w \in Wires /\ w # NoWire
           /\ w.method = RequestTable[OpOf(c)].method
           /\ w.path = baseURL.path \o Below(c)
           /\ w.query = Query(c)
           /\ w.headers = BuiltHeaders(c) \cup ApplyEditors(c)
           /\ w.merchant \in MerchantRead(c)
  <1> DEFINE op == OpOf(c)
             p == Fill(RequestTable[op].path, made[c].id)
  <1>1. /\ op \in DOMAIN RequestTable
        /\ made[c] \in Asked
        /\ baseURL \in BaseURLs
        /\ shared \in Merchants \cup {NoMerchant}
    BY DEF Meant, ApiCallIInv, ApiCallTypeOK
  <1>2. made[c].id \in Ids \cup {"none"}
        /\ made[c].merchant \in Merchants \cup {NoMerchant}
    BY <1>1 DEF Asked
  <1>3. Below(c) \in Seq(STRING)
    BY <1>1, <1>2, IdsAreTexts, DotsOfFill, DotsRemoved, Zenon DEF Below
  <1>4. baseURL.path \in Seq(STRING) /\ baseURL.slash \in BOOLEAN
    BY <1>1, BaseURLsAssumption
  <1>5. Resolve(Server(baseURL), p) = baseURL.path \o Below(c)
    <2>1. Server(baseURL).slash /\ Server(baseURL).path = baseURL.path
      BY <1>1, BaseURLsAssumption DEF Server
    <2> QED
      BY <2>1, Zenon DEF Resolve, Below
  <1>6. PICK m \in MerchantRead(c) :
          w = [method |-> RequestTable[op].method,
               path |-> Resolve(Server(baseURL), p),
               query |-> Query(c),
               headers |-> BuiltHeaders(c) \cup ApplyEditors(c),
               merchant |-> m]
    BY DEF Built
  <1>7. m \in SomeMerchant
    BY <1>1, <1>2 DEF MerchantRead, SomeMerchant
  <1>8. Query(c) \subseteq STRING
    <2>1. "merchant_id" \in STRING /\ RequestTable[op].query \subseteq STRING
      BY <1>1, RowFacts, LiteralsAssumption
    <2> QED
      BY <2>1 DEF Query
  <1>9. BuiltHeaders(c) \cup ApplyEditors(c) \subseteq STRING
    <2>1. /\ RequestTable[op].header \in {"none", "Idempotency-Key", "Authorization"}
          /\ {"none", "X-API-Key", "Accept", "Content-Type", "Idempotency-Key",
              "Authorization"} \subseteq STRING
      BY <1>1, RowFacts, LiteralsAssumption
    <2> QED
      BY <2>1 DEF BuiltHeaders, ApplyEditors
  <1>10. RequestTable[op].method \in STRING /\ baseURL.path \o Below(c) \in Seq(STRING)
    BY <1>1, <1>3, <1>4, RowFacts, JoinedPath
  <1>11. "Accept" \in BuiltHeaders(c) \cup ApplyEditors(c)
    BY DEF ApplyEditors
  <1> DEFINE hs == BuiltHeaders(c) \cup ApplyEditors(c)
             q == Query(c)
             path == baseURL.path \o Below(c)
             method == RequestTable[op].method
  <1>12. w = [method |-> method, path |-> path, query |-> q, headers |-> hs,
              merchant |-> m]
    BY <1>5, <1>6, Zenon
  <1> HIDE DEF hs, q, path, method
  <1>13. w \in Wires
    BY <1>7, <1>8, <1>9, <1>10, <1>12 DEF Wires, hs, q, path, method
  <1>14. w # NoWire
    <2>1. w.headers = hs /\ NoWire.headers = {}
      BY <1>12 DEF NoWire
    <2> QED
      BY <1>11, <2>1 DEF hs
  <1> QED
    BY <1>12, <1>13, <1>14 DEF hs, q, path, method

LEMMA ExchangeKeeps ==
    ASSUME ApiCallIInv, NEW c \in Calls, Exchange(c)
    PROVE  ApiCallIInv'
  <1>1. PICK w \in Built(c) : wire' = [wire EXCEPT ![c] = w]
    BY DEF Exchange
  <1>2. /\ pc[c] = "ready" /\ pc' = [pc EXCEPT ![c] = "wait"]
        /\ served' = [served EXCEPT ![c] = NotServed]
        /\ UNCHANGED <<result, reply, made, baseURL, shared, raced>>
        /\ ApiCallTypeOK /\ ClientTypeOK /\ CallFits(c)
    BY DEF Exchange, Send, ApiCallIInv, ApiCallTypeOK
  <1>3. Meant(c)
    BY <1>2 DEF CallFits
  <1>4. w \in Wires /\ w # NoWire
    BY <1>3, BuiltFacts
  <1>5. ApiCallTypeOK'
    <2>1. ClientTypeOK'
      BY <1>2, FALSE \in BOOLEAN, ClientStepType DEF Exchange, Client
    <2> QED
      BY <1>1, <1>2, <1>4, <2>1, ApiCallTypes DEF ApiCallTypeOK
  <1>6. ASSUME NEW d \in Calls
        PROVE  made'[d] = made[d] /\ OwnsParams(d)'
    <2>1. pc'[d] \notin {"idle", "returned"} => pc[d] \notin {"idle", "returned"}
      BY <1>2 DEF ClientTypeOK
    <2> QED
      BY <1>2, <2>1, OwnsStays
  <1>7. CallFits(c)'
    <2>1. wire'[c] = w /\ served'[c] = NotServed /\ pc'[c] = "wait"
      BY <1>1, <1>2 DEF ApiCallTypeOK, ClientTypeOK
    <2>2. Meant(c)' /\ OwnsParams(c)'
      BY <1>3, <1>6, SameCall
    <2>3. SentAsBuilt(c)'
      <3>1. /\ w.method = RequestTable[OpOf(c)].method
            /\ w.path = baseURL.path \o Below(c)
            /\ w.query = Query(c)
            /\ w.headers = BuiltHeaders(c) \cup ApplyEditors(c)
            /\ w.merchant \in MerchantRead(c)
        BY <1>3, BuiltFacts
      <3>2. Lists(c) /\ c \notin raced => w.merchant = made[c].merchant
        BY <1>2, <3>1 DEF CallFits, OwnsParams, MerchantRead
      <3> QED
        BY <1>2, <1>6, <2>1, <3>1, <3>2, SameCall DEF SentAsBuilt
    <2>4. reply'[c] = NoReply /\ result'[c] = Plain("none")
      BY <1>2 DEF CallFits, Answered
    <2>5. Plain("none").kind # "ok"
      BY DEF Plain
    <2> QED
      BY <1>4, <2>1, <2>2, <2>3, <2>4, <2>5 DEF CallFits, Answered
  <1>8. ASSUME NEW d \in Calls, d # c
        PROVE  CallFits(d)'
    <2>1. /\ pc'[d] = pc[d] /\ wire'[d] = wire[d] /\ served'[d] = served[d]
      BY <1>1, <1>2, <1>8 DEF ApiCallTypeOK, ClientTypeOK
    <2> QED
      BY <1>2, <1>6, <2>1, OtherCallFits
  <1> QED
    BY <1>5, <1>7, <1>8 DEF ApiCallIInv

-----------------------------------------------------------------------------
(* ApiCall: the attempts end.                                              *)

\* A call whose exchange ends, or that waits for another attempt.
LEMMA AttemptKeeps ==
    ASSUME ApiCallIInv, NEW c \in Calls, ClientTypeOK',
           UNCHANGED <<made, baseURL, shared, raced, wire, served>>,
           \A d \in Calls \ {c} :
             pc'[d] = pc[d] /\ result'[d] = result[d] /\ reply'[d] = reply[d],
           pc[c] \notin {"idle", "returned"}, pc'[c] \notin {"idle", "wait"},
           reply'[c] = NoReply,
           pc'[c] # "returned" => result'[c] = result[c],
           result'[c].kind = "ok" =>
             /\ Says(c, result'[c])
             /\ Typed(c) => result'[c].status < 400 /\ ~Unfit(c, OutOf(c))
    PROVE  ApiCallIInv'
  <1>1. ApiCallTypeOK'
    BY DEF ApiCallIInv, ApiCallTypeOK
  <1>2. ASSUME NEW d \in Calls
        PROVE  OwnsParams(d)'
    <2>1. pc'[d] \notin {"idle", "returned"} => pc[d] \notin {"idle", "returned"}
      OBVIOUS
    <2> QED
      BY <2>1, OwnsStays
  <1>3. CallFits(c)'
    <2>1. CallFits(c)
      BY DEF ApiCallIInv
    <2>2. Meant(c)' /\ (wire'[c] # NoWire => SentAsBuilt(c)')
      BY <2>1, SameCall, SentStays DEF CallFits
    <2>3. served'[c] # NotServed => ServedAsSent(c)'
      BY <2>1, ServedStays DEF CallFits
    <2>4. Answered(c)'
      <3>1. pc'[c] # "returned" => result'[c] = Plain("none")
        BY <2>1 DEF CallFits, Answered
      <3>2. ASSUME result'[c].kind = "ok"
            PROVE  /\ Says(c, result[c])'
                   /\ Typed(c)' => result'[c].status < 400 /\ ~Unfit(c, OutOf(c))'
        <4> PICK o : o = result'[c]
          OBVIOUS
        <4>1. Says(c, o)
          BY <3>2
        <4>2. Says(c, o)'
          BY <4>1, ServedStays
        <4>3. Says(c, result[c])'
          BY <4>2 DEF Says
        <4>4. (Typed(c)' <=> Typed(c)) /\ (Unfit(c, OutOf(c))' <=> Unfit(c, OutOf(c)))
          BY SameCall, ServedStays
        <4> QED
          BY <3>2, <4>3, <4>4
      <3> QED
        BY <3>1, <3>2 DEF Answered
    <2> QED
      BY <1>2, <2>2, <2>3, <2>4 DEF CallFits
  <1>4. ASSUME NEW d \in Calls, d # c
        PROVE  CallFits(d)'
    BY <1>2, <1>4, OtherCallFits
  <1> QED
    BY <1>1, <1>3, <1>4 DEF ApiCallIInv

\* A call that is not waiting has no response that waits to be read.
LEMMA NothingToRead ==
    ASSUME ApiCallIInv, NEW c \in Calls, pc[c] # "wait"
    PROVE  reply[c] = NoReply
  BY DEF ApiCallIInv, CallFits, Answered

\* An attempt that ends returns or waits for another.
LEMMA AttemptEnds ==
    ASSUME ClientTypeOK, NEW c \in Calls, NEW w \in BOOLEAN, Client(c, w), ~Send(c)
    PROVE  pc'[c] # "wait"
  <1> USE DEF ClientTypeOK
  <1>1. CASE SendCancelled(c)
    BY <1>1 DEF SendCancelled, FailAttempt, Return
  <1>2. CASE Abort(c)
    BY <1>2 DEF Abort, FailAttempt, Return
  <1>3. CASE Receive(c, w)
    BY <1>3 DEF Receive, FailAttempt, Return
  <1>4. CASE BackoffElapsed(c)
    BY <1>4 DEF BackoffElapsed
  <1>5. CASE BackoffCancelled(c)
    BY <1>5 DEF BackoffCancelled, Return
  <1> QED
    BY <1>1, <1>2, <1>3, <1>4, <1>5 DEF Client

\* doJSON returns a resource only from a response that has one.
LEMMA DecodedSays ==
    ASSUME NEW c \in Calls, NEW r \in Replies, Says(c, r),
           NEW w \in BOOLEAN, NEW intact \in BOOLEAN,
           DecodeResponse(r, w, intact).kind = "ok"
    PROVE  /\ Says(c, DecodeResponse(r, w, intact))
           /\ DecodeResponse(r, w, intact).status < 400
  <1> DEFINE o == DecodeResponse(r, w, intact)
  <1>1. /\ r.status < 400 /\ o.status = r.status
        /\ o.code = 0 /\ o.id \in {0, r.id}
    BY DEF DecodeResponse, Replies
  <1>2. r.status \notin 400 .. 599
    BY <1>1 DEF Replies
  <1> HIDE DEF o
  <1>3. Says(c, o)
    BY <1>1, <1>2 DEF Says
  <1> QED
    BY <1>1, <1>3 DEF o

\* What fits the type of the method, or is dropped, is all it returns.
LEMMA OnlyReceivedIsOk ==
    ASSUME ApiCallIInv, NEW c \in Calls, TypedStep(c), result'[c].kind = "ok"
    PROVE  ~Unfit(c, OutOf(c))
  <1>1. /\ result \in [Calls -> Outcomes] /\ lastErr \in [Calls -> Outcomes]
        /\ pc[c] # "returned" => result[c] = Plain("none")
    BY DEF ApiCallIInv, ApiCallTypeOK, ClientTypeOK, CallFits, Answered
  <1>2. /\ Plain("none").kind # "ok" /\ Plain("transport").kind # "ok"
        /\ Plain("cancelled").kind # "ok"
    BY DEF Plain
  <1>3. ~SendCancelled(c)
    BY <1>1, <1>2 DEF SendCancelled, FailAttempt, Return
  <1>4. ~Abort(c)
    BY <1>1, <1>2 DEF Abort, FailAttempt, Return
  <1>5. ~BackoffElapsed(c)
    BY <1>1, <1>2 DEF BackoffElapsed
  <1>6. ~BackoffCancelled(c)
    BY <1>1, <1>2 DEF BackoffCancelled, Return
  <1> QED
    BY <1>3, <1>4, <1>5, <1>6, Zenon DEF TypedStep, ReceiveInto

LEMMA TypedStepKeeps ==
    ASSUME ApiCallIInv, NEW c \in Calls, TypedStep(c)
    PROVE  ApiCallIInv'
  <1> DEFINE w == OutOf(c) # "none"
  <1>1. w \in BOOLEAN /\ Client(c, w) /\ ~Send(c) /\ ClientTypeOK
    <2>1. ~Send(c)
      BY DEF TypedStep, ReceiveInto, Send, SendCancelled, Abort, Receive, BackoffElapsed,
             BackoffCancelled, ApiCallIInv, ApiCallTypeOK, ClientTypeOK, FailAttempt,
             Return, Hangup
    <2> QED
      BY <2>1 DEF TypedStep, ReceiveInto, Client, ApiCallIInv, ApiCallTypeOK
  <1> HIDE DEF w
  <1>2. ClientTypeOK' /\ ClientFrame(c)
    BY <1>1, ClientStepType, ClientStepFrame
  <1>3. pc'[c] # "wait"
    BY <1>1, AttemptEnds
  <1>4. reply'[c] = NoReply
    BY <1>2, NothingToRead DEF ClientFrame
  <1>5. ASSUME result'[c].kind = "ok"
        PROVE  Says(c, result'[c]) /\ result'[c].status < 400
    <2>1. Plain("none").kind # "ok" /\ Plain("transport").kind # "ok"
          /\ Plain("cancelled").kind # "ok"
      BY DEF Plain
    <2>2. pc'[c] = "returned"
      BY <1>2, <1>5, <2>1 DEF ClientFrame, ApiCallIInv, CallFits, Answered
    <2>3. /\ reply[c] # NoReply
          /\ \E intact \in BOOLEAN : result'[c] = DecodeResponse(reply[c], w, intact)
      BY <1>1, <1>5, <2>1, <2>2, ClientReturns
    <2>4. PICK intact \in BOOLEAN : result'[c] = DecodeResponse(reply[c], w, intact)
      BY <2>3
    <2> PICK r : r = reply[c]
      OBVIOUS
    <2>5. r \in Replies
      BY <1>1 DEF ClientTypeOK
    <2>6. Says(c, r)
      BY <2>3 DEF ApiCallIInv, CallFits, Answered
    <2>7. DecodeResponse(r, w, intact).kind = "ok"
      BY <1>5, <2>4
    <2> QED
      BY <1>1, <2>4, <2>5, <2>6, <2>7, DecodedSays
  <1>6. /\ \A d \in Calls \ {c} :
             pc'[d] = pc[d] /\ result'[d] = result[d] /\ reply'[d] = reply[d]
        /\ pc[c] \notin {"idle", "returned"} /\ pc'[c] \notin {"idle", "wait"}
        /\ pc'[c] # "returned" => result'[c] = result[c]
    BY <1>2, <1>3 DEF ClientFrame
  <1>7. UNCHANGED <<made, baseURL, shared, raced, wire, served>>
    BY DEF TypedStep
  <1>8. result'[c].kind = "ok" => ~Unfit(c, OutOf(c))
    BY OnlyReceivedIsOk
  <1> QED
    BY <1>2, <1>4, <1>5, <1>6, <1>7, <1>8, AttemptKeeps

\* The parser of the generated client copies what the response says.
LEMMA RawStepKeeps ==
    ASSUME ApiCallIInv, NEW c \in Calls, RawStep(c)
    PROVE  ApiCallIInv'
  <1>1. /\ ClientTypeOK /\ ~Typed(c)
        /\ UNCHANGED <<made, baseURL, shared, raced, wire, served>>
    BY DEF RawStep, Typed, ApiCallIInv, ApiCallTypeOK
  <1>2. PICK o :
          /\ pc[c] \in {"ready", "wait"} /\ Return(c, o) /\ Hangup(c)
          /\ UNCHANGED <<ctx, requests>>
          /\ o \in Outcomes
          /\ o.kind = "ok" => Says(c, o)
    <2>1. CASE RawFails(c)
      <3>1. Plain("transport") \in Outcomes /\ Plain("transport").kind # "ok"
        BY PlainType DEF Kinds, Plain
      <3> QED
        BY <2>1, <3>1 DEF RawFails
    <2>2. CASE RawParsed(c)
      <3> DEFINE o == [kind |-> "ok", status |-> reply[c].status,
                       code |-> reply[c].code, id |-> reply[c].id]
      <3>1. reply[c] \in Replies
        BY <1>1 DEF ClientTypeOK
      <3>2. o \in Outcomes
        BY <3>1 DEF Replies, Outcomes, Kinds
      <3>3. Says(c, reply[c])
        BY <2>2 DEF RawParsed, ApiCallIInv, CallFits, Answered
      <3>4. o.status = reply[c].status /\ o.code = reply[c].code /\ o.id = reply[c].id
        OBVIOUS
      <3>5. Return(c, o) /\ Hangup(c) /\ pc[c] = "wait" /\ UNCHANGED <<ctx, requests>>
        BY <2>2 DEF RawParsed
      <3> HIDE DEF o
      <3>6. Says(c, o)
        BY <3>3, <3>4 DEF Says
      <3> QED
        BY <3>2, <3>5, <3>6
    <2> QED
      BY <2>1, <2>2 DEF RawStep
  <1>3. /\ pc' = [pc EXCEPT ![c] = "returned"]
        /\ result' = [result EXCEPT ![c] = o]
        /\ lastErr' = [lastErr EXCEPT ![c] = Plain("none")]
        /\ reply' = [reply EXCEPT ![c] = NoReply]
        /\ UNCHANGED <<attempt, ctx, requests>>
    BY <1>2 DEF Return, Hangup
  <1>4. ClientTypeOK'
    BY <1>1, <1>2, <1>3, ApiCallTypes DEF ClientTypeOK
  <1>5. /\ pc'[c] = "returned" /\ result'[c] = o /\ reply'[c] = NoReply
        /\ \A d \in Calls \ {c} :
             pc'[d] = pc[d] /\ result'[d] = result[d] /\ reply'[d] = reply[d]
    BY <1>1, <1>3 DEF ClientTypeOK
  <1> QED
    BY <1>1, <1>2, <1>4, <1>5, AttemptKeeps

\* The end of a context touches no request and no answer.
LEMMA CancelApiCallKeeps ==
    ASSUME ApiCallIInv, NEW c \in Calls, CancelApiCall(c)
    PROVE  ApiCallIInv'
  <1>1. /\ UNCHANGED <<pc, result, reply, made, baseURL, shared, raced, wire, served>>
        /\ UNCHANGED <<attempt, lastErr, requests>>
        /\ ctx' = [ctx EXCEPT ![c] = "done"]
    BY DEF CancelApiCall, Cancel
  <1>2. ApiCallTypeOK'
    BY <1>1 DEF ApiCallIInv, ApiCallTypeOK, ClientTypeOK
  <1>3. ASSUME NEW d \in Calls
        PROVE  CallFits(d)'
    <2>1. OwnsParams(d)'
      BY <1>1, OwnsStays
    <2> QED
      BY <1>1, <2>1, OtherCallFits
  <1> QED
    BY <1>2, <1>3 DEF ApiCallIInv

-----------------------------------------------------------------------------
(* ApiCall: the service answers.                                           *)

\* The answer of an operation goes to the call that asked for it.
LEMMA AnswerKeeps ==
    ASSUME ApiCallIInv, NEW m \in requests, NEW r \in Replies,
           Awaited(m), Answer(m, r), Says(m.call, r)',
           served' \in [Calls -> Answers],
           \A d \in Calls \ {m.call} : served'[d] = served[d],
           served'[m.call] # NotServed => ServedAsSent(m.call)',
           UNCHANGED <<pc, attempt, ctx, lastErr, result,
                       made, baseURL, shared, raced, wire>>
    PROVE  ApiCallIInv'
  <1> DEFINE c == m.call
  <1>1. /\ ApiCallTypeOK /\ ClientTypeOK
        /\ c \in Calls /\ pc[c] = "wait"
        /\ requests' = requests \ {m}
        /\ reply' = [reply EXCEPT ![c] = r]
    BY DEF ApiCallIInv, ApiCallTypeOK, ClientTypeOK, Requests, Awaited, Answer
  <1> HIDE DEF c
  <1>2. ApiCallTypeOK'
    BY <1>1 DEF ApiCallTypeOK, ClientTypeOK
  <1>3. ASSUME NEW d \in Calls
        PROVE  OwnsParams(d)'
    BY OwnsStays
  <1>4. CallFits(c)'
    <2>1. CallFits(c)
      BY <1>1 DEF ApiCallIInv
    <2>2. /\ Meant(c)' /\ wire'[c] # NoWire
          /\ pc'[c] # "idle" /\ SentAsBuilt(c)'
      BY <1>1, <2>1, SameCall, SentStays DEF CallFits
    <2>3. reply'[c] = r /\ pc'[c] = "wait" /\ result'[c] = Plain("none")
      BY <1>1, <2>1 DEF CallFits, Answered, ClientTypeOK
    <2>4. Plain("none").kind # "ok"
      BY DEF Plain
    <2>5. Answered(c)'
      <3>1. Says(c, reply[c])'
        BY <2>3 DEF c, Says
      <3> QED
        BY <2>3, <2>4, <3>1 DEF Answered
    <2>6. served'[c] # NotServed => ServedAsSent(c)'
      BY DEF c
    <2> QED
      BY <1>1, <1>3, <2>2, <2>5, <2>6 DEF CallFits
  <1>5. ASSUME NEW d \in Calls, d # c
        PROVE  CallFits(d)'
    <2>1. reply'[d] = reply[d] /\ served'[d] = served[d]
      BY <1>1, <1>5 DEF ClientTypeOK, c
    <2> QED
      BY <1>3, <2>1, OtherCallFits
  <1> QED
    BY <1>2, <1>4, <1>5 DEF ApiCallIInv

\* The service answers the operation it is asked for, as it describes it.
LEMMA FulfilKeeps ==
    ASSUME ApiCallIInv, NEW m \in requests, Awaited(m), Fulfil(m),
           UNCHANGED <<pc, attempt, ctx, lastErr, result,
                       made, baseURL, shared, raced, wire>>
    PROVE  ApiCallIInv'
  <1>1. PICK c \in Calls : c = m.call
    BY DEF ApiCallIInv, ApiCallTypeOK, ClientTypeOK, Requests
  <1>2. PICK o \in OperationsOf(wire[c]), intent \in BOOLEAN :
          \E s \in DOMAIN Operations[o].replies :
            /\ intent => Operations[o].replies[s] = "PaymentSessionOrIntent"
            /\ served' = [served EXCEPT ![c] =
                            [op |-> o, schema |-> Operations[o].replies[s],
                             intent |-> intent, merchant |-> wire[c].merchant]]
            /\ Answer(m, [status |-> s, code |-> 0,
                          id |-> IF Operations[o].replies[s] = NoContent
                                   THEN 0 ELSE 1])
    BY <1>1 DEF Fulfil
  <1>3. PICK s \in DOMAIN Operations[o].replies :
          /\ intent => Operations[o].replies[s] = "PaymentSessionOrIntent"
          /\ served' = [served EXCEPT ![c] =
                          [op |-> o, schema |-> Operations[o].replies[s],
                           intent |-> intent, merchant |-> wire[c].merchant]]
          /\ Answer(m, [status |-> s, code |-> 0,
                        id |-> IF Operations[o].replies[s] = NoContent
                                 THEN 0 ELSE 1])
    BY <1>2
  <1>4. wire[c] # NoWire
    BY <1>1 DEF Awaited, ApiCallIInv, CallFits
  <1>5. Reaches(c, o) /\ o \in DOMAIN RequestTable /\ o # "none"
    <2>1. OpOf(c) \in DOMAIN RequestTable
      BY <1>4, SentFacts
    <2>2. made[c].id \notin Odd => o = OpOf(c)
      BY <1>2, <1>4, SentFacts
    <2>3. made[c].id \in Odd => <<OpOf(c), made[c].id, o>> \in Detours
      BY <1>2, <1>4, SentFacts, Zenon
    <2>4. Reaches(c, o)
      BY <2>2, <2>3, Zenon DEF Reaches
    <2> QED
      BY <2>1, <2>4, ReachedRow, Zenon
  <1> PICK schema : schema = Operations[o].replies[s]
    OBVIOUS
  <1>6. s \in Nat /\ schema \in STRING
    BY <1>3, <1>5, AnswerRow
  <1>7. o \in DOMAIN Operations
    BY <1>5, RowFacts
  <1> DEFINE r == [status |-> s, code |-> 0,
                   id |-> IF schema = NoContent THEN 0 ELSE 1]
             a == [op |-> o, schema |-> schema, intent |-> intent,
                   merchant |-> wire[c].merchant]
  <1>8. /\ intent => schema = "PaymentSessionOrIntent"
        /\ served' = [served EXCEPT ![c] = a]
        /\ Answer(m, r)
    BY <1>3
  <1>9. r \in Replies
    BY <1>6 DEF Replies
  <1>10. a \in Answers
    <2>1. wire[c].merchant \in SomeMerchant
      BY DEF ApiCallIInv, ApiCallTypeOK, Wires
    <2> QED
      BY <1>6, <1>7, <2>1 DEF Answers
  <1>11. /\ a.op = o /\ a.schema = schema /\ a.intent = intent
         /\ a.merchant = wire[c].merchant
         /\ r.status = s /\ r.code = 0 /\ (r.id # 0 => schema # NoContent)
    OBVIOUS
  <1>12. a # NotServed
    BY <1>5, <1>11 DEF NotServed
  <1> HIDE DEF a, r
  <1>13. /\ served \in [Calls -> Answers] /\ served' \in [Calls -> Answers]
         /\ served'[c] = a
         /\ \A d \in Calls \ {c} : served'[d] = served[d]
    BY <1>8, <1>10 DEF ApiCallIInv, ApiCallTypeOK
  <1>14. Reaches(c, o)'
    BY <1>5, SameCall
  <1>15. Says(c, r)'
    BY <1>11, <1>12, <1>13 DEF Says
  <1>16. ServedAsSent(c)'
    BY <1>4, <1>8, <1>11, <1>13, <1>14, Zenon DEF ServedAsSent
  <1> QED
    BY <1>1, <1>8, <1>9, <1>13, <1>15, <1>16, AnswerKeeps

\* An answer that carries no resource says nothing of what was served.
LEMMA DenyKeeps ==
    ASSUME ApiCallIInv, NEW m \in requests, Awaited(m), Deny(m),
           UNCHANGED <<pc, attempt, ctx, lastErr, result,
                       made, baseURL, shared, raced, wire>>
    PROVE  ApiCallIInv'
  <1>1. PICK c \in Calls : c = m.call
    BY DEF ApiCallIInv, ApiCallTypeOK, ClientTypeOK, Requests
  <1>2. PICK s \in 400 .. 599 :
          Answer(m, [status |-> s, code |-> IF s < 500 THEN 1 ELSE 0, id |-> 0])
    <2>1. PICK s \in IF OperationsOf(wire[m.call]) = {} THEN {404} ELSE Refusals :
            Answer(m, [status |-> s, code |-> IF s < 500 THEN 1 ELSE 0, id |-> 0])
      BY DEF Deny
    <2>2. s \in 400 .. 599
      BY RefusalsAssumption
    <2> QED
      BY <2>1, <2>2
  <1> DEFINE r == [status |-> s, code |-> IF s < 500 THEN 1 ELSE 0, id |-> 0]
  <1>3. r \in Replies /\ r.status \in 400 .. 599 /\ r.id = 0
    BY DEF Replies
  <1>4. Answer(m, r)
    BY <1>2
  <1> HIDE DEF r
  <1>5. served' = served /\ served \in [Calls -> Answers]
    BY DEF Deny, ApiCallIInv, ApiCallTypeOK
  <1>6. Says(c, r)'
    BY <1>3 DEF Says
  <1>7. served'[c] # NotServed => ServedAsSent(c)'
    BY <1>5, ServedStays DEF ApiCallIInv, CallFits
  <1> QED
    BY <1>1, <1>3, <1>4, <1>5, <1>6, <1>7, AnswerKeeps

-----------------------------------------------------------------------------
(* ApiCall: the theorems.                                                  *)

LEMMA NextApiCallIInv == ApiCallIInv /\ [ApiCallNext]_apiCallVars => ApiCallIInv'
  <1> SUFFICES ASSUME ApiCallIInv, [ApiCallNext]_apiCallVars
               PROVE  ApiCallIInv'
    OBVIOUS
  <1>1. ASSUME NEW c \in Calls, NEW name \in DOMAIN MethodTable,
               StartTyped(c, name)
        PROVE  ApiCallIInv'
    BY <1>1, StartTypedKeeps
  <1>2. ASSUME NEW c \in Calls, StartList(c)
        PROVE  ApiCallIInv'
    BY <1>2, StartListKeeps
  <1>3. ASSUME NEW c \in Calls, NEW op \in DOMAIN RequestTable, StartRaw(c, op)
        PROVE  ApiCallIInv'
    BY <1>3, StartRawKeeps
  <1>4. ASSUME NEW c \in Calls, ApiCallStep(c)
        PROVE  ApiCallIInv'
    BY <1>4, ExchangeKeeps, TypedStepKeeps, RawStepKeeps DEF ApiCallStep
  <1>5. ASSUME NEW c \in Calls, CancelApiCall(c)
        PROVE  ApiCallIInv'
    BY <1>5, CancelApiCallKeeps
  <1>6. ASSUME NEW m \in requests, Serve(m)
        PROVE  ApiCallIInv'
    BY <1>6, FulfilKeeps, DenyKeeps DEF Serve
  <1>7. CASE UNCHANGED apiCallVars
    <2>1. ASSUME NEW c \in Calls
          PROVE  CallFits(c)'
      <3>1. OwnsParams(c)'
        BY <1>7, OwnsStays DEF apiCallVars, clientVars
      <3> QED
        BY <1>7, <3>1, OtherCallFits DEF apiCallVars, clientVars
    <2>2. ApiCallTypeOK'
      BY <1>7 DEF apiCallVars, clientVars, ApiCallIInv, ApiCallTypeOK, ClientTypeOK
    <2> QED
      BY <2>1, <2>2 DEF ApiCallIInv
  <1> QED
    BY <1>1, <1>2, <1>3, <1>4, <1>5, <1>6, <1>7, Zenon DEF ApiCallNext

\* The inductive invariant: what a call sent is what its builder makes of its
\* arguments and serverURL.Parse of that, and what it got answers the operation
\* meant, or the read at the end of a detour (ApiCallNext).
THEOREM ApiCallInvariance == ApiCallSpec => []ApiCallIInv
  BY InitApiCallIInv, NextApiCallIInv, PTL DEF ApiCallSpec

\* The variables of the calls keep to their values, for every set of
\* identifiers, merchants and base URLs (client.go, the generated client).
THEOREM ApiCallTypeCorrect == ApiCallSpec => []ApiCallTypeOK
  <1>1. ApiCallIInv => ApiCallTypeOK
    BY DEF ApiCallIInv
  <1> QED
    BY <1>1, ApiCallInvariance, PTL

\* Every request is for the operation its method stands for, with the
\* identifier whole, whatever text that is but for "", "." and "..", and with
\* the filters; with those three it asks for nothing the service knows, or
\* takes one of two detours from a read to another read (the New...Request
\* builders, serverURL.Parse, WithBaseURL).
THEOREM OperationsMeant == ApiCallSpec => []AsksForWhatWasMeant
  BY AskedFacts, ApiCallInvariance, PTL

\* The header a caller asked for is in every attempt of its call and in no
\* other request (applyEditors, toEditors).
THEOREM HeadersSent == ApiCallSpec => []HeadersOnEveryAttempt
  BY HeadersKept, ApiCallInvariance, PTL

\* A typed method decodes an answer into the type the service sent, but for
\* the two methods that drop the candidates of an intent (decodeResponse).
THEOREM AnswersDecoded == ApiCallSpec => []DecodedAsSent
  BY DecodedFacts, ApiCallInvariance, PTL

\* A parser of the generated client finds a resource, or an Error, exactly
\* when the service sent one (the Parse...Response functions).
THEOREM AnswersParsed == ApiCallSpec => []ParsersAgree
  BY ParserFacts, ApiCallInvariance, PTL

\* A page of ListCatalogProducts is of the merchant that was asked for, unless
\* another call wrote the shared struct meanwhile (ListCatalogProducts).
THEOREM MerchantsListed == ApiCallSpec => []ListsAskedMerchant
  BY MerchantKept, ApiCallInvariance, PTL
=============================================================================
