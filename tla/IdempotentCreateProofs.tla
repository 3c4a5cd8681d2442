----------------------- MODULE IdempotentCreateProofs -----------------------
(***************************************************************************)
(* Proofs about IdempotentCreate, for any calls, keys, payloads, refusals  *)
(* and number of attempts.                                                 *)
(***************************************************************************)
EXTENDS IdempotentCreate, DoJSONProofs

-----------------------------------------------------------------------------
(* The inductive invariant.                                                *)

\* A request in flight was sent by an attempt its call has reached.
SentRequests ==
    \A m \in requests :
        /\ pc[m.call] # "idle"
        /\ input[m.call] \in Inputs
        /\ m.n <= attempt[m.call]
        /\ m.n = attempt[m.call] => pc[m.call] \in {"wait", "returned"}

\* A resource was created by a request its call sent, from what the call was
\* made with; with no key, that request is not in flight any more.
CreatedFromRequests ==
    \A i \in DOMAIN created :
        LET r == created[i]
        IN  /\ pc[r.call] # "idle"
            /\ r.n <= attempt[r.call]
            /\ r.n = attempt[r.call] => pc[r.call] \in {"wait", "returned"}
            /\ r.key = input[r.call].key
            /\ r.payload = input[r.call].payload
            /\ r.key = NoKey => [call |-> r.call, n |-> r.n] \notin requests

\* The records of the service and its resources agree, both ways.
RecordsAgree ==
    /\ \A k \in Keys : records[k] # 0 => created[records[k]].key = k
    /\ \A i \in DOMAIN created :
         created[i].key # NoKey => records[created[i].key] = i

UnkeyedOncePerAttempt ==
    \A i, j \in DOMAIN created :
        /\ created[i].call = created[j].call
        /\ created[i].n = created[j].n
        /\ created[i].key = NoKey
        => i = j

NothingCreatedBy(c, n) ==
    \A i \in DOMAIN created : created[i].call # c \/ created[i].n # n

\* Only a call that waits has a response to read.
RepliesAwaited == \A c \in Calls : reply[c] # NoReply => pc[c] = "wait"

\* A response waiting to be read tells the truth about its exchange.
TrueReply(c, r) ==
    /\ r.status \in {201, 409} \cup Refusals
    /\ r.status = 201 <=> r.id # 0
    /\ r.id # 0 => OwnResource(c, r.id)
    /\ r.status = 409 /\ r.code = CodeConflict => KeyOfAnotherPayload(c)
    /\ input[c].key = NoKey => [call |-> c, n |-> attempt[c]] \notin requests
    /\ input[c].key = NoKey /\ r.status # 201 /\ r.status < 500 =>
         NothingCreatedBy(c, attempt[c])

RepliesTrue ==
    \A c \in Calls : reply[c] # NoReply => TrueReply(c, reply[c])

\* So does what a call returned.
TrueResult(c, o) ==
    /\ o.kind = "ok" => OwnResource(c, o.id)
    /\ IsIdempotencyConflict(o) => KeyOfAnotherPayload(c)
    /\ o.kind = "api" /\ o.status < 500 /\ input[c].key = NoKey =>
         /\ NothingCreatedBy(c, attempt[c])
         /\ [call |-> c, n |-> attempt[c]] \notin requests

ResultsTrue == \A c \in Calls : TrueResult(c, result[c])

NotYet == \A c \in Calls : pc[c] # "returned" => result[c] = Plain("none")

Started ==
    \A c \in Calls :
        IF pc[c] = "idle"
          THEN input[c] = Nothing /\ attempt[c] = 0
          ELSE input[c] \in Inputs

IInv ==
    /\ TypeOK
    /\ Started
    /\ SentRequests
    /\ CreatedFromRequests
    /\ RecordsAgree
    /\ UnkeyedOncePerAttempt
    /\ RepliesAwaited
    /\ RepliesTrue
    /\ NotYet
    /\ ResultsTrue

-----------------------------------------------------------------------------
(* The invariant holds at first.                                           *)

LEMMA InitIInv == Init => IInv
  <1> SUFFICES ASSUME Init PROVE IInv
    OBVIOUS
  <1> USE DEF Init, ClientInit
  <1>1. TypeOK
    <2>1. Plain("none") \in Outcomes /\ NoReply \in Replies
      BY DEF Plain, Outcomes, Kinds, NoReply, Replies
    <2> QED
      BY <2>1, AttemptsAssumption DEF TypeOK, ClientTypeOK, Attempts, Requests
  <1>2. Started /\ SentRequests /\ CreatedFromRequests /\ RecordsAgree
        /\ UnkeyedOncePerAttempt
    BY DEF Started, SentRequests, CreatedFromRequests, RecordsAgree,
           UnkeyedOncePerAttempt
  <1>3. RepliesAwaited /\ RepliesTrue /\ NotYet /\ ResultsTrue
    BY DEF RepliesAwaited, RepliesTrue, NotYet, ResultsTrue, TrueResult,
           IsIdempotencyConflict, Plain
  <1> QED
    BY <1>1, <1>2, <1>3 DEF IInv

-----------------------------------------------------------------------------
(* Every step keeps it: the caller's steps.                                *)

LEMMA StartIInv ==
    ASSUME IInv, NEW c \in Calls, NEW k \in Keys \cup {NoKey},
           NEW p \in Payloads, Start(c, k, p)
    PROVE  IInv'
  <1> USE DEF IInv, TypeOK, ClientTypeOK, Start, Enter, serverVars
  <1>0. [key |-> k, payload |-> p] \in Inputs /\ input[c] = Nothing /\ attempt[c] = 0
    BY DEF Inputs, Started
  <1>1. TypeOK'
    BY <1>0
  <1>2. Started'
    BY <1>0 DEF Started
  <1>3. SentRequests'
    BY <1>0 DEF SentRequests, Requests
  <1>4. CreatedFromRequests'
    BY <1>0 DEF CreatedFromRequests, Resources
  <1>5. RecordsAgree' /\ UnkeyedOncePerAttempt'
    BY DEF RecordsAgree, UnkeyedOncePerAttempt
  <1>6. RepliesAwaited' /\ NotYet'
    BY DEF RepliesAwaited, NotYet
  <1>7. RepliesTrue'
    <2> SUFFICES ASSUME NEW d \in Calls, reply'[d] # NoReply
                 PROVE  TrueReply(d, reply[d])'
      BY DEF RepliesTrue
    <2>1. reply[d] # NoReply /\ d # c
      BY DEF RepliesAwaited
    <2>2. TrueReply(d, reply[d])
      BY <2>1 DEF RepliesTrue
    <2>3. input'[d] = input[d] /\ reply'[d] = reply[d]
      BY <2>1
    <2> QED
      BY <2>2, <2>3 DEF TrueReply, OwnResource, KeyOfAnotherPayload, NothingCreatedBy
  <1>8. ResultsTrue'
    <2> SUFFICES ASSUME NEW d \in Calls
                 PROVE  TrueResult(d, result[d])'
      BY DEF ResultsTrue
    <2>1. CASE d = c
      BY <2>1 DEF NotYet, TrueResult, IsIdempotencyConflict, Plain
    <2>2. CASE d # c
      <3>1. TrueResult(d, result[d]) /\ input'[d] = input[d]
        BY <2>2 DEF ResultsTrue
      <3> QED
        BY <3>1 DEF TrueResult, OwnResource, KeyOfAnotherPayload, NothingCreatedBy
    <2> QED
      BY <2>1, <2>2
  <1> QED
    BY <1>1, <1>2, <1>3, <1>4, <1>5, <1>6, <1>7, <1>8

LEMMA CancelIInv ==
    ASSUME IInv, NEW c \in Calls, CancelCtx(c)
    PROVE  IInv'
  <1> USE DEF IInv, CancelCtx, Cancel
  <1>1. TypeOK'
    BY DEF TypeOK, ClientTypeOK
  <1>2. Started' /\ SentRequests' /\ CreatedFromRequests' /\ RecordsAgree'
        /\ UnkeyedOncePerAttempt'
    BY DEF Started, SentRequests, CreatedFromRequests, RecordsAgree,
           UnkeyedOncePerAttempt
  <1>3. RepliesAwaited' /\ NotYet'
    BY DEF RepliesAwaited, NotYet
  <1>4. RepliesTrue' /\ ResultsTrue'
    BY DEF RepliesTrue, ResultsTrue, TrueReply, TrueResult, OwnResource,
           KeyOfAnotherPayload, NothingCreatedBy
  <1> QED
    BY <1>1, <1>2, <1>3, <1>4

-----------------------------------------------------------------------------
(* The steps of the loop.                                                  *)

LEMMA ClientIInv ==
    ASSUME IInv, NEW c \in Calls, ClientStep(c)
    PROVE  IInv'
  <1> USE DEF IInv, ClientStep
  <1>1. ClientTypeOK' /\ ClientTypeOK
    BY ClientStepType DEF TypeOK
  <1>2. ClientFrame(c)
    BY <1>1, ClientStepFrame
  <1>3. UNCHANGED <<input, created, records>>
    OBVIOUS
  <1>4. pc'[c] # "returned" => result'[c] = result[c]
    BY <1>2 DEF ClientFrame
  <1>5. TypeOK'
    BY <1>1, <1>3 DEF TypeOK
  <1>6. Started'
    BY <1>1, <1>2, <1>3 DEF Started, ClientFrame, ClientTypeOK
  <1>7. SentRequests'
    <2> SUFFICES ASSUME NEW m \in requests'
                 PROVE  /\ pc'[m.call] # "idle"
                        /\ input[m.call] \in Inputs
                        /\ m.n <= attempt'[m.call]
                        /\ m.n = attempt'[m.call] =>
                             pc'[m.call] \in {"wait", "returned"}
      BY <1>3 DEF SentRequests
    <2>1. CASE m \in requests
      <3>1. /\ m.call \in Calls /\ m.n \in Nat /\ attempt[m.call] \in Nat
            /\ pc[m.call] # "idle" /\ input[m.call] \in Inputs
            /\ m.n <= attempt[m.call]
            /\ m.n = attempt[m.call] => pc[m.call] \in {"wait", "returned"}
        BY <1>1, <2>1 DEF SentRequests, ClientTypeOK, Requests, Attempts
      <3> QED
        BY <1>2, <3>1 DEF ClientFrame
    <2>2. CASE m \notin requests
      BY <1>1, <1>2, <2>2 DEF Started, ClientFrame, ClientTypeOK, Attempts
    <2> QED
      BY <2>1, <2>2
  <1>8. CreatedFromRequests'
    <2> SUFFICES ASSUME NEW i \in DOMAIN created
                 PROVE  LET r == created[i]
                        IN  /\ pc'[r.call] # "idle"
                            /\ r.n <= attempt'[r.call]
                            /\ r.n = attempt'[r.call] =>
                                 pc'[r.call] \in {"wait", "returned"}
                            /\ r.key = input[r.call].key
                            /\ r.payload = input[r.call].payload
                            /\ r.key = NoKey =>
                                 [call |-> r.call, n |-> r.n] \notin requests'
      BY <1>3 DEF CreatedFromRequests
    <2> DEFINE r == created[i]
    <2>1. r \in Resources
      BY DEF TypeOK
    <2>2. /\ pc[r.call] # "idle"
          /\ r.n <= attempt[r.call]
          /\ r.n = attempt[r.call] => pc[r.call] \in {"wait", "returned"}
          /\ r.key = input[r.call].key
          /\ r.payload = input[r.call].payload
          /\ r.key = NoKey => [call |-> r.call, n |-> r.n] \notin requests
      BY DEF CreatedFromRequests
    <2> HIDE DEF r
    <2>3. r.call \in Calls /\ r.n \in Nat
      BY <2>1 DEF Resources, Attempts
    <2>4. attempt[r.call] \in Nat
      BY <1>1, <2>3 DEF ClientTypeOK, Attempts
    <2>5. /\ pc'[r.call] # "idle"
          /\ r.n <= attempt'[r.call]
          /\ r.n = attempt'[r.call] => pc'[r.call] \in {"wait", "returned"}
      BY <1>2, <2>2, <2>3, <2>4 DEF ClientFrame
    <2>6. r.key = NoKey => [call |-> r.call, n |-> r.n] \notin requests'
      BY <1>2, <2>2, <2>3, <2>4 DEF ClientFrame
    <2> QED
      BY <2>2, <2>5, <2>6 DEF r
  <1>9. RecordsAgree' /\ UnkeyedOncePerAttempt'
    BY <1>3 DEF RecordsAgree, UnkeyedOncePerAttempt
  <1>10. RepliesAwaited' /\ NotYet'
    <2>1. RepliesAwaited'
      BY <1>1, <1>2 DEF RepliesAwaited, ClientFrame, ClientTypeOK
    <2>2. NotYet'
      BY <1>2, <1>4 DEF NotYet, ClientFrame
    <2> QED
      BY <2>1, <2>2
  <1>11. RepliesTrue'
    <2> SUFFICES ASSUME NEW d \in Calls, reply'[d] # NoReply
                 PROVE  TrueReply(d, reply[d])'
      BY DEF RepliesTrue
    <2>1. reply[d] # NoReply /\ reply'[d] = reply[d]
      BY <1>2 DEF ClientFrame
    <2>2. pc[d] = "wait" /\ pc'[d] = "wait"
      BY <1>10, <2>1 DEF RepliesAwaited
    <2>3. attempt'[d] = attempt[d]
      BY <1>2, <2>2 DEF ClientFrame
    <2>4. [call |-> d, n |-> attempt[d]] \in requests' =>
            [call |-> d, n |-> attempt[d]] \in requests
      BY <1>2, <2>2 DEF ClientFrame
    <2>5. TrueReply(d, reply[d])
      BY <2>1 DEF RepliesTrue
    <2> QED
      BY <1>3, <2>1, <2>3, <2>4, <2>5
         DEF TrueReply, OwnResource, KeyOfAnotherPayload, NothingCreatedBy
  <1>12. ResultsTrue'
    <2> SUFFICES ASSUME NEW d \in Calls
                 PROVE  TrueResult(d, result[d])'
      BY DEF ResultsTrue
    <2>1. CASE pc'[d] # "returned"
      BY <1>10, <2>1 DEF NotYet, TrueResult, IsIdempotencyConflict, Plain
    <2>2. CASE pc'[d] = "returned" /\ d # c
      <3>1. result'[d] = result[d] /\ attempt'[d] = attempt[d]
        BY <1>2, <2>2 DEF ClientFrame
      <3>2. [call |-> d, n |-> attempt[d]] \in requests' =>
              [call |-> d, n |-> attempt[d]] \in requests
        BY <1>2, <2>2 DEF ClientFrame
      <3>3. TrueResult(d, result[d])
        BY DEF ResultsTrue
      <3> QED
        BY <1>3, <3>1, <3>2, <3>3
           DEF TrueResult, OwnResource, KeyOfAnotherPayload, NothingCreatedBy
    <2>3. CASE pc'[c] = "returned" /\ d = c
      <3>1. CASE result'[c] \in {Plain("transport"), Plain("cancelled")}
        BY <2>3, <3>1 DEF Plain, TrueResult, IsIdempotencyConflict
      <3>2. CASE /\ pc[c] = "wait" /\ reply[c] # NoReply
                 /\ attempt'[c] = attempt[c]
                 /\ \E intact \in BOOLEAN :
                      result'[c] = DecodeResponse(reply[c], TRUE, intact)
        <4>1. PICK intact \in BOOLEAN :
                result'[c] = DecodeResponse(reply[c], TRUE, intact)
          BY <3>2
        <4>2. TrueReply(c, reply[c])
          BY <3>2 DEF RepliesTrue
        <4>3. requests' = requests /\ attempt'[c] = attempt[c]
          BY <1>2, <2>3, <3>2 DEF ClientFrame
        <4>4. reply[c] \in Replies
          BY <1>1 DEF ClientTypeOK
        <4>5. TrueResult(c, result'[c])
          BY <4>1, <4>2, <4>4, RefusalsAssumption
             DEF DecodeResponse, TrueReply, TrueResult, IsIdempotencyConflict,
                 Replies, CodeConflict
        <4> QED
          BY <1>3, <2>3, <4>3, <4>5
             DEF TrueResult, OwnResource, KeyOfAnotherPayload, NothingCreatedBy
      <3> QED
        BY <1>1, <2>3, <3>1, <3>2, ClientReturns
    <2> QED
      BY <2>1, <2>2, <2>3
  <1> QED
    BY <1>5, <1>6, <1>7, <1>8, <1>9, <1>10, <1>11, <1>12

-----------------------------------------------------------------------------
(* The steps of the service.                                               *)

\* What the service does with request m, whichever way it goes: resources
\* and records only grow, by what m asked, and one answer at most goes back.
Serves(m, R) ==
    /\ UNCHANGED <<pc, attempt, ctx, lastErr, result, input>>
    /\ requests' \subseteq requests
    /\ reply' \in [Calls -> Replies]
    /\ \A d \in Calls :
         \/ reply'[d] = reply[d]
         \/ d = m.call /\ Awaited(m) /\ m \notin requests' /\ reply'[d] \in R
    /\ \A i \in DOMAIN created : i \in DOMAIN created' /\ created'[i] = created[i]
    /\ \A i \in DOMAIN created' \ DOMAIN created :
         created'[i].call = m.call /\ created'[i].n = m.n
    /\ \A k \in Keys : records[k] # 0 => records'[k] = records[k]

LEMMA GatewayTypes == \A g \in GatewayErrors : g \in Replies /\ g.status \in Refusals
                                               /\ g.status >= 500 /\ g.id = 0
                                               /\ g.code = OtherCode
  <1> SUFFICES ASSUME NEW s \in Refusals, s >= 500
               PROVE  LET g == [status |-> s, code |-> OtherCode, id |-> 0]
                      IN  /\ g \in Replies /\ g.status \in Refusals
                          /\ g.status >= 500 /\ g.id = 0 /\ g.code = OtherCode
    BY DEF GatewayErrors
  <1>1. s \in Nat
    BY RefusalsAssumption
  <1> QED
    BY <1>1 DEF Replies, OtherCode

LEMMA AnswerEffect ==
    ASSUME IInv, NEW m \in requests, NEW r \in Replies, Answer(m, r)
    PROVE  /\ requests' = requests \ {m}
           /\ reply' \in [Calls -> Replies]
           /\ \A d \in Calls : \/ reply'[d] = reply[d]
                               \/ d = m.call /\ Awaited(m) /\ reply'[d] = r
  BY DEF Answer, IInv, TypeOK, ClientTypeOK, Requests

LEMMA RespondEffect ==
    ASSUME IInv, NEW m \in requests, NEW r \in Replies, Respond(m, r)
    PROVE  /\ requests' \subseteq requests
           /\ IdempotencyHeader(m) = NoKey => requests' = requests \ {m}
           /\ reply' \in [Calls -> Replies]
           /\ \A d \in Calls :
                \/ reply'[d] = reply[d]
                \/ /\ d = m.call /\ Awaited(m) /\ m \notin requests'
                   /\ reply'[d] \in {r} \cup GatewayErrors
  <1>1. CASE UNCHANGED <<requests, reply>> /\ IdempotencyHeader(m) # NoKey
    BY <1>1 DEF IInv, TypeOK, ClientTypeOK
  <1>2. CASE \E a \in {r} \cup GatewayErrors : Answer(m, a)
    <2>1. PICK a \in {r} \cup GatewayErrors : Answer(m, a)
      BY <1>2
    <2>2. a \in Replies
      BY GatewayTypes
    <2> QED
      BY <2>1, <2>2, AnswerEffect
  <1> QED
    BY <1>1, <1>2 DEF Respond

\* What was true of a response or of a result stays true.
LEMMA ServesStable ==
    ASSUME IInv, NEW m \in requests, NEW R, Serves(m, R), NEW d \in Calls
    PROVE  /\ \A i : OwnResource(d, i) => OwnResource(d, i)'
           /\ KeyOfAnotherPayload(d) => KeyOfAnotherPayload(d)'
           /\ \A r : TrueReply(d, r) => TrueReply(d, r)'
           /\ TrueResult(d, result[d]) => TrueResult(d, result[d])'
  <1> USE DEF Serves
  <1>1. \A i : OwnResource(d, i) => OwnResource(d, i)'
    BY DEF OwnResource
  <1>2. KeyOfAnotherPayload(d) => KeyOfAnotherPayload(d)'
    <2> SUFFICES ASSUME KeyOfAnotherPayload(d) PROVE KeyOfAnotherPayload(d)'
      OBVIOUS
    <2>1. input[d].key \in Keys /\ records[input[d].key] \in DOMAIN created
      BY DEF KeyOfAnotherPayload, IInv, TypeOK
    <2> QED
      BY <2>1 DEF KeyOfAnotherPayload
  <1>3. /\ NothingCreatedBy(d, attempt[d])
        /\ [call |-> d, n |-> attempt[d]] \notin requests
        => NothingCreatedBy(d, attempt[d])'
    <2> SUFFICES ASSUME NothingCreatedBy(d, attempt[d]),
                        [call |-> d, n |-> attempt[d]] \notin requests,
                        NEW i \in DOMAIN created'
                 PROVE  created'[i].call # d \/ created'[i].n # attempt[d]
      BY DEF NothingCreatedBy
    <2>1. m = [call |-> m.call, n |-> m.n]
      BY DEF IInv, TypeOK, ClientTypeOK, Requests
    <2>2. CASE i \in DOMAIN created
      BY <2>2 DEF NothingCreatedBy
    <2>3. CASE i \notin DOMAIN created
      BY <2>1, <2>3
    <2> QED
      BY <2>2, <2>3
  <1>4. \A r : TrueReply(d, r) => TrueReply(d, r)'
    BY <1>1, <1>2, <1>3 DEF TrueReply
  <1>5. TrueResult(d, result[d]) => TrueResult(d, result[d])'
    BY <1>1, <1>2, <1>3 DEF TrueResult
  <1> QED
    BY <1>1, <1>2, <1>4, <1>5

\* The parts of the invariant a served request leaves alone, given that the
\* new responses are true.
LEMMA ServesKeeps ==
    ASSUME IInv, NEW m \in requests, NEW R, Serves(m, R),
           \A r \in R : Awaited(m) /\ m \notin requests' => TrueReply(m.call, r)'
    PROVE  ClientTypeOK' /\ Started' /\ SentRequests' /\ RepliesAwaited'
           /\ RepliesTrue' /\ NotYet' /\ ResultsTrue'
  <1> USE DEF IInv, Serves
  <1>1. ClientTypeOK'
    BY DEF TypeOK, ClientTypeOK
  <1>2. Started' /\ SentRequests' /\ NotYet'
    BY DEF Started, SentRequests, NotYet
  <1>3. RepliesAwaited'
    BY DEF RepliesAwaited, Awaited
  <1>4. RepliesTrue'
    <2> SUFFICES ASSUME NEW d \in Calls, reply'[d] # NoReply
                 PROVE  TrueReply(d, reply[d])'
      BY DEF RepliesTrue
    <2>0. PICK r : r = reply'[d]
      OBVIOUS
    <2> SUFFICES TrueReply(d, r)'
      BY <2>0 DEF TrueReply
    <2>1. CASE r = reply[d]
      <3>1. TrueReply(d, reply[d])
        BY <2>0, <2>1 DEF RepliesTrue
      <3> QED
        BY <2>1, <3>1, ServesStable
    <2>2. CASE d = m.call /\ Awaited(m) /\ m \notin requests' /\ r \in R
      BY <2>2
    <2> QED
      BY <2>0, <2>1, <2>2
  <1>5. ResultsTrue'
    BY ServesStable DEF ResultsTrue
  <1> QED
    BY <1>1, <1>2, <1>3, <1>4, <1>5

LEMMA RequestFacts ==
    ASSUME IInv, NEW m \in requests
    PROVE  /\ m.call \in Calls /\ m.n \in Attempts
           /\ m = [call |-> m.call, n |-> m.n]
           /\ IdempotencyHeader(m) \in Keys \cup {NoKey}
           /\ Body(m) \in Payloads
           /\ IdempotencyHeader(m) # NoKey => IdempotencyHeader(m) \in Keys
           /\ Located(m) \in 0 .. Len(created)
           /\ Located(m) # 0 =>
                /\ IdempotencyHeader(m) \in Keys
                /\ Located(m) \in DOMAIN created
                /\ created[Located(m)].key = IdempotencyHeader(m)
  <1>1. m \in Requests /\ input[m.call] \in Inputs
    BY DEF IInv, TypeOK, ClientTypeOK, SentRequests
  <1>2. created \in Seq(Resources) /\ Len(created) \in Nat
    BY DEF IInv, TypeOK
  <1> QED
    BY <1>1, <1>2 DEF Requests, Inputs, IdempotencyHeader, Body, Located, IInv,
                      TypeOK, RecordsAgree

\* A gateway error claims nothing.
LEMMA GatewayTrue ==
    ASSUME IInv, NEW m \in requests, NEW g \in GatewayErrors, m \notin requests',
           Awaited(m), UNCHANGED <<attempt, input>>
    PROVE  TrueReply(m.call, g)'
  <1>1. g.status \in Refusals /\ g.id = 0 /\ g.status >= 500 /\ g.code = OtherCode
    BY GatewayTypes
  <1>2. g.code # CodeConflict /\ ~(g.status < 500)
    <2>1. g.status \in Int
      BY GatewayTypes DEF Replies
    <2> QED
      BY <1>1, <2>1 DEF OtherCode, CodeConflict
  <1>3. [call |-> m.call, n |-> attempt[m.call]] = m
    BY RequestFacts DEF Awaited
  <1> QED
    BY <1>1, <1>2, <1>3 DEF TrueReply

LEMMA UnchangedStore ==
    ASSUME IInv, NEW m \in requests, NEW r \in Replies,
           Respond(m, r) \/ Answer(m, r), UNCHANGED serverVars,
           UNCHANGED <<pc, attempt, ctx, lastErr, result, input>>,
           Awaited(m) /\ m \notin requests' => TrueReply(m.call, r)'
    PROVE  IInv'
  <1>1. Serves(m, {r} \cup GatewayErrors)
    BY RespondEffect, AnswerEffect DEF Serves, serverVars
  <1>2. \A a \in {r} \cup GatewayErrors :
          Awaited(m) /\ m \notin requests' => TrueReply(m.call, a)'
    BY GatewayTrue
  <1>3. ClientTypeOK' /\ Started' /\ SentRequests' /\ RepliesAwaited'
        /\ RepliesTrue' /\ NotYet' /\ ResultsTrue'
    BY <1>1, <1>2, ServesKeeps
  <1>4. TypeOK'
    BY <1>3 DEF IInv, TypeOK, serverVars
  <1>5. CreatedFromRequests' /\ RecordsAgree' /\ UnkeyedOncePerAttempt'
    BY <1>1 DEF IInv, CreatedFromRequests, RecordsAgree, UnkeyedOncePerAttempt,
                Serves, serverVars
  <1> QED
    BY <1>3, <1>4, <1>5 DEF IInv

LEMMA ServerIInv ==
    ASSUME IInv, NEW m \in requests, ServerStep(m)
    PROVE  IInv'
  <1> USE DEF ServerStep
  <1> DEFINE k == IdempotencyHeader(m)
  <1>1. CASE Create(m)
    <2>0. PICK r : r = [status |-> 201, code |-> OtherCode, id |-> Len(created) + 1]
      OBVIOUS
    <2> DEFINE e == [call |-> m.call, n |-> m.n, key |-> k, payload |-> Body(m)]
    <2>1. created \in Seq(Resources) /\ e \in Resources
      BY RequestFacts DEF IInv, TypeOK, Resources
    <2>2. created' = Append(created, e)
      BY <1>1 DEF Create
    <2>3. /\ created' \in Seq(Resources)
          /\ Len(created') = Len(created) + 1
          /\ DOMAIN created' = 1 .. Len(created) + 1
          /\ DOMAIN created = 1 .. Len(created)
          /\ Len(created) \in Nat
          /\ \A i \in DOMAIN created : created'[i] = created[i]
          /\ created'[Len(created) + 1] = e
      BY <2>1, <2>2, AppendFacts
    <2>4. r \in Replies /\ Respond(m, r)
      BY <1>1, <2>0, <2>3 DEF Create, Replies, OtherCode
    <2>5. records' = IF k = NoKey THEN records
                     ELSE [records EXCEPT ![k] = Len(created) + 1]
      BY <1>1 DEF Create
    <2>6. \A j \in Keys : records'[j] = IF j = k THEN Len(created) + 1 ELSE records[j]
      BY <2>5, KeysAssumption DEF IInv, TypeOK
    <2>7. k # NoKey => k \in Keys /\ records[k] = 0
      BY <1>1, RequestFacts DEF Create, Located
    <2>8. Serves(m, {r} \cup GatewayErrors)
      <3>1. /\ requests' \subseteq requests
            /\ reply' \in [Calls -> Replies]
            /\ \A d \in Calls :
                 \/ reply'[d] = reply[d]
                 \/ /\ d = m.call /\ Awaited(m) /\ m \notin requests'
                    /\ reply'[d] \in {r} \cup GatewayErrors
        BY <2>4, RespondEffect
      <3>2. \A i \in DOMAIN created' \ DOMAIN created : created'[i] = e
        BY <2>3
      <3>3. \A j \in Keys : records[j] # 0 => records'[j] = records[j]
        BY <2>6, <2>7, KeysAssumption
      <3> QED
        BY <2>3, <3>1, <3>2, <3>3 DEF Serves
    <2>9. ASSUME Awaited(m), m \notin requests'
          PROVE  TrueReply(m.call, r)'
      <3>1. [call |-> m.call, n |-> attempt[m.call]] = m
        BY <2>9, RequestFacts DEF Awaited
      <3>2. OwnResource(m.call, r.id)'
        BY <2>0, <2>3 DEF OwnResource, IdempotencyHeader, Body
      <3>3. r.status = 201 /\ r.id # 0 /\ m.call \in Calls
        BY <2>0, <2>3, RequestFacts DEF IInv, TypeOK
      <3> QED
        BY <2>9, <3>1, <3>2, <3>3 DEF TrueReply
    <2>10. ClientTypeOK' /\ Started' /\ SentRequests' /\ RepliesAwaited'
           /\ RepliesTrue' /\ NotYet' /\ ResultsTrue'
      <3>1. \A a \in {r} \cup GatewayErrors :
              Awaited(m) /\ m \notin requests' => TrueReply(m.call, a)'
        BY <2>9, GatewayTrue
      <3> QED
        BY <2>8, <3>1, ServesKeeps
    <2>11. TypeOK'
      <3>1. records' \in [Keys -> 0 .. Len(created')]
        BY <2>3, <2>5, <2>7 DEF IInv, TypeOK
      <3> QED
        BY <2>3, <2>10, <3>1 DEF IInv, TypeOK
    <2>12. CreatedFromRequests'
      <3> SUFFICES ASSUME NEW i \in DOMAIN created'
                   PROVE  LET q == created'[i]
                          IN  /\ pc[q.call] # "idle"
                              /\ q.n <= attempt[q.call]
                              /\ q.n = attempt[q.call] =>
                                   pc[q.call] \in {"wait", "returned"}
                              /\ q.key = input[q.call].key
                              /\ q.payload = input[q.call].payload
                              /\ q.key = NoKey =>
                                   [call |-> q.call, n |-> q.n] \notin requests'
        BY DEF CreatedFromRequests
      <3>1. CASE i \in DOMAIN created
        BY <2>3, <2>8, <3>1 DEF IInv, CreatedFromRequests, Serves
      <3>2. CASE i = Len(created) + 1
        <4>1. k = NoKey => m \notin requests'
          BY <2>4, RespondEffect
        <4> QED
          BY <2>3, <3>2, <4>1, RequestFacts
             DEF IInv, SentRequests, IdempotencyHeader, Body
      <3> QED
        BY <2>3, <3>1, <3>2
    <2>13. RecordsAgree'
      <3>1. ASSUME NEW j \in Keys, records'[j] # 0
            PROVE  created'[records'[j]].key = j
        <4>1. CASE j = k
          BY <2>3, <2>6, <4>1
        <4>2. CASE j # k
          <5>1. records[j] \in DOMAIN created /\ created[records[j]].key = j
            BY <2>3, <2>6, <3>1, <4>2 DEF IInv, TypeOK, RecordsAgree
          <5> QED
            BY <2>3, <2>6, <4>2, <5>1
        <4> QED
          BY <4>1, <4>2
      <3>2. ASSUME NEW i \in DOMAIN created', created'[i].key # NoKey
            PROVE  records'[created'[i].key] = i
        <4>1. CASE i \in DOMAIN created
          <5>0. created[i] \in Resources /\ created[i].key # NoKey
            BY <2>3, <3>2, <4>1 DEF IInv, TypeOK
          <5>1. created[i].key \in Keys
            BY <5>0 DEF Resources
          <5>2. records[created[i].key] = i
            BY <2>3, <3>2, <4>1 DEF IInv, RecordsAgree
          <5>3. created[i].key # k
            BY <2>3, <2>7, <4>1, <5>0, <5>2
          <5> QED
            BY <2>3, <2>6, <4>1, <5>1, <5>2, <5>3
        <4>2. CASE i = Len(created) + 1
          BY <2>3, <2>6, <2>7, <3>2, <4>2
        <4> QED
          BY <2>3, <4>1, <4>2
      <3> QED
        BY <3>1, <3>2 DEF RecordsAgree
    <2>14. UnkeyedOncePerAttempt'
      <3>1. \A i \in DOMAIN created : created[i].key = NoKey =>
              created[i].call # m.call \/ created[i].n # m.n
        BY RequestFacts DEF IInv, CreatedFromRequests
      <3>2. \A i \in DOMAIN created : created[i].call = m.call => created[i].key = k
        BY DEF IInv, CreatedFromRequests, IdempotencyHeader
      <3> QED
        BY <2>3, <3>1, <3>2 DEF IInv, UnkeyedOncePerAttempt
    <2> QED
      BY <2>10, <2>11, <2>12, <2>13, <2>14 DEF IInv
  <1>2. CASE Replay(m)
    <2>0. PICK r : r = [status |-> 201, code |-> OtherCode, id |-> Located(m)]
      OBVIOUS
    <2>1. r \in Replies /\ Respond(m, r) /\ UNCHANGED serverVars
      BY <1>2, <2>0, RequestFacts DEF Replay, Replies, OtherCode, IInv, TypeOK
    <2>2. ASSUME Awaited(m), m \notin requests'
          PROVE  TrueReply(m.call, r)'
      <3>1. OwnResource(m.call, r.id)'
        BY <1>2, <2>0, <2>1, RequestFacts, KeysAssumption
           DEF Replay, OwnResource, IdempotencyHeader, Body, serverVars
      <3>2. input[m.call].key # NoKey
        BY <1>2, RequestFacts, KeysAssumption DEF Replay, IdempotencyHeader
      <3>3. r.status = 201 /\ r.id # 0
        BY <1>2, <2>0 DEF Replay, Located
      <3> QED
        BY <3>1, <3>2, <3>3 DEF TrueReply
    <2> QED
      BY <2>1, <2>2, UnchangedStore
  <1>3. CASE Mismatch(m)
    <2> DEFINE r == [status |-> 409, code |-> CodeConflict, id |-> 0]
    <2>1. r \in Replies /\ Respond(m, r) /\ UNCHANGED serverVars
      BY <1>3 DEF Mismatch, Replies, CodeConflict
    <2>2. ASSUME Awaited(m), m \notin requests'
          PROVE  TrueReply(m.call, r)'
      <3>1. IdempotencyHeader(m) \in Keys /\ Located(m) # 0
            /\ Located(m) = records[IdempotencyHeader(m)]
        BY <1>3, RequestFacts, KeysAssumption DEF Mismatch, Located
      <3>2. KeyOfAnotherPayload(m.call)
        BY <1>3, <3>1 DEF Mismatch, KeyOfAnotherPayload, IdempotencyHeader, Body
      <3>3. KeyOfAnotherPayload(m.call)'
        BY <2>1, <3>2 DEF KeyOfAnotherPayload, serverVars
      <3>4. input[m.call].key # NoKey
        BY <3>1, KeysAssumption DEF IdempotencyHeader
      <3>5. r.status # 201 /\ r.id = 0
        OBVIOUS
      <3> QED
        BY <3>3, <3>4, <3>5 DEF TrueReply
    <2> QED
      BY <2>1, <2>2, UnchangedStore
  <1>4. CASE Refuse(m)
    <2>1. PICK s \in Refusals :
            Answer(m, [status |-> s, code |-> OtherCode, id |-> 0])
      BY <1>4 DEF Refuse
    <2> DEFINE r == [status |-> s, code |-> OtherCode, id |-> 0]
    <2>2. r \in Replies /\ UNCHANGED serverVars /\ Answer(m, r)
      BY <1>4, <2>1, RefusalsAssumption DEF Refuse, Replies, OtherCode
    <2>3. ASSUME Awaited(m), m \notin requests'
          PROVE  TrueReply(m.call, r)'
      <3>1. [call |-> m.call, n |-> attempt[m.call]] = m
        BY <2>3, RequestFacts DEF Awaited
      <3>2. input[m.call].key = NoKey => NothingCreatedBy(m.call, attempt[m.call])
        BY <3>1, RequestFacts DEF NothingCreatedBy, IInv, CreatedFromRequests
      <3>3. r.status # 201 /\ r.id = 0
        BY RefusalsAssumption
      <3> QED
        BY <2>2, <2>3, <3>1, <3>2, <3>3
           DEF TrueReply, NothingCreatedBy, serverVars, OtherCode, CodeConflict
    <2> QED
      BY <2>2, <2>3, UnchangedStore
  <1> QED
    BY <1>1, <1>2, <1>3, <1>4 DEF Handle

-----------------------------------------------------------------------------
(* The theorems.                                                           *)

LEMMA NextIInv == IInv /\ [Next]_vars => IInv'
  <1> SUFFICES ASSUME IInv, [Next]_vars PROVE IInv'
    OBVIOUS
  <1>1. CASE UNCHANGED vars
    BY <1>1 DEF vars, clientVars, IInv, TypeOK, ClientTypeOK, Started,
         SentRequests, CreatedFromRequests, RecordsAgree, UnkeyedOncePerAttempt,
         RepliesAwaited, RepliesTrue, NotYet, ResultsTrue, TrueReply, TrueResult,
         OwnResource, KeyOfAnotherPayload, NothingCreatedBy
  <1>2. ASSUME NEW c \in Calls, NEW k \in Keys \cup {NoKey}, NEW p \in Payloads,
               Start(c, k, p)
        PROVE  IInv'
    BY <1>2, StartIInv
  <1>3. ASSUME NEW c \in Calls, ClientStep(c) PROVE IInv'
    BY <1>3, ClientIInv
  <1>4. ASSUME NEW c \in Calls, CancelCtx(c) PROVE IInv'
    BY <1>4, CancelIInv
  <1>5. ASSUME NEW m \in requests, ServerStep(m) PROVE IInv'
    BY <1>5, ServerIInv
  <1> QED
    BY <1>1, <1>2, <1>3, <1>4, <1>5 DEF Next

\* The invariant of the calls, the exchanges in flight and the service.
THEOREM Invariance == Spec => []IInv
  <1>1. Init => IInv
    BY InitIInv
  <1>2. IInv /\ [Next]_vars => IInv'
    BY NextIInv
  <1> QED
    BY <1>1, <1>2, PTL DEF Spec

\* Every variable keeps its type.
THEOREM TypeCorrect == Spec => []TypeOK
  <1>1. IInv => TypeOK
    BY DEF IInv
  <1> QED
    BY <1>1, Invariance, PTL

\* Under a key there is one resource, however many calls and attempts sent it:
\* every attempt repeats the key of its call, so two resources would both be
\* the one the service recorded under it.
THEOREM KeyedOnce == Spec => []OneResourcePerKey
  <1>1. IInv => OneResourcePerKey
    <2> SUFFICES ASSUME IInv, NEW i \in DOMAIN created, NEW j \in DOMAIN created,
                        KeyAsked(i) = KeyAsked(j), KeyAsked(i) # NoKey
                 PROVE  i = j
      BY DEF OneResourcePerKey
    <2>1. created[i].key = KeyAsked(i) /\ created[j].key = KeyAsked(j)
      BY DEF IInv, CreatedFromRequests, KeyAsked
    <2> QED
      BY <2>1 DEF IInv, RecordsAgree
  <1> QED
    BY <1>1, Invariance, PTL

\* An attempt creates once, with or without a key.
THEOREM AttemptOnce == Spec => []OneResourcePerAttempt
  <1>1. IInv => OneResourcePerAttempt
    <2> SUFFICES ASSUME IInv, NEW i \in DOMAIN created, NEW j \in DOMAIN created,
                        created[i].call = created[j].call,
                        created[i].n = created[j].n
                 PROVE  i = j
      BY DEF OneResourcePerAttempt
    <2>1. created[i].key = created[j].key
      BY DEF IInv, CreatedFromRequests
    <2>2. CASE created[i].key = NoKey
      BY <2>2 DEF IInv, UnkeyedOncePerAttempt
    <2>3. CASE created[i].key # NoKey
      BY <2>1, <2>3 DEF IInv, RecordsAgree
    <2> QED
      BY <2>2, <2>3
  <1> QED
    BY <1>1, Invariance, PTL

\* What a successful call returns was created for what it asked.
THEOREM SuccessOwn == Spec => []SuccessIsOwnResource
  <1>1. IInv => SuccessIsOwnResource
    BY DEF IInv, ResultsTrue, TrueResult, SuccessIsOwnResource
  <1> QED
    BY <1>1, Invariance, PTL

\* A call told of an idempotency conflict created nothing: its resource would
\* be the one recorded under its key, with its own payload.
THEOREM ConflictNoEffect == Spec => []ConflictMeansNoEffect
  <1>1. IInv => ConflictMeansNoEffect
    <2> SUFFICES ASSUME IInv, NEW c \in Calls, IsIdempotencyConflict(result[c])
                 PROVE  /\ KeyOfAnotherPayload(c)
                        /\ \A i \in DOMAIN created : created[i].call # c
      BY DEF ConflictMeansNoEffect
    <2>1. KeyOfAnotherPayload(c)
      BY DEF IInv, ResultsTrue, TrueResult
    <2>2. ASSUME NEW i \in DOMAIN created, created[i].call = c PROVE FALSE
      <3>1. created[i].key = input[c].key /\ created[i].payload = input[c].payload
        BY <2>2 DEF IInv, CreatedFromRequests
      <3>2. records[input[c].key] = i
        BY <2>1, <2>2, <3>1, KeysAssumption
           DEF IInv, RecordsAgree, KeyOfAnotherPayload
      <3> QED
        BY <2>1, <3>1, <3>2 DEF KeyOfAnotherPayload
    <2> QED
      BY <2>1, <2>2
  <1> QED
    BY <1>1, Invariance, PTL

\* A call with no key refused on its first attempt created nothing and left
\* nothing in flight.
THEOREM CleanFailure == Spec => []CleanFailureMeansNoEffect
  <1>1. IInv => CleanFailureMeansNoEffect
    <2> SUFFICES ASSUME IInv, NEW c \in Calls, result[c].kind = "api",
                        result[c].status < 500, attempt[c] = 0,
                        input[c].key = NoKey
                 PROVE  /\ \A i \in DOMAIN created : created[i].call # c
                        /\ \A m \in requests : m.call # c
      BY DEF CleanFailureMeansNoEffect
    <2>1. /\ NothingCreatedBy(c, 0)
          /\ [call |-> c, n |-> 0] \notin requests
      BY DEF IInv, ResultsTrue, TrueResult
    <2>2. ASSUME NEW i \in DOMAIN created, created[i].call = c PROVE FALSE
      <3>1. created[i].n \in Nat
        <4>1. created[i] \in Resources
          BY DEF IInv, TypeOK
        <4> QED
          BY <4>1 DEF Resources, Attempts
      <3>2. created[i].n <= 0
        BY <2>2 DEF IInv, CreatedFromRequests
      <3>3. created[i].n = 0
        BY <3>1, <3>2
      <3> QED
        BY <2>1, <2>2, <3>3 DEF NothingCreatedBy
    <2>3. ASSUME NEW m \in requests, m.call = c PROVE FALSE
      <3>1. m \in Requests /\ m.n <= 0
        BY <2>3 DEF IInv, TypeOK, ClientTypeOK, SentRequests
      <3>2. m = [call |-> c, n |-> 0]
        BY <2>3, <3>1 DEF Requests, Attempts
      <3> QED
        BY <2>1, <3>2
    <2> QED
      BY <2>2, <2>3
  <1> QED
    BY <1>1, Invariance, PTL

-----------------------------------------------------------------------------
(* The contract.                                                           *)

\* A step that leaves a call's own record and result alone leaves its answer.
LEMMA SameAnswers ==
    ASSUME UNCHANGED <<result, pc>>
    PROVE  [c \in Calls |-> AnswerOf(c)]' = [c \in Calls |-> AnswerOf(c)]
  BY DEF AnswerOf

LEMMA ContractInit == Init => Contract!Init
  BY DEF Init, ClientInit, Contract!Init, Contract!Nothing, Contract!Pending,
         Nothing, AnswerOf

\* Handling a request makes a resource or shows nothing to the callers.
LEMMA ContractServer ==
    ASSUME IInv, NEW m \in requests, ServerStep(m)
    PROVE  Contract!Next \/ UNCHANGED Contract!vars
  <1>0. [c \in Calls |-> AnswerOf(c)]' = [c \in Calls |-> AnswerOf(c)]
    BY SameAnswers DEF ServerStep
  <1>1. CASE Create(m)
    <2>1. m.call \in Calls /\ m.n \in 0 .. MaxAttempts - 1
          /\ input[m.call] # Nothing
      <3>1. input[m.call] \in Inputs
        BY DEF IInv, SentRequests
      <3> QED
        BY <3>1, RequestFacts, KeysAssumption DEF Attempts, Nothing, Inputs
    <2>2. ASSUME NEW i \in DOMAIN created
          PROVE  IF input[m.call].key = NoKey
                   THEN created[i].call # m.call \/ created[i].n # m.n
                   ELSE created[i].key # input[m.call].key
      <3>1. CASE input[m.call].key = NoKey
        <4>1. created[i].call = m.call => created[i].key = NoKey
          BY <3>1 DEF IInv, CreatedFromRequests
        <4> QED
          BY <3>1, <4>1, RequestFacts DEF IInv, CreatedFromRequests
      <3>2. CASE input[m.call].key # NoKey
        <4>1. records[input[m.call].key] = 0
          BY <1>1, <3>2 DEF Create, Located, IdempotencyHeader
        <4>2. i # 0
          BY DEF IInv, TypeOK
        <4> QED
          BY <3>2, <4>1, <4>2 DEF IInv, RecordsAgree
      <3> QED
        BY <3>1, <3>2
    <2>3. created' = Append(created, [call |-> m.call, n |-> m.n,
                                      key |-> input[m.call].key,
                                      payload |-> input[m.call].payload])
      BY <1>1 DEF Create, IdempotencyHeader, Body
    <2>4. Contract!Make(m.call)
      BY <1>0, <2>1, <2>2, <2>3
         DEF Contract!Make, Contract!Nothing, Nothing, ServerStep
    <2> QED
      BY <2>1, <2>4 DEF Contract!Next
  <1>2. CASE UNCHANGED serverVars
    BY <1>0, <1>2 DEF Contract!vars, ServerStep, serverVars
  <1> QED
    BY <1>1, <1>2 DEF ServerStep, Handle, Replay, Mismatch, Refuse

\* A step of the loop answers the call once, or shows nothing to its caller.
LEMMA ContractClient ==
    ASSUME IInv, IInv', NEW c \in Calls, ClientStep(c)
    PROVE  Contract!Next \/ UNCHANGED Contract!vars
  <1> DEFINE answers == [d \in Calls |-> AnswerOf(d)]
  <1>1. ClientFrame(c)
    BY ClientStepFrame DEF IInv, TypeOK, ClientStep
  <1>2. UNCHANGED <<input, created, records>>
    BY DEF ClientStep
  <1>3. AnswerOf(c) = Contract!Pending
    BY <1>1 DEF ClientFrame, AnswerOf, Contract!Pending
  <1>4. answers' = [answers EXCEPT ![c] = AnswerOf(c)']
    <2>1. \A d \in Calls \ {c} : AnswerOf(d)' = AnswerOf(d)
      BY <1>1 DEF ClientFrame, AnswerOf
    <2> QED
      BY <2>1
  <1>5. CASE pc'[c] # "returned"
    <2>1. AnswerOf(c)' = AnswerOf(c)
      BY <1>3, <1>5 DEF AnswerOf, Contract!Pending
    <2> QED
      BY <1>2, <1>4, <2>1 DEF Contract!vars
  <1>6. CASE pc'[c] = "returned"
    <2>1. input[c] # Contract!Nothing
      <3>1. input[c] \in Inputs
        BY <1>1 DEF IInv, Started, ClientFrame
      <3> QED
        BY <3>1, KeysAssumption DEF Contract!Nothing, Inputs
    <2>2. TrueResult(c, result[c])'
      BY DEF IInv, ResultsTrue
    <2>3. CASE result'[c].kind = "ok"
      <3>1. AnswerOf(c)' = [kind |-> "ok", id |-> result'[c].id]
        BY <1>6, <2>3 DEF AnswerOf
      <3>2. OwnResource(c, result[c].id)'
        BY <2>2, <2>3 DEF TrueResult
      <3>3. Contract!Succeed(c)
        BY <1>2, <1>4, <3>1, <3>2
           DEF Contract!Succeed, Contract!Owns, OwnResource
      <3> QED
        BY <1>2, <1>3, <2>1, <3>3 DEF Contract!Next, Contract!Reply
    <2>4. CASE IsIdempotencyConflict(result'[c])
      <3>1. AnswerOf(c)' = [kind |-> "conflict", id |-> 0]
        BY <1>6, <2>4 DEF AnswerOf, IsIdempotencyConflict
      <3>2. KeyOfAnotherPayload(c)
        BY <1>2, <2>2, <2>4 DEF TrueResult, KeyOfAnotherPayload, IsIdempotencyConflict
      <3>3. Contract!Conflict(c)
        <4>1. /\ records[input[c].key] \in DOMAIN created
              /\ created[records[input[c].key]].key = input[c].key
              /\ created[records[input[c].key]].payload # input[c].payload
              /\ input[c].key # NoKey
          BY <3>2, KeysAssumption DEF KeyOfAnotherPayload, IInv, TypeOK, RecordsAgree
        <4> QED
          BY <1>4, <3>1, <4>1 DEF Contract!Conflict
      <3> QED
        BY <1>2, <1>3, <2>1, <3>3 DEF Contract!Next, Contract!Reply
    <2>5. CASE result'[c].kind # "ok" /\ ~IsIdempotencyConflict(result'[c])
      <3>1. AnswerOf(c)' = [kind |-> "error", id |-> 0]
        BY <1>6, <2>5 DEF AnswerOf, IsIdempotencyConflict
      <3>2. Contract!Fail(c)
        BY <1>4, <3>1 DEF Contract!Fail
      <3> QED
        BY <1>2, <1>3, <2>1, <3>2 DEF Contract!Next, Contract!Reply
    <2> QED
      BY <2>3, <2>4, <2>5
  <1> QED
    BY <1>5, <1>6

\* The calls, their attempts, the exchanges and the service together behave
\* as the contract of the create methods says.
THEOREM Implements == Spec => ImplementsContract
  <1>1. Init => Contract!Init
    BY ContractInit
  <1>2. IInv /\ IInv' /\ [Next]_vars => [Contract!Next]_(Contract!vars)
    <2> SUFFICES ASSUME IInv, IInv', [Next]_vars
                 PROVE  Contract!Next \/ UNCHANGED Contract!vars
      OBVIOUS
    <2>1. CASE UNCHANGED vars
      BY <2>1, SameAnswers DEF vars, clientVars, Contract!vars
    <2>2. ASSUME NEW c \in Calls, NEW k \in Keys \cup {NoKey}, NEW p \in Payloads,
                 Start(c, k, p)
          PROVE  Contract!Next
      <3>1. input[c] = Contract!Nothing
        BY <2>2 DEF Start, Enter, IInv, Started, Nothing, Contract!Nothing
      <3>2. [d \in Calls |-> AnswerOf(d)]' = [d \in Calls |-> AnswerOf(d)]
        <4>1. \A d \in Calls : (pc'[d] = "returned") <=> (pc[d] = "returned")
          BY <2>2 DEF Start, Enter, IInv, TypeOK, ClientTypeOK
        <4> QED
          BY <2>2, <4>1 DEF Start, Enter, AnswerOf
      <3> QED
        BY <2>2, <3>1, <3>2 DEF Contract!Next, Contract!Ask, Start, serverVars
    <2>3. ASSUME NEW c \in Calls, ClientStep(c)
          PROVE  Contract!Next \/ UNCHANGED Contract!vars
      BY <2>3, ContractClient
    <2>4. ASSUME NEW c \in Calls, CancelCtx(c) PROVE UNCHANGED Contract!vars
      BY <2>4, SameAnswers DEF CancelCtx, Cancel, Contract!vars
    <2>5. ASSUME NEW m \in requests, ServerStep(m)
          PROVE  Contract!Next \/ UNCHANGED Contract!vars
      BY <2>5, ContractServer
    <2> QED
      BY <2>1, <2>2, <2>3, <2>4, <2>5 DEF Next
  <1> QED
    BY <1>1, <1>2, Invariance, PTL DEF Spec, ImplementsContract, Contract!Spec
=============================================================================
