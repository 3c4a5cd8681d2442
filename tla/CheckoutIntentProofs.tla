------------------------ MODULE CheckoutIntentProofs ------------------------
(***************************************************************************)
(* Proofs about CheckoutIntent, for any calls, methods, candidates,        *)
(* gateway and number of attempts.                                         *)
(***************************************************************************)
EXTENDS CheckoutIntent, DoJSONProofs

-----------------------------------------------------------------------------
(* The inductive invariant.                                                *)

\* The session is selected for once: whatever method a state of it has is the
\* method it has now.
OneMethod ==
    /\ history # << >>
    /\ \A i \in DOMAIN history : history[i].method \in {NoMethod, Current.method}
    /\ Current.status = "awaiting_method_selection" =>
         Current.method = NoMethod /\ Current.by = Nobody

CanSelect(c) ==
    input[c].op = "SelectCheckoutMethod" /\ IsIntent /\ input[c].method \in Candidates

Settles(c) == input[c].op \in {"SimulatePayment", "FulfillDemoPaymentSession"}

\* Who moved the session on had asked for it.
MovedByCaller ==
    \A i \in DOMAIN history :
        history[i].by # Nobody =>
            CanSelect(history[i].by) \/ Settles(history[i].by)

Started ==
    \A c \in Calls :
        /\ pc[c] = "idle" => input[c] = Nothing
        /\ pc[c] # "idle" => input[c] \in Inputs
        /\ pc[c] = "idle" => attempt[c] = 0
        /\ pc[c] = "backoff" => attempt[c] > 0

\* A request in flight was sent by an attempt its call has reached.
SentRequests ==
    \A m \in requests :
        /\ pc[m.call] # "idle"
        /\ m.n <= attempt[m.call]
        /\ m.n = attempt[m.call] => pc[m.call] \in {"wait", "returned"}

NotMovedBy(c) == \A i \in DOMAIN history : history[i].by # c

\* A call moves nothing before its first request is handled.
Untouched ==
    \A c \in Calls :
        /\ attempt[c] = 0
        /\ pc[c] \in {"idle", "ready"} \/ [call |-> c, n |-> 0] \in requests
        => NotMovedBy(c)

\* Only a call that waits has a response to read.
RepliesAwaited ==
    \A c \in Calls :
        reply[c] # NoReply =>
            pc[c] = "wait" /\ [call |-> c, n |-> attempt[c]] \notin requests

\* A refusal was right when it was made, and leaves nothing of the call behind.
TrueRefusal(c) ==
    /\ \E at \in Contract!During(c) \ {0} : Contract!Conflict(c, at)
    /\ CanSelect(c) => Current.status = "expired"
    /\ Settles(c) /\ attempt[c] = 0 => NotMovedBy(c)

\* A response waiting to be read tells the truth about the session.
TrueReply(c, r) ==
    /\ r.status \in {200, 409} \cup 500 .. 599
    /\ r.status = 200 =>
         r.id \in Contract!During(c) \ {0} /\ Contract!Succeed(c, r.id)
    /\ r.status = 409 => TrueRefusal(c)

RepliesTrue == \A c \in Calls : reply[c] # NoReply => TrueReply(c, reply[c])

\* So does what a call returned.
TrueResult(c, o) ==
    /\ o.kind = "ok" =>
         \E at \in Contract!During(c) \ {0} :
            /\ Contract!Succeed(c, at)
            /\ o.id = IF input[c].op = "FulfillDemoPaymentSession" THEN 0 ELSE at
    /\ o.kind = "api" /\ o.status = 409 =>
         /\ TrueRefusal(c)
         /\ [call |-> c, n |-> attempt[c]] \notin requests

ResultsTrue == \A c \in Calls : TrueResult(c, result[c])

NotYet == \A c \in Calls : pc[c] # "returned" => result[c] = Plain("none")

IInv ==
    /\ TypeOK
    /\ OneMethod
    /\ MovedByCaller
    /\ Started
    /\ SentRequests
    /\ Untouched
    /\ RepliesAwaited
    /\ RepliesTrue
    /\ NotYet
    /\ ResultsTrue

-----------------------------------------------------------------------------
(* The invariant holds at first.                                           *)

LEMMA InitIInv == Init => IInv
  <1> SUFFICES ASSUME Init PROVE IInv
    OBVIOUS
  <1> USE DEF Init, ClientInit
  <1>1. DemoMethod \in Candidates /\ DemoMethod # NoMethod
    BY CandidatesAssumption DEF DemoMethod
  <1>2. PICK first \in States :
          /\ history = <<first>> /\ first.by = Nobody
          /\ first.status = "awaiting_method_selection" => first.method = NoMethod
    BY <1>1 DEF States
  <1>3. TypeOK
    <2>1. Plain("none") \in Outcomes /\ NoReply \in Replies
      BY DEF Plain, Outcomes, Kinds, NoReply, Replies
    <2>2. history \in Seq(States) /\ 0 \in 0 .. Len(history)
      BY <1>2
    <2> QED
      BY <2>1, <2>2, AttemptsAssumption DEF TypeOK, ClientTypeOK, Attempts, Requests
  <1>4. OneMethod /\ MovedByCaller /\ Untouched
    BY <1>2, NobodyAssumption DEF OneMethod, MovedByCaller, Untouched, NotMovedBy, Current
  <1>5. Started /\ SentRequests /\ RepliesAwaited /\ RepliesTrue /\ NotYet
    BY DEF Started, SentRequests, RepliesAwaited, RepliesTrue, NotYet
  <1>6. ResultsTrue
    BY DEF ResultsTrue, TrueResult, Plain
  <1> QED
    BY <1>3, <1>4, <1>5, <1>6 DEF IInv

-----------------------------------------------------------------------------
(* How the session moves on.                                               *)

\* b moves the session on to a state that is not the first.
MovesOn(b) ==
    /\ Current.status \in {"awaiting_method_selection", "pending"}
    /\ \E s \in {"pending", "completed", "expired"}, method \in Candidates \cup {NoMethod} :
         /\ Current.method \in {NoMethod, method}
         /\ Move(s, method, b)

LEMMA HistoryFacts ==
    ASSUME TypeOK, OneMethod
    PROVE  /\ Len(history) \in Nat \ {0}
           /\ DOMAIN history = 1 .. Len(history)
           /\ \A i \in 1 .. Len(history) : history[i] \in States
           /\ Current \in States
           /\ \A c \in Calls : since[c] \in 0 .. Len(history)
  <1>1. history \in Seq(States) /\ history # << >>
    BY DEF TypeOK, OneMethod
  <1>2. Len(history) \in Nat \ {0} /\ DOMAIN history = 1 .. Len(history)
    BY <1>1
  <1> QED
    BY <1>1, <1>2 DEF Current, TypeOK

LEMMA MovesOnFacts ==
    ASSUME TypeOK, OneMethod, NEW b \in Calls \cup {Nobody}, MovesOn(b)
    PROVE  /\ history' \in Seq(States)
           /\ Len(history') = Len(history) + 1
           /\ DOMAIN history' = 1 .. Len(history) + 1
           /\ \A i \in 1 .. Len(history) : history'[i] = history[i]
           /\ history'[Len(history) + 1].by = b
           /\ Current' = history'[Len(history) + 1]
           /\ IsIntent' = IsIntent
           /\ OneMethod'
  <1>1. PICK s \in {"pending", "completed", "expired"}, method \in Candidates \cup {NoMethod} :
          Current.method \in {NoMethod, method} /\ Move(s, method, b)
    BY DEF MovesOn
  <1> DEFINE e == [status |-> s, method |-> method, by |-> b]
  <1>2. e \in States /\ history \in Seq(States) /\ history' = Append(history, e)
    BY <1>1 DEF States, Move, TypeOK
  <1> HIDE DEF e
  <1>3. /\ history' \in Seq(States)
        /\ Len(history') = Len(history) + 1
        /\ DOMAIN history' = 1 .. Len(history) + 1
        /\ \A i \in 1 .. Len(history) : history'[i] = history[i]
        /\ history'[Len(history) + 1] = e
    BY <1>2, AppendFacts
  <1>4. Len(history) \in Nat \ {0} /\ DOMAIN history = 1 .. Len(history)
    BY HistoryFacts
  <1>5. Current' = e
    BY <1>3 DEF Current
  <1>6. OneMethod'
    <2>1. history' # << >>
      BY <1>3, <1>4
    <2>2. \A i \in 1 .. Len(history) : history'[i].method \in {NoMethod, method}
      BY <1>1, <1>3, <1>4 DEF OneMethod
    <2>3. e.method = method /\ e.status # "awaiting_method_selection"
      BY DEF e
    <2> QED
      BY <1>3, <1>4, <1>5, <2>1, <2>2, <2>3 DEF OneMethod
  <1>7. e.by = b
    BY DEF e
  <1> QED
    BY <1>3, <1>4, <1>5, <1>6, <1>7 DEF IsIntent

\* What was true of the session while a call ran stays true, and an expired
\* session stays expired.
LEMMA TruthStays ==
    ASSUME TypeOK, OneMethod, UNCHANGED <<input, since>>, NEW c \in Calls,
           UNCHANGED history \/ \E b \in Calls \cup {Nobody} : MovesOn(b)
    PROVE  /\ IsIntent' = IsIntent
           /\ CanSelect(c)' = CanSelect(c)
           /\ Settles(c)' = Settles(c)
           /\ Len(history) <= Len(history')
           /\ Contract!During(c) \subseteq Contract!During(c)'
           /\ \A at \in Contract!During(c) \ {0} :
                /\ Contract!Succeed(c, at) => Contract!Succeed(c, at)'
                /\ Contract!Conflict(c, at) => Contract!Conflict(c, at)'
           /\ Current.status = "expired" => Current'.status = "expired"
  <1>1. /\ Len(history) \in Nat \ {0} /\ Len(history') \in Nat
        /\ Len(history) <= Len(history')
        /\ \A i \in 1 .. Len(history) : history'[i] = history[i]
        /\ IsIntent' = IsIntent
    BY HistoryFacts, MovesOnFacts DEF IsIntent
  <1>2. since[c] \in Nat
    BY HistoryFacts
  <1>3. Contract!During(c) \subseteq Contract!During(c)'
    BY <1>1, <1>2 DEF Contract!During
  <1>4. ASSUME NEW at \in Contract!During(c) \ {0}
        PROVE  /\ Contract!Succeed(c, at) => Contract!Succeed(c, at)'
               /\ Contract!Conflict(c, at) => Contract!Conflict(c, at)'
    <2>1. history'[at] = history[at]
      BY <1>1, <1>2 DEF Contract!During
    <2>2. Contract!IsIntent' = Contract!IsIntent
      BY <1>1 DEF Contract!IsIntent
    <2> QED
      BY <2>1, <2>2 DEF Contract!Succeed, Contract!Conflict, Contract!Selects,
                        Contract!Settles
  <1>5. Current.status = "expired" => Current'.status = "expired"
    <2>1. CASE UNCHANGED history
      BY <2>1 DEF Current
    <2>2. CASE \E b \in Calls \cup {Nobody} : MovesOn(b)
      BY <2>2 DEF MovesOn
    <2> QED
      BY <2>1, <2>2
  <1> QED
    BY <1>1, <1>3, <1>4, <1>5 DEF CanSelect, Settles

-----------------------------------------------------------------------------
(* Every step keeps the invariant: the caller's steps.                     *)

LEMMA StartIInv ==
    ASSUME IInv, NEW c \in Calls, NEW i \in Inputs, Start(c, i)
    PROVE  IInv'
  <1> USE DEF IInv, TypeOK, ClientTypeOK, Start, Enter
  <1>1. input[c] = Nothing /\ attempt[c] = 0 /\ pc[c] = "idle"
    BY DEF Started
  <1>2. TypeOK'
    BY HistoryFacts
  <1>3. OneMethod'
    BY DEF OneMethod, Current
  <1>4. MovedByCaller'
    <2> SUFFICES ASSUME NEW j \in DOMAIN history, history[j].by # Nobody
                 PROVE  (CanSelect(history[j].by) \/ Settles(history[j].by))'
      BY DEF MovedByCaller
    <2>1. history[j].by \in Calls
      BY HistoryFacts DEF States
    <2>2. CanSelect(history[j].by) \/ Settles(history[j].by)
      BY DEF MovedByCaller
    <2>3. history[j].by # c
      BY <1>1, <2>2 DEF CanSelect, Settles, Nothing
    <2> QED
      BY <2>1, <2>2, <2>3 DEF CanSelect, Settles, IsIntent
  <1>5. Started'
    BY <1>1 DEF Started
  <1>6. SentRequests' /\ Untouched'
    BY <1>1 DEF SentRequests, Requests, Untouched, NotMovedBy
  <1>7. RepliesAwaited' /\ NotYet'
    BY DEF RepliesAwaited, NotYet
  <1>8. ASSUME NEW d \in Calls, d # c
        PROVE  /\ \A r : TrueReply(d, r) => TrueReply(d, r)'
               /\ \A o : TrueResult(d, o) => TrueResult(d, o)'
    <2>1. input'[d] = input[d] /\ since'[d] = since[d] /\ pc'[d] = pc[d]
      BY <1>8
    <2> QED
      BY <2>1 DEF TrueReply, TrueResult, TrueRefusal, CanSelect, Settles, NotMovedBy,
           IsIntent, Current, Contract!During, Contract!Succeed, Contract!Conflict,
           Contract!Selects, Contract!Settles, Contract!IsIntent
  <1>9. RepliesTrue'
    <2> SUFFICES ASSUME NEW d \in Calls, reply'[d] # NoReply
                 PROVE  TrueReply(d, reply[d])'
      BY DEF RepliesTrue
    <2> QED
      BY <1>1, <1>8 DEF RepliesAwaited, RepliesTrue
  <1>10. ResultsTrue'
    <2> SUFFICES ASSUME NEW d \in Calls
                 PROVE  TrueResult(d, result[d])'
      BY DEF ResultsTrue
    <2>1. CASE d = c
      <3>1. result'[d].kind = "none"
        BY <1>1, <2>1 DEF NotYet, Plain
      <3> QED
        BY <3>1 DEF TrueResult
    <2>2. CASE d # c
      BY <1>8, <2>2 DEF ResultsTrue
    <2> QED
      BY <2>1, <2>2
  <1> QED
    BY <1>2, <1>3, <1>4, <1>5, <1>6, <1>7, <1>9, <1>10

LEMMA CancelIInv ==
    ASSUME IInv, NEW c \in Calls, CancelCtx(c)
    PROVE  IInv'
  <1> USE DEF IInv, CancelCtx, Cancel
  <1>1. TypeOK'
    BY DEF TypeOK, ClientTypeOK
  <1>2. OneMethod' /\ MovedByCaller' /\ Started' /\ SentRequests' /\ Untouched'
    BY DEF OneMethod, MovedByCaller, Started, SentRequests, Untouched, NotMovedBy,
           Current, CanSelect, Settles, IsIntent
  <1>3. RepliesAwaited' /\ NotYet'
    BY DEF RepliesAwaited, NotYet
  <1>4. RepliesTrue' /\ ResultsTrue'
    BY DEF RepliesTrue, ResultsTrue, TrueReply, TrueResult, TrueRefusal, NotMovedBy,
           Current, CanSelect, Settles, IsIntent, Contract!During, Contract!Succeed,
           Contract!Conflict, Contract!Selects, Contract!Settles, Contract!IsIntent
  <1> QED
    BY <1>1, <1>2, <1>3, <1>4

LEMMA ClientIInv ==
    ASSUME IInv, NEW c \in Calls, ClientStep(c)
    PROVE  IInv'
  <1> USE DEF IInv, ClientStep
  <1> DEFINE w == input[c].op # "FulfillDemoPaymentSession"
  <1>1. ClientTypeOK' /\ ClientTypeOK
    BY ClientStepType DEF TypeOK
  <1>2. ClientFrame(c)
    BY <1>1, ClientStepFrame
  <1>3. UNCHANGED <<input, since, history>>
    OBVIOUS
  <1>4. TypeOK'
    BY <1>1, <1>3 DEF TypeOK
  <1>5. OneMethod' /\ MovedByCaller'
    BY <1>3 DEF OneMethod, MovedByCaller, Current, CanSelect, Settles, IsIntent
  <1>6. Started'
    BY <1>1, <1>2, <1>3 DEF Started, ClientFrame, ClientTypeOK, Attempts
  <1>7. SentRequests'
    <2> SUFFICES ASSUME NEW m \in requests'
                 PROVE  /\ pc'[m.call] # "idle"
                        /\ m.n <= attempt'[m.call]
                        /\ m.n = attempt'[m.call] =>
                             pc'[m.call] \in {"wait", "returned"}
      BY DEF SentRequests
    <2>1. CASE m \in requests
      <3>1. /\ m.call \in Calls /\ m.n \in Nat /\ attempt[m.call] \in Nat
            /\ pc[m.call] # "idle"
            /\ m.n <= attempt[m.call]
            /\ m.n = attempt[m.call] => pc[m.call] \in {"wait", "returned"}
        BY <1>1, <2>1 DEF SentRequests, ClientTypeOK, Requests, Attempts
      <3> QED
        BY <1>2, <3>1 DEF ClientFrame
    <2>2. CASE m \notin requests
      BY <1>1, <1>2, <2>2 DEF ClientFrame, ClientTypeOK, Attempts
    <2> QED
      BY <2>1, <2>2
  <1>8. Untouched'
    <2> SUFFICES ASSUME NEW d \in Calls, attempt'[d] = 0,
                        \/ pc'[d] \in {"idle", "ready"}
                        \/ [call |-> d, n |-> 0] \in requests'
                 PROVE  NotMovedBy(d)
      BY <1>3 DEF Untouched, NotMovedBy
    <2>1. attempt[d] = 0 /\ attempt[d] \in Nat
      BY <1>1, <1>2 DEF ClientFrame, ClientTypeOK, Attempts
    <2>2. CASE [call |-> d, n |-> 0] \in requests
      BY <2>1, <2>2 DEF Untouched
    <2>3. CASE [call |-> d, n |-> 0] \notin requests
      <3>1. pc[d] \in {"idle", "ready"}
        BY <1>1, <1>2, <2>1, <2>3 DEF ClientFrame, Started
      <3> QED
        BY <2>1, <3>1 DEF Untouched
    <2> QED
      BY <2>2, <2>3
  <1>9. RepliesAwaited' /\ NotYet'
    <2>1. RepliesAwaited'
      <3> SUFFICES ASSUME NEW d \in Calls, reply'[d] # NoReply
                   PROVE  /\ pc'[d] = "wait"
                          /\ [call |-> d, n |-> attempt'[d]] \notin requests'
        BY DEF RepliesAwaited
      <3>1. reply[d] # NoReply
        BY <1>2 DEF ClientFrame
      <3>2. pc[d] = "wait" /\ d # c
        BY <1>2, <3>1 DEF RepliesAwaited, ClientFrame
      <3> QED
        BY <1>2, <3>1, <3>2 DEF RepliesAwaited, ClientFrame
    <2>2. NotYet'
      BY <1>2 DEF NotYet, ClientFrame
    <2> QED
      BY <2>1, <2>2
  <1>10. ASSUME NEW d \in Calls, attempt'[d] = attempt[d]
         PROVE  TrueRefusal(d)' = TrueRefusal(d)
    BY <1>3, <1>10 DEF TrueRefusal, CanSelect, Settles, IsIntent, Current, NotMovedBy,
         Contract!During, Contract!Conflict, Contract!Selects, Contract!Settles,
         Contract!IsIntent
  <1>11. ASSUME NEW d, NEW at
         PROVE  /\ Contract!During(d)' = Contract!During(d)
                /\ Contract!Succeed(d, at)' = Contract!Succeed(d, at)
    BY <1>3 DEF Contract!During, Contract!Succeed, Contract!Selects, Contract!Settles,
         Contract!IsIntent
  <1>12. RepliesTrue'
    <2> SUFFICES ASSUME NEW d \in Calls, reply'[d] # NoReply
                 PROVE  TrueReply(d, reply[d])'
      BY DEF RepliesTrue
    <2>1. reply[d] # NoReply /\ reply'[d] = reply[d]
      BY <1>2 DEF ClientFrame
    <2>2. attempt'[d] = attempt[d]
      BY <1>2, <1>9, <2>1 DEF RepliesAwaited, ClientFrame
    <2>3. TrueReply(d, reply[d])
      BY <2>1 DEF RepliesTrue
    <2> QED
      BY <1>10, <1>11, <2>1, <2>2, <2>3 DEF TrueReply
  <1>13. ResultsTrue'
    <2> SUFFICES ASSUME NEW d \in Calls
                 PROVE  TrueResult(d, result[d])'
      BY DEF ResultsTrue
    <2>1. CASE pc'[d] # "returned"
      BY <1>9, <2>1 DEF NotYet, TrueResult, Plain
    <2>2. CASE d # c
      <3>1. /\ result'[d] = result[d] /\ attempt'[d] = attempt[d]
            /\ [call |-> d, n |-> attempt[d]] \in requests' =>
                 [call |-> d, n |-> attempt[d]] \in requests
        BY <1>2, <2>2 DEF ClientFrame
      <3> QED
        BY <1>3, <1>10, <1>11, <3>1 DEF ResultsTrue, TrueResult
    <2>3. CASE d = c /\ pc'[c] = "returned"
      <3>1. CASE result'[c] \in {Plain("transport"), Plain("cancelled")}
        BY <2>3, <3>1 DEF Plain, TrueResult
      <3>2. CASE /\ pc[c] = "wait" /\ reply[c] # NoReply
                 /\ attempt'[c] = attempt[c]
                 /\ \E intact \in BOOLEAN :
                      result'[c] = DecodeResponse(reply[c], w, intact)
        <4>1. PICK intact \in BOOLEAN :
                result'[c] = DecodeResponse(reply[c], w, intact)
          BY <3>2
        <4>2. TrueReply(c, reply[c])
          BY <3>2 DEF RepliesTrue
        <4>3. requests' = requests
          BY <1>2, <2>3 DEF ClientFrame
        <4>4. [call |-> c, n |-> attempt[c]] \notin requests
          BY <3>2 DEF RepliesAwaited
        <4>5. TrueResult(c, result'[c])
          BY <4>1, <4>2, <4>4 DEF DecodeResponse, TrueReply, TrueResult
        <4> QED
          BY <1>3, <1>10, <1>11, <2>3, <3>2, <4>3, <4>5 DEF TrueResult
      <3> QED
        BY <1>1, <2>3, <3>1, <3>2, ClientReturns
    <2> QED
      BY <2>1, <2>2, <2>3
  <1> QED
    BY <1>4, <1>5, <1>6, <1>7, <1>8, <1>9, <1>12, <1>13

-----------------------------------------------------------------------------
(* Every step keeps the invariant: the service and the world.              *)

LEMMA AnswerEffect ==
    ASSUME TypeOK, RepliesAwaited, NEW m \in requests, NEW r \in Replies, Answer(m, r)
    PROVE  /\ requests' = requests \ {m}
           /\ reply' \in [Calls -> Replies]
           /\ \A d \in Calls :
                \/ reply'[d] = reply[d] /\ (reply[d] # NoReply => d # m.call \/ ~Awaited(m))
                \/ /\ d = m.call /\ Awaited(m) /\ reply'[d] = r
                   /\ [call |-> d, n |-> attempt[d]] = m
  <1> USE DEF TypeOK, ClientTypeOK, Answer, RepliesAwaited, Awaited
  <1>1. m.call \in Calls /\ m = [call |-> m.call, n |-> m.n]
    BY DEF Requests
  <1> QED
    BY <1>1

\* The session moves on by what the call of m asked for, or not at all.
MovesBy(m) ==
    \/ UNCHANGED history
    \/ MovesOn(m.call) /\ (CanSelect(m.call) \/ Settles(m.call))

\* m is given an answer that is true of the session as it is left.
AnswersTrue(m) ==
    \E r \in Replies :
        Answer(m, r) /\ (Awaited(m) => TrueReply(m.call, r)')

LEMMA HiddenTrue ==
    ASSUME NEW c, NEW r \in Hidden
    PROVE  r \in Replies /\ TrueReply(c, r)'
  <1>1. PICK s \in Gateway : r = [status |-> s, code |-> 0, id |-> 0]
    BY DEF Hidden
  <1>2. s \in 500 .. 599 /\ s \in Nat
    BY GatewayAssumption
  <1> QED
    BY <1>1, <1>2 DEF Replies, TrueReply

LEMMA RespondTrue ==
    ASSUME NEW m \in requests, NEW r \in Replies, Respond(m, r),
           Awaited(m) => TrueReply(m.call, r)'
    PROVE  AnswersTrue(m)
  <1>1. PICK a \in {r} \cup Hidden : Answer(m, a)
    BY DEF Respond
  <1>2. CASE a = r
    BY <1>1, <1>2 DEF AnswersTrue
  <1>3. CASE a \in Hidden
    BY <1>1, <1>3, HiddenTrue DEF AnswersTrue
  <1> QED
    BY <1>2, <1>3

\* A request is handled for a call that has begun.
LEMMA RequestFacts ==
    ASSUME IInv, NEW m \in requests
    PROVE  /\ m.call \in Calls /\ m.n \in Nat
           /\ m = [call |-> m.call, n |-> m.n]
           /\ input[m.call] \in Inputs
           /\ attempt[m.call] \in Nat
           /\ attempt[m.call] = 0 =>
                m.n = 0 /\ pc[m.call] \notin {"idle", "ready"}
  <1>1. /\ m.call \in Calls /\ m.n \in Nat /\ m = [call |-> m.call, n |-> m.n]
        /\ attempt[m.call] \in Nat
    BY DEF IInv, TypeOK, ClientTypeOK, Requests, Attempts
  <1>2. /\ pc[m.call] # "idle" /\ m.n <= attempt[m.call]
        /\ m.n = attempt[m.call] => pc[m.call] \in {"wait", "returned"}
    BY DEF IInv, SentRequests
  <1> QED
    BY <1>1, <1>2 DEF IInv, Started

LEMMA ServerAnswers ==
    ASSUME IInv, NEW m \in requests, ServerStep(m)
    PROVE  AnswersTrue(m) /\ MovesBy(m)
  <1> DEFINE c == m.call
  <1>0. PICK len \in Nat, next \in Nat : len = Len(history) /\ next = len + 1
    <2>1. Len(history) \in Nat /\ Len(history) + 1 \in Nat
      BY HistoryFacts DEF IInv
    <2> QED
      BY <2>1
  <1>1. UNCHANGED <<pc, attempt, result, input, since>> /\ TypeOK /\ OneMethod
    BY DEF ServerStep, IInv
  <1>2. /\ c \in Calls /\ len \in Nat \ {0} /\ since[c] \in 0 .. len
        /\ input[c] \in Inputs
    BY <1>0, <1>1, HistoryFacts, RequestFacts
  <1>3. ASSUME UNCHANGED history
        PROVE  /\ len \in Contract!During(c)' \ {0}
               /\ history'[len] = Current /\ IsIntent' = IsIntent
               /\ Contract!IsIntent' = IsIntent
    BY <1>0, <1>1, <1>2, <1>3 DEF Contract!During, Current, IsIntent, Contract!IsIntent
  <1>4. ASSUME MovesOn(c)
        PROVE  /\ next \in Contract!During(c)' \ {0}
               /\ history'[next] = Current' /\ Current'.by = c
               /\ IsIntent' = IsIntent /\ Contract!IsIntent' = IsIntent
    <2>1. Len(history') = next
      BY <1>0, <1>1, <1>2, <1>4, MovesOnFacts
    <2> QED
      BY <1>0, <1>1, <1>2, <1>4, <2>1, MovesOnFacts DEF Contract!During, IsIntent,
         Contract!IsIntent
  <1>5. Ok(len) \in Replies /\ Ok(next) \in Replies /\ Refusal \in Replies
    BY <1>0, <1>2 DEF Ok, Refusal, Replies
  <1> USE DEF Is, Contract!Selects, Contract!Settles
  <1>6. CASE Read(m)
    <2>1. Contract!Succeed(c, len)'
      BY <1>1, <1>6 DEF Read, Contract!Succeed
    <2>2. TrueReply(c, Ok(len))'
      BY <1>3, <1>6, <2>1 DEF Read, TrueReply, Ok
    <2> QED
      BY <1>0, <1>5, <1>6, <2>2, RespondTrue DEF Read, MovesBy
  <1>7. CASE Materialize(m)
    <2>1. MovesOn(c) /\ CanSelect(c)
      BY <1>0, <1>1, <1>2, <1>7 DEF Materialize, Selectable, MovesOn, OneMethod, CanSelect, MethodAsked
    <2>2. Current'.method # NoMethod
      <3>1. history'[next].method = input[c].method
        BY <1>0, <1>1, <1>2, <1>7, <2>1 DEF Materialize, Move, MethodAsked, TypeOK
      <3> QED
        BY <1>4, <1>7, <2>1, <3>1, CandidatesAssumption DEF CanSelect
    <2>3. Contract!Succeed(c, next)'
      BY <1>1, <1>4, <2>1, <2>2 DEF Contract!Succeed, CanSelect
    <2>4. TrueReply(c, Ok(next))'
      BY <1>4, <2>1, <2>3 DEF TrueReply, Ok
    <2> QED
      BY <1>0, <1>5, <1>7, <2>1, <2>4, RespondTrue DEF Materialize, MovesBy
  <1>8. CASE Converge(m)
    <2>1. Contract!Succeed(c, len)'
      BY <1>1, <1>3, <1>8 DEF Converge, Selectable, Contract!Succeed
    <2>2. TrueReply(c, Ok(len))'
      BY <1>3, <1>8, <2>1 DEF Converge, TrueReply, Ok
    <2> QED
      BY <1>0, <1>5, <1>8, <2>2, RespondTrue DEF Converge, MovesBy
  <1>9. CASE Settle(m)
    <2>1. MovesOn(c) /\ Settles(c)
      <3>1. Current.method \in Candidates \cup {NoMethod}
        BY <1>1, HistoryFacts DEF States
      <3> QED
        BY <1>1, <1>9, <3>1 DEF Settle, MovesOn, Settles
    <2>2. Current'.status = "completed"
      BY <1>0, <1>1, <1>2, <1>4, <1>9, <2>1 DEF Settle, Move, TypeOK
    <2>3. Contract!Succeed(c, next)'
      BY <1>1, <1>4, <2>1, <2>2 DEF Contract!Succeed, Settles
    <2>4. TrueReply(c, Ok(next))'
      BY <1>4, <2>1, <2>3 DEF TrueReply, Ok
    <2> QED
      BY <1>0, <1>5, <1>9, <2>1, <2>4, RespondTrue DEF Settle, MovesBy
  <1>10. CASE Refuse(m)
    <2>1. UNCHANGED history
      BY <1>10 DEF Refuse
    <2>2. Contract!Conflict(c, len)'
      BY <1>1, <1>3, <1>10, <2>1 DEF Refuse, Selectable, MethodAsked, Contract!Conflict
    <2>3. (CanSelect(c) => Current.status = "expired")'
      BY <1>1, <1>10, <2>1 DEF Refuse, Selectable, MethodAsked, CanSelect, Current, IsIntent
    <2>4. (Settles(c) /\ attempt[c] = 0 => NotMovedBy(c))'
      <3>1. attempt[c] = 0 => NotMovedBy(c)
        BY RequestFacts DEF IInv, Untouched
      <3> QED
        BY <1>1, <2>1, <3>1 DEF NotMovedBy
    <2>5. TrueReply(c, Refusal)'
      BY <1>3, <2>1, <2>2, <2>3, <2>4 DEF TrueReply, TrueRefusal, Refusal
    <2> QED
      BY <1>0, <1>5, <1>10, <2>1, <2>5, RespondTrue DEF Refuse, MovesBy
  <1>11. CASE Unavailable(m)
    BY <1>11, HiddenTrue DEF Unavailable, AnswersTrue, MovesBy
  <1> QED
    BY <1>6, <1>7, <1>8, <1>9, <1>10, <1>11 DEF ServerStep

\* The invariant, but for what a call has just been answered.
LEMMA SessionStep ==
    ASSUME IInv, UNCHANGED <<pc, attempt, ctx, lastErr, result, input, since>>,
           requests' \subseteq requests,
           reply' \in [Calls -> Replies],
           \/ UNCHANGED history
           \/ MovesOn(Nobody)
           \/ \E m \in requests \ requests' :
                MovesOn(m.call) /\ (CanSelect(m.call) \/ Settles(m.call)),
           \A d \in Calls :
                reply'[d] # NoReply =>
                  \/ reply'[d] = reply[d]
                  \/ /\ Awaited([call |-> d, n |-> attempt[d]])
                     /\ [call |-> d, n |-> attempt[d]] \notin requests'
                     /\ TrueReply(d, reply[d])'
    PROVE  IInv'
  <1>1. TypeOK /\ OneMethod
    BY DEF IInv
  <1>2. PICK b \in Calls \cup {Nobody} :
          \/ UNCHANGED history
          \/ /\ MovesOn(b)
             /\ \/ b = Nobody
                \/ \E m \in requests \ requests' :
                     b = m.call /\ (CanSelect(b) \/ Settles(b))
    BY RequestFacts
  <1>3. ASSUME NEW c \in Calls
        PROVE  /\ CanSelect(c)' = CanSelect(c) /\ Settles(c)' = Settles(c)
               /\ Len(history) <= Len(history')
               /\ Contract!During(c) \subseteq Contract!During(c)'
               /\ \A at \in Contract!During(c) \ {0} :
                    /\ Contract!Succeed(c, at) => Contract!Succeed(c, at)'
                    /\ Contract!Conflict(c, at) => Contract!Conflict(c, at)'
               /\ Current.status = "expired" => Current'.status = "expired"
    BY <1>1, <1>2, TruthStays
  <1>4. ASSUME NEW c \in Calls, NotMovedBy(c), c # b \/ UNCHANGED history
        PROVE  NotMovedBy(c)'
    BY <1>1, <1>2, <1>4, HistoryFacts, MovesOnFacts DEF NotMovedBy
  <1>5. TypeOK'
    <2>1. history' \in Seq(States) /\ Len(history) \in Nat /\ Len(history') \in Nat
          /\ Len(history) <= Len(history')
      BY <1>1, <1>2, HistoryFacts, MovesOnFacts DEF TypeOK
    <2>2. since \in [Calls -> 0 .. Len(history')]
      BY <1>1, <2>1 DEF TypeOK
    <2> QED
      BY <1>1, <2>1, <2>2 DEF TypeOK, ClientTypeOK
  <1>6. OneMethod'
    BY <1>1, <1>2, MovesOnFacts DEF OneMethod, Current
  <1>7. MovedByCaller'
    <2> SUFFICES ASSUME NEW i \in DOMAIN history', history'[i].by # Nobody
                 PROVE  (CanSelect(history[i].by) \/ Settles(history[i].by))'
      BY DEF MovedByCaller
    <2>1. CASE i \in DOMAIN history
      <3>1. history'[i] = history[i] /\ history[i].by \in Calls
        BY <1>1, <1>2, <2>1, HistoryFacts, MovesOnFacts DEF States
      <3> QED
        BY <1>3, <2>1, <3>1 DEF IInv, MovedByCaller
    <2>2. CASE i \notin DOMAIN history
      <3>1. history'[i].by = b /\ b \in Calls /\ ~ UNCHANGED history
        BY <1>1, <1>2, <2>2, HistoryFacts, MovesOnFacts
      <3>2. CanSelect(b) \/ Settles(b)
        BY <1>2, <3>1
      <3> QED
        BY <1>3, <3>1, <3>2
    <2> QED
      BY <2>1, <2>2
  <1>8. Started' /\ SentRequests' /\ NotYet'
    BY DEF IInv, Started, SentRequests, NotYet
  <1>9. Untouched'
    <2> SUFFICES ASSUME NEW c \in Calls, attempt[c] = 0,
                        \/ pc[c] \in {"idle", "ready"}
                        \/ [call |-> c, n |-> 0] \in requests'
                 PROVE  NotMovedBy(c)'
      BY DEF Untouched
    <2>1. NotMovedBy(c)
      BY DEF IInv, Untouched
    <2>2. ASSUME c = b, ~ UNCHANGED history PROVE FALSE
      <3>1. PICK m \in requests \ requests' : m.call = c
        BY <1>2, <2>2, NobodyAssumption
      <3>2. m = [call |-> c, n |-> 0] /\ pc[c] \notin {"idle", "ready"}
        BY <3>1, RequestFacts
      <3> QED
        BY <3>1, <3>2
    <2> QED
      BY <1>4, <2>1, <2>2
  <1>10. RepliesAwaited'
    BY DEF IInv, RepliesAwaited, Awaited
  <1>11. ASSUME NEW c \in Calls, TrueRefusal(c),
                [call |-> c, n |-> attempt[c]] \notin requests
         PROVE  TrueRefusal(c)'
    <2>1. ASSUME attempt[c] = 0, c = b, ~ UNCHANGED history PROVE FALSE
      <3>1. PICK m \in requests \ requests' : m.call = c
        BY <1>2, <2>1, NobodyAssumption
      <3>2. m = [call |-> c, n |-> 0]
        BY <2>1, <3>1, RequestFacts
      <3> QED
        BY <1>11, <2>1, <3>1, <3>2
    <2>2. (Settles(c) /\ attempt[c] = 0 => NotMovedBy(c))'
      BY <1>3, <1>4, <1>11, <2>1 DEF TrueRefusal
    <2>3. (\E at \in Contract!During(c) \ {0} : Contract!Conflict(c, at))'
      BY <1>3, <1>11 DEF TrueRefusal
    <2>4. (CanSelect(c) => Current.status = "expired")'
      BY <1>3, <1>11 DEF TrueRefusal
    <2> QED
      BY <2>2, <2>3, <2>4 DEF TrueRefusal
  <1>12. RepliesTrue'
    <2> SUFFICES ASSUME NEW c \in Calls, reply'[c] # NoReply, reply'[c] = reply[c]
                 PROVE  TrueReply(c, reply[c])'
      BY DEF RepliesTrue
    <2>1. TrueReply(c, reply[c]) /\ [call |-> c, n |-> attempt[c]] \notin requests
      BY DEF IInv, RepliesTrue, RepliesAwaited
    <2> QED
      BY <1>3, <1>11, <2>1 DEF TrueReply
  <1>13. ResultsTrue'
    <2> SUFFICES ASSUME NEW c \in Calls
                 PROVE  TrueResult(c, result[c])'
      BY DEF ResultsTrue
    <2>1. TrueResult(c, result[c])
      BY DEF IInv, ResultsTrue
    <2>2. CASE result[c].kind = "ok"
      BY <1>3, <2>1, <2>2 DEF TrueResult
    <2>3. CASE result[c].kind # "ok"
      BY <1>11, <2>1, <2>3 DEF TrueResult
    <2> QED
      BY <2>2, <2>3
  <1> QED
    BY <1>5, <1>6, <1>7, <1>8, <1>9, <1>10, <1>12, <1>13 DEF IInv

LEMMA ServerIInv ==
    ASSUME IInv, NEW m \in requests, ServerStep(m)
    PROVE  IInv'
  <1>1. AnswersTrue(m) /\ MovesBy(m)
    BY ServerAnswers
  <1>2. PICK r \in Replies : Answer(m, r) /\ (Awaited(m) => TrueReply(m.call, r)')
    BY <1>1 DEF AnswersTrue
  <1>3. /\ requests' = requests \ {m}
        /\ reply' \in [Calls -> Replies]
        /\ \A d \in Calls :
             \/ reply'[d] = reply[d]
             \/ /\ d = m.call /\ Awaited(m) /\ reply'[d] = r
                /\ [call |-> d, n |-> attempt[d]] = m
    BY <1>2, AnswerEffect DEF IInv
  <1>4. UNCHANGED <<pc, attempt, ctx, lastErr, result, input, since>>
    BY DEF ServerStep
  <1> QED
    BY <1>1, <1>2, <1>3, <1>4, SessionStep DEF MovesBy

LEMMA WorldIInv ==
    ASSUME IInv, World
    PROVE  IInv'
  <1>1. Current.method \in Candidates \cup {NoMethod}
    BY HistoryFacts DEF States, IInv
  <1>2. MovesOn(Nobody)
    BY <1>1 DEF World, Pay, Expire, MovesOn
  <1> QED
    BY <1>2, SessionStep DEF World, clientVars, IInv, TypeOK, ClientTypeOK

-----------------------------------------------------------------------------
(* The theorems.                                                           *)

LEMMA NextIInv == IInv /\ [Next]_vars => IInv'
  <1> SUFFICES ASSUME IInv, [Next]_vars PROVE IInv'
    OBVIOUS
  <1>1. CASE UNCHANGED vars
    BY <1>1, SessionStep DEF vars, clientVars, IInv, TypeOK, ClientTypeOK
  <1>2. ASSUME NEW c \in Calls, NEW i \in Inputs, Start(c, i) PROVE IInv'
    BY <1>2, StartIInv
  <1>3. ASSUME NEW c \in Calls, ClientStep(c) PROVE IInv'
    BY <1>3, ClientIInv
  <1>4. ASSUME NEW c \in Calls, CancelCtx(c) PROVE IInv'
    BY <1>4, CancelIInv
  <1>5. ASSUME NEW m \in requests, ServerStep(m) PROVE IInv'
    BY <1>5, ServerIInv
  <1>6. CASE World
    BY <1>6, WorldIInv
  <1> QED
    BY <1>1, <1>2, <1>3, <1>4, <1>5, <1>6 DEF Next

\* The invariant of the calls, the exchanges in flight and the session.
THEOREM Invariance == Spec => []IInv
  <1>1. Init => IInv
    BY InitIInv
  <1>2. IInv /\ [Next]_vars => IInv'
    BY NextIInv
  <1> QED
    BY <1>1, <1>2, PTL DEF Spec

\* Every variable keeps its type.
THEOREM TypeCorrect == Spec => []TypeOK
  <1>1. IInv => TypeOK
    BY DEF IInv
  <1> QED
    BY <1>1, Invariance, PTL

\* All who are told of a payment method are told of the same one: a session is
\* selected for once, so the methods of its states, then and now, are one.
THEOREM OneSelection == Spec => []SelectionsConverge
  <1>1. IInv => SelectionsConverge
    <2> SUFFICES ASSUME IInv, NEW c \in Calls, NEW d \in Calls,
                        Shown(c), Told(c).method # NoMethod,
                        Shown(d), Told(d).method # NoMethod
                 PROVE  Told(c).method = Told(d).method
      BY DEF SelectionsConverge
    <2>1. ASSUME NEW e \in Calls, Shown(e) PROVE result[e].id \in DOMAIN history
      <3>1. TrueResult(e, result[e])
        BY DEF IInv, ResultsTrue
      <3>2. result[e].id \in Contract!During(e) \ {0}
        BY <2>1, <3>1 DEF TrueResult, Shown
      <3> QED
        BY <3>2, HistoryFacts DEF Contract!During, IInv
    <2> QED
      BY <2>1 DEF IInv, OneMethod, Told
  <1> QED
    BY <1>1, Invariance, PTL

\* A refused selection has bound nothing that can still be paid.
THEOREM RefusalBindsNothing == Spec => []RefusedSelectionBindsNothing
  <1>1. IInv => RefusedSelectionBindsNothing
    <2> SUFFICES ASSUME IInv, NEW c \in Calls, Refused(c),
                        input[c].op = "SelectCheckoutMethod"
                 PROVE  /\ \A m \in requests : m.call = c =>
                             ~Selectable(m) \/ Current.status = "expired"
                        /\ \A i \in DOMAIN history :
                             history[i].by = c => Current.status = "expired"
      BY DEF RefusedSelectionBindsNothing
    <2>1. CanSelect(c) => Current.status = "expired"
      BY DEF IInv, ResultsTrue, TrueResult, TrueRefusal, Refused
    <2>2. ASSUME NEW i \in DOMAIN history, history[i].by = c PROVE CanSelect(c)
      BY <2>2, NobodyAssumption DEF IInv, MovedByCaller, Settles
    <2> QED
      BY <2>1, <2>2 DEF Selectable, Is, MethodAsked, CanSelect
  <1> QED
    BY <1>1, Invariance, PTL

\* A payment or fulfilment refused at once was not made by the one refused.
THEOREM ConflictNotOurs == Spec => []ConflictAtOnceIsNotOurs
  <1>1. IInv => ConflictAtOnceIsNotOurs
    <2> SUFFICES ASSUME IInv, NEW c \in Calls, Refused(c), attempt[c] = 0,
                        input[c].op \in {"SimulatePayment", "FulfillDemoPaymentSession"}
                 PROVE  /\ \A i \in DOMAIN history : history[i].by # c
                        /\ \A m \in requests : m.call # c
      BY DEF ConflictAtOnceIsNotOurs
    <2>1. TrueRefusal(c) /\ [call |-> c, n |-> 0] \notin requests
      BY DEF IInv, ResultsTrue, TrueResult, Refused
    <2> QED
      BY <2>1, RequestFacts DEF TrueRefusal, Settles, NotMovedBy
  <1> QED
    BY <1>1, Invariance, PTL

-----------------------------------------------------------------------------
(* The contract.                                                           *)

\* Only a call that returns changes an answer.
LEMMA SameAnswers ==
    ASSUME UNCHANGED <<result, pc>>
    PROVE  [c \in Calls |-> AnswerOf(c)]' = [c \in Calls |-> AnswerOf(c)]
  BY DEF AnswerOf, Refused

LEMMA ContractInit == Init => Contract!Init
  <1> SUFFICES ASSUME Init PROVE Contract!Init
    OBVIOUS
  <1>1. DemoMethod \in Candidates
    BY CandidatesAssumption DEF DemoMethod
  <1>2. [c \in Calls |-> AnswerOf(c)] = [c \in Calls |-> Contract!Unanswered]
    BY DEF Init, ClientInit, AnswerOf, Contract!Unanswered
  <1> QED
    BY <1>1, <1>2 DEF Init, Contract!Init, Contract!Nothing, Nothing,
       Contract!Awaiting, Contract!Pending

\* Moving the session on without another method is what the contract calls it.
LEMMA SameMethod ==
    ASSUME NEW s, NEW b, Move(s, Current.method, b)
    PROVE  Contract!Becomes(s, b)
  BY DEF Move, Contract!Becomes, Contract!Current, Current

\* Handling a request moves the session on, or shows nothing to the callers.
LEMMA ContractServer ==
    ASSUME IInv, NEW m \in requests, ServerStep(m)
    PROVE  Contract!Next \/ UNCHANGED Contract!vars
  <1>1. /\ [c \in Calls |-> AnswerOf(c)]' = [c \in Calls |-> AnswerOf(c)]
        /\ UNCHANGED <<input, since>>
    BY SameAnswers DEF ServerStep
  <1>2. m.call \in Calls /\ TypeOK /\ OneMethod
    BY RequestFacts DEF IInv
  <1>3. Contract!Current = Current /\ Current \in States
    BY <1>2, HistoryFacts DEF Contract!Current, Current
  <1>4. CASE Materialize(m)
    <2>1. Current = Contract!Awaiting
      BY <1>2, <1>3, <1>4 DEF Materialize, OneMethod, States, Contract!Awaiting
    <2>2. Contract!Effect(m.call)
      BY <1>1, <1>3, <1>4, <2>1 DEF Materialize, Selectable, Is, MethodAsked, Move,
         Contract!Effect, Contract!Selects, Contract!Pending
    <2> QED
      BY <1>2, <2>2 DEF Contract!Next
  <1>5. CASE Settle(m)
    <2>1. Contract!Becomes("completed", m.call)
      BY <1>2, <1>5, SameMethod DEF Settle
    <2>2. Contract!Effect(m.call)
      BY <1>1, <1>3, <1>5, <2>1 DEF Settle, Is, Contract!Effect, Contract!Settles
    <2> QED
      BY <1>2, <2>2 DEF Contract!Next
  <1>6. CASE UNCHANGED history
    BY <1>1, <1>6 DEF Contract!vars
  <1> QED
    BY <1>4, <1>5, <1>6 DEF ServerStep, Read, Converge, Refuse, Unavailable

LEMMA ContractWorld ==
    ASSUME IInv, World
    PROVE  Contract!Next
  <1>1. /\ [c \in Calls |-> AnswerOf(c)]' = [c \in Calls |-> AnswerOf(c)]
        /\ UNCHANGED <<input, since>>
    BY SameAnswers DEF World, clientVars
  <1>2. TypeOK /\ OneMethod /\ Contract!Current = Current
    BY DEF IInv, Contract!Current, Current
  <1>3. Contract!World
    BY <1>1, <1>2, SameMethod DEF World, Pay, Expire, Contract!World
  <1> QED
    BY <1>3 DEF Contract!Next

\* A step of the loop answers the call once, or shows nothing to its caller.
LEMMA ContractClient ==
    ASSUME IInv, IInv', NEW c \in Calls, ClientStep(c)
    PROVE  Contract!Next \/ UNCHANGED Contract!vars
  <1> DEFINE answers == [d \in Calls |-> AnswerOf(d)]
  <1>1. ClientFrame(c)
    BY ClientStepFrame DEF IInv, TypeOK, ClientStep
  <1>2. UNCHANGED <<input, since, history>>
    BY DEF ClientStep
  <1>3. AnswerOf(c) = Contract!Unanswered
    BY <1>1 DEF ClientFrame, AnswerOf, Contract!Unanswered
  <1>4. answers' = [answers EXCEPT ![c] = AnswerOf(c)']
    <2>1. \A d \in Calls \ {c} : AnswerOf(d)' = AnswerOf(d)
      BY <1>1 DEF ClientFrame, AnswerOf, Refused
    <2> QED
      BY <2>1
  <1>5. CASE pc'[c] # "returned"
    <2>1. AnswerOf(c)' = AnswerOf(c)
      BY <1>3, <1>5 DEF AnswerOf, Contract!Unanswered
    <2> QED
      BY <1>2, <1>4, <2>1 DEF Contract!vars
  <1>6. CASE pc'[c] = "returned"
    <2>1. input[c] # Contract!Nothing
      <3>1. input[c] \in Inputs
        BY <1>1 DEF IInv, Started, ClientFrame
      <3> QED
        BY <3>1 DEF Contract!Nothing, Inputs, Ops
    <2>2. TrueResult(c, result[c])'
      BY DEF IInv, ResultsTrue
    <2>3. \A at : /\ Contract!During(c)' = Contract!During(c)
                  /\ Contract!Succeed(c, at)' = Contract!Succeed(c, at)
                  /\ Contract!Conflict(c, at)' = Contract!Conflict(c, at)
      BY <1>2 DEF Contract!During, Contract!Succeed, Contract!Conflict,
         Contract!Selects, Contract!Settles, Contract!IsIntent
    <2>4. CASE result'[c].kind = "ok"
      <3>1. AnswerOf(c)' = [kind |-> "ok", at |-> result'[c].id]
        BY <1>6, <2>4 DEF AnswerOf
      <3>2. PICK at \in Contract!During(c) :
              /\ Contract!Succeed(c, at)
              /\ result'[c].id = IF input[c].op = "FulfillDemoPaymentSession"
                                   THEN 0 ELSE at
        BY <1>2, <2>2, <2>3, <2>4 DEF TrueResult
      <3> QED
        BY <1>2, <1>3, <1>4, <2>1, <3>1, <3>2 DEF Contract!Next, Contract!Reply
    <2>5. CASE Refused(c)'
      <3>1. AnswerOf(c)' = [kind |-> "conflict", at |-> 0]
        BY <1>6, <2>5 DEF AnswerOf, Refused
      <3>2. PICK at \in Contract!During(c) : Contract!Conflict(c, at)
        BY <2>2, <2>3, <2>5 DEF TrueResult, TrueRefusal, Refused
      <3> QED
        BY <1>2, <1>3, <1>4, <2>1, <3>1, <3>2 DEF Contract!Next, Contract!Reply
    <2>6. CASE result'[c].kind # "ok" /\ ~Refused(c)'
      <3>1. AnswerOf(c)' = [kind |-> "error", at |-> 0]
        BY <1>6, <2>6 DEF AnswerOf, Refused
      <3> QED
        BY <1>2, <1>3, <1>4, <2>1, <3>1 DEF Contract!Next, Contract!Reply
    <2> QED
      BY <2>4, <2>5, <2>6
  <1> QED
    BY <1>5, <1>6

\* The calls on a session, their attempts, the exchanges and the service
\* together behave as the contract of those calls says.
THEOREM Implements == Spec => ImplementsContract
  <1>1. Init => Contract!Init
    BY ContractInit
  <1>2. IInv /\ IInv' /\ [Next]_vars => [Contract!Next]_(Contract!vars)
    <2> SUFFICES ASSUME IInv, IInv', [Next]_vars
                 PROVE  Contract!Next \/ UNCHANGED Contract!vars
      OBVIOUS
    <2>1. CASE UNCHANGED vars
      BY <2>1, SameAnswers DEF vars, clientVars, Contract!vars
    <2>2. ASSUME NEW c \in Calls, NEW i \in Inputs, Start(c, i)
          PROVE  Contract!Next
      <3>1. input[c] = Contract!Nothing
        BY <2>2 DEF Start, Enter, IInv, Started, Nothing, Contract!Nothing
      <3>2. [d \in Calls |-> AnswerOf(d)]' = [d \in Calls |-> AnswerOf(d)]
        <4>1. \A d \in Calls : (pc'[d] = "returned") <=> (pc[d] = "returned")
          BY <2>2 DEF Start, Enter, IInv, TypeOK, ClientTypeOK
        <4> QED
          BY <2>2, <4>1 DEF Start, Enter, AnswerOf, Refused
      <3>3. i \in Contract!Inputs
        BY DEF Inputs, Ops, Contract!Inputs, Contract!Ops
      <3> QED
        BY <2>2, <3>1, <3>2, <3>3 DEF Contract!Next, Contract!Ask, Start
    <2>3. ASSUME NEW c \in Calls, ClientStep(c)
          PROVE  Contract!Next \/ UNCHANGED Contract!vars
      BY <2>3, ContractClient
    <2>4. ASSUME NEW c \in Calls, CancelCtx(c) PROVE UNCHANGED Contract!vars
      BY <2>4, SameAnswers DEF CancelCtx, Cancel, Contract!vars
    <2>5. ASSUME NEW m \in requests, ServerStep(m)
          PROVE  Contract!Next \/ UNCHANGED Contract!vars
      BY <2>5, ContractServer
    <2>6. CASE World
      BY <2>6, ContractWorld
    <2> QED
      BY <2>1, <2>2, <2>3, <2>4, <2>5, <2>6 DEF Next
  <1> QED
    BY <1>1, <1>2, Invariance, PTL DEF Spec, ImplementsContract, Contract!Spec
=============================================================================
