---------------------------- MODULE DoJSONProofs ----------------------------
(***************************************************************************)
(* Facts about the steps of a call that hold under any service: the types  *)
(* are kept, what a step of one call may change, and what it returns.      *)
(***************************************************************************)
EXTENDS DoJSON, Sequences, TLAPS

\* Appending to a list of resources or states.
LEMMA AppendFacts ==
    ASSUME NEW S, NEW s \in Seq(S), NEW e \in S
    PROVE  /\ Append(s, e) \in Seq(S)
           /\ Len(Append(s, e)) = Len(s) + 1
           /\ DOMAIN Append(s, e) = 1 .. Len(s) + 1
           /\ DOMAIN s = 1 .. Len(s)
           /\ Len(s) \in Nat
           /\ \A i \in 1 .. Len(s) : Append(s, e)[i] = s[i]
           /\ Append(s, e)[Len(s) + 1] = e
  OBVIOUS

\* A response decodes to an outcome of the call.
LEMMA DecodeType ==
    ASSUME NEW r \in Replies, NEW w \in BOOLEAN, NEW intact \in BOOLEAN
    PROVE  DecodeResponse(r, w, intact) \in Outcomes
  BY DEF DecodeResponse, Replies, Outcomes, Kinds

LEMMA PlainType ==
    ASSUME NEW k \in Kinds
    PROVE  Plain(k) \in Outcomes
  BY DEF Plain, Outcomes

\* The end of an attempt keeps the loop variable below MaxAttempts.
LEMMA FailAttemptType ==
    ASSUME ClientTypeOK, NEW c \in Calls, NEW e \in Outcomes,
           FailAttempt(c, e)
    PROVE  /\ pc' \in [Calls -> {"idle", "ready", "wait", "backoff", "returned"}]
           /\ attempt' \in [Calls -> Attempts]
           /\ lastErr' \in [Calls -> Outcomes]
           /\ result' \in [Calls -> Outcomes]
  <1>1. Plain("none") \in Outcomes
    BY PlainType DEF Kinds
  <1>2. CASE LastAttempt(c)
    BY <1>1, <1>2 DEF FailAttempt, Return, ClientTypeOK
  <1>3. CASE ~LastAttempt(c)
    <2>1. attempt[c] + 1 \in Attempts
      BY <1>3, AttemptsAssumption DEF LastAttempt, Attempts, ClientTypeOK
    <2> QED
      BY <1>3, <2>1 DEF FailAttempt, ClientTypeOK
  <1> QED
    BY <1>2, <1>3

\* What a step of call c does to the calls: c goes from a state of the loop
\* to another, and every other call is left alone.
ClientFrame(c) ==
    /\ \A d \in Calls \ {c} :
         /\ pc'[d] = pc[d]
         /\ attempt'[d] = attempt[d]
         /\ result'[d] = result[d]
         /\ reply'[d] = reply[d]
    /\ pc[c] \notin {"idle", "returned"}
    /\ pc'[c] # "idle"
    /\ attempt'[c] = attempt[c] \/ (attempt'[c] = attempt[c] + 1 /\ pc'[c] = "backoff")
    /\ pc'[c] = "backoff" => attempt'[c] = attempt[c] + 1
    /\ pc'[c] = "ready" => pc[c] = "backoff" /\ attempt'[c] = attempt[c]
    /\ pc'[c] # "returned" => result'[c] = result[c]
    /\ \/ requests' = requests
       \/ /\ requests' = requests \cup {[call |-> c, n |-> attempt[c]]}
          /\ pc[c] = "ready" /\ pc'[c] = "wait"
          /\ UNCHANGED <<attempt, result, reply>>
    /\ reply'[c] = reply[c] \/ reply'[c] = NoReply
    /\ pc[c] = "wait" =>
         /\ reply'[c] = NoReply
         /\ pc'[c] = "returned" \/ attempt'[c] = attempt[c] + 1

LEMMA ClientStepType ==
    ASSUME ClientTypeOK, NEW c \in Calls, NEW w \in BOOLEAN, Client(c, w)
    PROVE  ClientTypeOK'
  <1> USE DEF ClientTypeOK
  <1>1. CASE Send(c)
    <2>1. [call |-> c, n |-> attempt[c]] \in Requests
      BY DEF Requests
    <2> QED
      BY <1>1, <2>1 DEF Send
  <1>2. CASE SendCancelled(c)
    <2>1. Plain("transport") \in Outcomes
      BY PlainType DEF Kinds
    <2> QED
      BY <1>2, <2>1, FailAttemptType DEF SendCancelled
  <1>3. CASE Abort(c)
    <2>1. Plain("transport") \in Outcomes
      BY PlainType DEF Kinds
    <2>2. reply' \in [Calls -> Replies]
      BY <1>3 DEF Abort, Hangup, NoReply, Replies
    <2> QED
      BY <1>3, <2>1, <2>2, FailAttemptType DEF Abort
  <1>4. CASE Receive(c, w)
    <2>1. reply' \in [Calls -> Replies]
      BY <1>4 DEF Receive, Hangup, NoReply, Replies
    <2>2. PICK intact \in BOOLEAN :
            LET o == DecodeResponse(reply[c], w, intact)
            IN  IF Transient(o) THEN FailAttempt(c, o) ELSE Return(c, o)
      BY <1>4 DEF Receive
    <2> DEFINE o == DecodeResponse(reply[c], w, intact)
    <2>3. o \in Outcomes
      BY DecodeType
    <2>4. Plain("none") \in Outcomes
      BY PlainType DEF Kinds
    <2> HIDE DEF o
    <2>5. CASE Transient(o)
      <3>1. FailAttempt(c, o)
        BY <2>2, <2>5 DEF o
      <3> QED
        BY <1>4, <2>1, <2>3, <3>1, FailAttemptType DEF Receive
    <2>6. CASE ~Transient(o)
      <3>1. Return(c, o)
        BY <2>2, <2>6 DEF o
      <3> QED
        BY <1>4, <2>1, <2>3, <2>4, <3>1 DEF Receive, Return
    <2> QED
      BY <2>5, <2>6
  <1>5. CASE BackoffElapsed(c)
    BY <1>5 DEF BackoffElapsed
  <1>6. CASE BackoffCancelled(c)
    <2>1. Plain("cancelled") \in Outcomes /\ Plain("none") \in Outcomes
      BY PlainType DEF Kinds
    <2> QED
      BY <1>6, <2>1 DEF BackoffCancelled, Return
  <1> QED
    BY <1>1, <1>2, <1>3, <1>4, <1>5, <1>6 DEF Client

LEMMA ClientStepFrame ==
    ASSUME ClientTypeOK, NEW c \in Calls, NEW w \in BOOLEAN, Client(c, w)
    PROVE  ClientFrame(c)
  <1> USE DEF ClientTypeOK, ClientFrame
  <1>1. CASE Send(c)
    BY <1>1 DEF Send
  <1>2. CASE SendCancelled(c)
    BY <1>2 DEF SendCancelled, FailAttempt, Return
  <1>3. CASE Abort(c)
    BY <1>3 DEF Abort, FailAttempt, Return, Hangup
  <1>4. CASE Receive(c, w)
    BY <1>4 DEF Receive, FailAttempt, Return, Hangup
  <1>5. CASE BackoffElapsed(c)
    BY <1>5 DEF BackoffElapsed
  <1>6. CASE BackoffCancelled(c)
    BY <1>6 DEF BackoffCancelled, Return
  <1> QED
    BY <1>1, <1>2, <1>3, <1>4, <1>5, <1>6 DEF Client
\* A call returns what a response said, or an error that claims nothing.
LEMMA ClientReturns ==
    ASSUME ClientTypeOK, NEW c \in Calls, NEW w \in BOOLEAN, Client(c, w),
           pc'[c] = "returned"
    PROVE  \/ result'[c] \in {Plain("transport"), Plain("cancelled")}
           \/ /\ pc[c] = "wait" /\ reply[c] # NoReply
              /\ attempt'[c] = attempt[c]
              /\ \E intact \in BOOLEAN :
                   result'[c] = DecodeResponse(reply[c], w, intact)
  <1> USE DEF ClientTypeOK, Return
  <1>1. CASE Send(c)
    BY <1>1 DEF Send
  <1>2. CASE SendCancelled(c)
    BY <1>2 DEF SendCancelled, FailAttempt
  <1>3. CASE Abort(c)
    <2>1. LastAttempt(c) /\ Return(c, Plain("transport"))
      BY <1>3 DEF Abort, FailAttempt
    <2> QED
      BY <2>1
  <1>4. CASE Receive(c, w)
    <2>1. PICK intact \in BOOLEAN :
            LET o == DecodeResponse(reply[c], w, intact)
            IN  IF Transient(o) THEN FailAttempt(c, o) ELSE Return(c, o)
      BY <1>4 DEF Receive
    <2> DEFINE o == DecodeResponse(reply[c], w, intact)
    <2>2. o \in Outcomes
      BY DecodeType
    <2> HIDE DEF o
    <2>3. FailAttempt(c, o) \/ Return(c, o)
      BY <2>1 DEF o
    <2>4. result'[c] = o /\ attempt'[c] = attempt[c]
      BY <2>2, <2>3 DEF FailAttempt
    <2> QED
      BY <1>4, <2>4 DEF Receive, o
  <1>5. CASE BackoffElapsed(c)
    BY <1>5 DEF BackoffElapsed
  <1>6. CASE BackoffCancelled(c)
    BY <1>6 DEF BackoffCancelled
  <1> QED
    BY <1>1, <1>2, <1>3, <1>4, <1>5, <1>6 DEF Client
=============================================================================
