--------------------------- MODULE SessionPollProofs ---------------------------
(***************************************************************************)
(* Proofs about SessionPoll, for any number of helpers, rounds and         *)
(* attempts, any answers of the service and any options.                   *)
(***************************************************************************)
EXTENDS SessionPoll, DoJSONProofs

-----------------------------------------------------------------------------
(* The inductive invariant.                                                *)

\* No status comes after a final one.
FinalIsLast ==
    /\ Len(history) > 0
    /\ \A i \in DOMAIN history : IsTerminal(history[i]) => i = Len(history)

\* A position of the history, if any.
IsRead(i) == i # 0 => i \in 1 .. Len(history)

\* GetPaymentSession runs in the rounds and nowhere else.
Rounds(c) ==
    /\ stage[c] = "get" <=> pc[c] # "idle"
    /\ helper[c] = "WaitForPaymentSession" =>
         /\ stage[c] = "new" => round[c] = 0
         /\ stage[c] = "sleep" => round[c] < MaxRounds

ReadsTrue(c) ==
    /\ reply[c] # NoReply => pc[c] = "wait"
    /\ reply[c].status # 204 /\ IsRead(reply[c].id)
    /\ reply[c] # NoReply /\ reply[c].id = 0 => reply[c].status >= 400
    /\ result[c].kind = "ok" =>
         pc[c] = "returned" /\ result[c].id # 0 /\ IsRead(result[c].id)

EndTrue(c) ==
    LET o == outcome[c] IN
    /\ o.kind # "none" => stage[c] = "end"
    /\ o.kind = "session" => o.at \in DOMAIN history /\ IsTerminal(history[o.at])
    /\ o.kind \in {"timeout", "not_settled"} => IsRead(o.at)
    /\ helper[c] = "WaitForPaymentSession" /\ o.kind = "timeout" =>
         round[c] = MaxRounds /\ o.at # 0 /\ ~IsTerminal(history[o.at])

CallInv(c) ==
    /\ Rounds(c)
    /\ ReadsTrue(c)
    /\ EndTrue(c)
    /\ stage[c] = "receipt" => IsSuccess(Current)

IInv ==
    /\ TypeOK
    /\ FinalIsLast
    /\ \A c \in Calls : CallInv(c)

-----------------------------------------------------------------------------
(* The session.                                                            *)

LEMMA StatusFacts ==
    ASSUME NEW s \in Statuses
    PROVE  /\ IsTerminal(s) <=> Successors(s) = {}
           /\ Successors(s) \subseteq Statuses
           /\ IsSuccess(s) => IsTerminal(s)
  BY DEF Statuses, IsTerminal, Successors, IsSuccess

LEMMA HistoryFacts ==
    ASSUME TypeOK, FinalIsLast
    PROVE  /\ history \in Seq(Statuses) /\ Len(history) \in Nat \ {0}
           /\ DOMAIN history = 1 .. Len(history)
           /\ Current \in Statuses /\ Len(history) \in DOMAIN history
  BY DEF TypeOK, FinalIsLast, Current

\* What the session does to what is known of it.
Grows == UNCHANGED history \/ \E s \in Successors(Current) : history' = Append(history, s)

LEMMA GrowsFacts ==
    ASSUME TypeOK, FinalIsLast, Grows
    PROVE  /\ history' \in Seq(Statuses) /\ FinalIsLast'
           /\ Len(history)' >= Len(history) /\ Len(history)' \in Nat
           /\ \A i \in DOMAIN history : i \in DOMAIN history' /\ history'[i] = history[i]
           /\ IsSuccess(Current) => IsSuccess(Current)'
  <1>1. CASE UNCHANGED history
    BY <1>1, HistoryFacts DEF FinalIsLast, Current
  <1>2. CASE \E s \in Successors(Current) : history' = Append(history, s)
    <2>1. PICK s \in Statuses : history' = Append(history, s) /\ Successors(Current) # {}
      BY <1>2, HistoryFacts, StatusFacts
    <2>2. /\ history' \in Seq(Statuses)
          /\ Len(history') = Len(history) + 1
          /\ DOMAIN history' = 1 .. Len(history) + 1
          /\ \A i \in 1 .. Len(history) : history'[i] = history[i]
      BY <2>1, HistoryFacts, AppendFacts
    <2>3. ~IsTerminal(Current)
      BY <2>1, HistoryFacts, StatusFacts
    <2>4. \A i \in 1 .. Len(history) : ~IsTerminal(history[i])
      BY <2>3, HistoryFacts DEF FinalIsLast, Current
    <2>5. FinalIsLast'
      BY <2>2, <2>4, HistoryFacts DEF FinalIsLast
    <2>6. ~IsSuccess(Current)
      BY <2>3, HistoryFacts, StatusFacts
    <2> QED
      BY <2>2, <2>5, <2>6, HistoryFacts
  <1> QED
    BY <1>1, <1>2 DEF Grows

\* A call that takes no step is not disturbed by the session.
Rests(c) ==
    /\ pc'[c] = pc[c] /\ reply'[c] = reply[c] /\ result'[c] = result[c]
    /\ helper'[c] = helper[c] /\ stage'[c] = stage[c] /\ round'[c] = round[c]
    /\ outcome'[c] = outcome[c]

LEMMA RestsCallInv ==
    ASSUME IInv, Grows, NEW c \in Calls, Rests(c)
    PROVE  CallInv(c)'
  <1> USE DEF IInv, Rests
  <1>1. CallInv(c) /\ reply[c].id \in Nat /\ result[c].id \in Nat
        /\ outcome[c].at \in Nat
    BY DEF TypeOK, ClientTypeOK, Replies, Outcomes
  <1>2. \A i \in Nat : IsRead(i) => IsRead(i)'
    BY <1>1, GrowsFacts, HistoryFacts DEF IsRead
  <1>3. Rounds(c)'
    BY <1>1 DEF CallInv, Rounds
  <1>4. ReadsTrue(c)'
    BY <1>1, <1>2 DEF CallInv, ReadsTrue
  <1>5. EndTrue(c)'
    <2>1. /\ outcome[c].kind \in {"timeout", "not_settled"} => IsRead(outcome[c].at)'
          /\ outcome[c].at # 0 /\ IsRead(outcome[c].at) =>
               outcome[c].at \in DOMAIN history
      <3>1. outcome[c].at # 0 => outcome[c].at \in Nat \ {0}
        BY <1>1
      <3> QED
        BY <1>1, <1>2, <3>1, HistoryFacts DEF CallInv, EndTrue, IsRead
    <2> QED
      BY <1>1, <2>1, GrowsFacts DEF CallInv, EndTrue
  <1> QED
    BY <1>1, <1>3, <1>4, <1>5, GrowsFacts DEF CallInv

\* A step of one call: the others rest.
LEMMA OneSteps ==
    ASSUME IInv, TypeOK', Grows, NEW c \in Calls, CallInv(c)',
           \A d \in Calls \ {c} : Rests(d)
    PROVE  IInv'
  <1>1. \A d \in Calls \ {c} : CallInv(d)'
    BY RestsCallInv
  <1> QED
    BY <1>1, GrowsFacts DEF IInv

-----------------------------------------------------------------------------
(* The invariant holds at first.                                           *)

LEMMA IntervalFacts ==
    ASSUME options \in [Calls -> Options], NEW c \in Calls
    PROVE  FirstInterval(c) \in Durations /\ MaxInterval(c) \in Durations
  BY OptionsAssumption DEF FirstInterval, MaxInterval, Positive, Durations

LEMMA InitIInv == Init => IInv
  <1> SUFFICES ASSUME Init PROVE IInv
    OBVIOUS
  <1> USE DEF Init, ClientInit
  <1>1. /\ Plain("none") \in Outcomes /\ NoReply \in Replies /\ 0 \in Attempts
        /\ Plain("none").kind = "none"
        /\ NoReply.status = 0 /\ NoReply.id = 0
    BY AttemptsAssumption
       DEF Plain, Outcomes, Kinds, NoReply, Replies, Attempts
  <1>2. /\ history \in Seq(Statuses) /\ Len(history) = 1 /\ DOMAIN history = {1}
        /\ history[1] = "pending"
    BY DEF Statuses
  <1>3. TypeOK
    <2>1. ClientTypeOK
      BY <1>1 DEF ClientTypeOK
    <2>2. interval \in [Calls -> Durations]
      BY IntervalFacts
    <2>3. [kind |-> "none", at |-> 0] \in [kind : Endings, at : 0 .. Len(history)]
      BY <1>2 DEF Endings
    <2> QED
      BY <1>2, <2>1, <2>2, <2>3, RoundsAssumption DEF TypeOK
  <1>4. FinalIsLast
    BY <1>2 DEF FinalIsLast, IsTerminal
  <1>5. ASSUME NEW c \in Calls PROVE CallInv(c)
    BY <1>1 DEF CallInv, Rounds, ReadsTrue, EndTrue, IsRead
  <1> QED
    BY <1>3, <1>4, <1>5 DEF IInv

-----------------------------------------------------------------------------
(* Every step keeps it.                                                    *)

LEMMA AdvanceIInv ==
    ASSUME IInv, Advance
    PROVE  IInv'
  <1> USE DEF IInv
  <1>1. Grows
    BY DEF Advance, Grows
  <1>2. UNCHANGED <<clientVars, helperVars>>
    BY DEF Advance
  <1>3. TypeOK'
    BY <1>1, <1>2, GrowsFacts, HistoryFacts
       DEF TypeOK, ClientTypeOK, clientVars, helperVars
  <1>4. \A c \in Calls : Rests(c)
    BY <1>2 DEF Rests, clientVars, helperVars
  <1> QED
    BY <1>1, <1>3, <1>4, RestsCallInv, GrowsFacts

LEMMA ServeIInv ==
    ASSUME IInv, NEW m \in requests, Serve(m)
    PROVE  IInv'
  <1> USE DEF IInv
  <1>1. UNCHANGED <<pc, attempt, ctx, lastErr, result, helperVars, history>> /\ Grows
    BY DEF Serve, Grows
  <1>2. m.call \in Calls /\ Len(history) \in Nat \ {0}
    BY HistoryFacts DEF TypeOK, ClientTypeOK, Requests
  <1>3. PICK r \in Replies :
          /\ Answer(m, r)
          /\ r.status # 204 /\ r.id \in {0, Len(history)}
          /\ r.id = 0 => r.status >= 400
    <2>1. [status |-> 200, code |-> 0, id |-> Len(history)] \in Replies
      BY <1>2 DEF Replies
    <2>2. \A s \in Refusals : s >= 400 /\ [status |-> s, code |-> 0, id |-> 0] \in Replies
      BY RefusalsAssumption DEF Replies
    <2>3. CASE Answer(m, [status |-> 200, code |-> 0, id |-> Len(history)])
      BY <1>2, <2>1, <2>3
    <2>4. CASE \E s \in Refusals : Answer(m, [status |-> s, code |-> 0, id |-> 0])
      BY <2>2, <2>4
    <2> QED
      BY <2>3, <2>4 DEF Serve
  <1>4. reply' \in [Calls -> Replies] /\ requests' \subseteq requests
    BY <1>2, <1>3 DEF Answer, TypeOK, ClientTypeOK
  <1>5. TypeOK'
    BY <1>1, <1>4 DEF TypeOK, ClientTypeOK, helperVars
  <1>6. \A d \in Calls \ {m.call} : Rests(d)
    BY <1>1, <1>3 DEF Rests, Answer, helperVars, TypeOK, ClientTypeOK
  <1>7. CASE reply' = reply
    <2>1. Rests(m.call)
      BY <1>1, <1>7 DEF Rests, helperVars
    <2> QED
      BY <1>1, <1>2, <1>5, <1>6, <2>1, RestsCallInv, OneSteps
  <1>8. CASE reply' # reply
    <2>1. PICK c \in Calls : c = m.call
      BY <1>2
    <2>2. reply'[c] = r /\ pc[c] = "wait"
      BY <1>2, <1>3, <1>8, <2>1 DEF Answer, Awaited, TypeOK, ClientTypeOK
    <2>3. CallInv(c) /\ \A d \in Calls \ {c} : Rests(d)
      BY <1>6, <2>1
    <2>4. IsRead(r.id)
      BY <1>2, <1>3, <2>3 DEF IsRead
    <2>5. ReadsTrue(c)'
      BY <1>1, <1>3, <2>2, <2>3, <2>4 DEF CallInv, ReadsTrue, IsRead, helperVars
    <2>6. Rounds(c)' /\ EndTrue(c)' /\ (stage[c] = "receipt" => IsSuccess(Current))'
      BY <1>1, <2>3 DEF CallInv, Rounds, EndTrue, IsRead, Current, helperVars
    <2>7. CallInv(c)'
      BY <2>5, <2>6 DEF CallInv
    <2> QED
      BY <1>1, <1>5, <2>3, <2>7, OneSteps
  <1> QED
    BY <1>7, <1>8

LEMMA ClientIInv ==
    ASSUME IInv, NEW c \in Calls, ClientStep(c)
    PROVE  IInv'
  <1> USE DEF IInv, ClientStep
  <1>1. ClientTypeOK /\ ClientTypeOK'
    BY ClientStepType DEF TypeOK
  <1>2. ClientFrame(c)
    BY <1>1, ClientStepFrame
  <1>3. UNCHANGED <<helperVars, history>> /\ Grows
    BY DEF Grows
  <1>4. TypeOK'
    BY <1>1, <1>3 DEF TypeOK, helperVars
  <1>5. \A d \in Calls \ {c} : Rests(d)
    BY <1>2, <1>3 DEF Rests, ClientFrame, helperVars
  <1>6. CallInv(c)
    OBVIOUS
  <1>7. Rounds(c)' /\ EndTrue(c)' /\ (stage[c] = "receipt" => IsSuccess(Current))'
    BY <1>2, <1>3, <1>6
       DEF CallInv, Rounds, EndTrue, IsRead, Current, helperVars, ClientFrame
  <1>8. /\ reply'[c] # NoReply => pc'[c] = "wait"
        /\ reply'[c].status # 204 /\ IsRead(reply'[c].id)
        /\ reply'[c] # NoReply /\ reply'[c].id = 0 => reply'[c].status >= 400
    <2>1. reply'[c] = NoReply \/ (reply'[c] = reply[c] /\ pc[c] # "wait")
      BY <1>2 DEF ClientFrame
    <2>2. reply'[c] = NoReply
      BY <1>6, <2>1 DEF CallInv, ReadsTrue
    <2> QED
      BY <2>2 DEF NoReply, IsRead
  <1>9. result'[c].kind = "ok" =>
          pc'[c] = "returned" /\ result'[c].id # 0 /\ IsRead(result'[c].id)
    <2>1. CASE pc'[c] # "returned"
      <3>1. result'[c] = result[c] /\ pc[c] # "returned"
        BY <1>2, <2>1 DEF ClientFrame
      <3> QED
        BY <1>6, <3>1 DEF CallInv, ReadsTrue
    <2>2. CASE result'[c] \in {Plain("transport"), Plain("cancelled")}
      BY <2>2 DEF Plain
    <2>3. CASE /\ pc'[c] = "returned"
               /\ reply[c] # NoReply
               /\ \E intact \in BOOLEAN :
                    result'[c] = DecodeResponse(reply[c], TRUE, intact)
      <3>1. result'[c].kind = "ok" /\ reply[c].status # 204 =>
              result'[c].id # 0 /\ result'[c].id = reply[c].id
        <4>1. reply[c].status < 400 => reply[c].id # 0
          BY <1>1, <1>6, <2>3 DEF CallInv, ReadsTrue, ClientTypeOK, Replies
        <4> QED
          BY <1>1, <2>3, <4>1 DEF DecodeResponse, ClientTypeOK, Replies
      <3> QED
        BY <1>6, <2>3, <3>1 DEF CallInv, ReadsTrue
    <2> QED
      BY <1>1, <2>1, <2>2, <2>3, ClientReturns
  <1>10. ReadsTrue(c)'
    BY <1>3, <1>8, <1>9 DEF ReadsTrue, IsRead, helperVars
  <1>11. CallInv(c)'
    BY <1>7, <1>10 DEF CallInv
  <1> QED
    BY <1>3, <1>4, <1>5, <1>11, OneSteps

LEMMA ExpireIInv ==
    ASSUME IInv, NEW c \in Calls, NEW why \in {"parent", "deadline"}, Expire(c, why)
    PROVE  IInv'
  <1> USE DEF IInv, Expire
  <1>1. TypeOK' /\ Grows /\ \A d \in Calls : Rests(d)
    BY DEF TypeOK, ClientTypeOK, Grows, Rests
  <1> QED
    BY <1>1, RestsCallInv, GrowsFacts

\* A round begins.
LEMMA BeginIInv ==
    ASSUME IInv, NEW c \in Calls, stage[c] \in {"new", "sleep"}, GetPaymentSession(c),
           interval' \in [Calls -> Durations]
    PROVE  IInv'
  <1> USE DEF IInv, GetPaymentSession, Enter
  <1>1. CallInv(c) /\ Len(history) \in Nat /\ round[c] \in 0 .. MaxRounds
    BY HistoryFacts DEF TypeOK
  <1>2. helper[c] = "WaitForPaymentSession" => round[c] + 1 \in 0 .. MaxRounds
    BY <1>1, RoundsAssumption DEF CallInv, Rounds
  <1>3. ClientTypeOK'
    BY DEF TypeOK, ClientTypeOK
  <1>4. round' \in [Calls -> 0 .. MaxRounds]
    BY <1>2 DEF TypeOK
  <1>6. TypeOK' /\ Grows
    BY <1>3, <1>4 DEF TypeOK, Grows
  <1>7. \A d \in Calls \ {c} : Rests(d)
    BY DEF Rests, TypeOK, ClientTypeOK
  <1>8. /\ pc'[c] = "ready" /\ stage'[c] = "get"
        /\ reply'[c] = NoReply /\ result'[c].kind # "ok"
        /\ outcome'[c].kind = "none"
    BY <1>1 DEF CallInv, ReadsTrue, EndTrue, TypeOK, ClientTypeOK
  <1>9. CallInv(c)'
    BY <1>8 DEF CallInv, Rounds, ReadsTrue, EndTrue, IsRead, NoReply
  <1> QED
    BY <1>6, <1>7, <1>9, OneSteps

LEMMA NextIntervalType ==
    ASSUME TypeOK, NEW c \in Calls, NEW i \in NextInterval(c)
    PROVE  i \in Durations
  <1>1. BackedOff(c) \subseteq Durations
    BY OptionsAssumption DEF BackedOff, Durations
  <1> QED
    BY <1>1, IntervalFacts DEF NextInterval, TypeOK

LEMMA OpenIInv ==
    ASSUME IInv, NEW c \in Calls, Open(c)
    PROVE  IInv'
  BY BeginIInv DEF Open, IInv, TypeOK

LEMMA SleepElapsedIInv ==
    ASSUME IInv, NEW c \in Calls, SleepElapsed(c)
    PROVE  IInv'
  <1>1. interval' \in [Calls -> Durations]
    <2>1. CASE helper[c] = "PollSession"
      <3>1. PICK i \in NextInterval(c) : interval' = [interval EXCEPT ![c] = i]
        BY <2>1 DEF SleepElapsed
      <3> QED
        BY <3>1, NextIntervalType DEF IInv, TypeOK
    <2>2. CASE helper[c] # "PollSession"
      BY <2>2 DEF SleepElapsed, IInv, TypeOK
    <2> QED
      BY <2>1, <2>2
  <1> QED
    BY <1>1, BeginIInv DEF SleepElapsed

\* What a helper that ends may say.
MayEnd(c, kind, at) ==
    /\ kind \in Endings \ {"none"} /\ at \in 0 .. Len(history)
    /\ kind = "session" => at # 0 /\ IsTerminal(history[at])
    /\ kind \in {"timeout", "not_settled"} => IsRead(at)
    /\ helper[c] = "WaitForPaymentSession" /\ kind = "timeout" =>
         round[c] = MaxRounds /\ at # 0 /\ ~IsTerminal(history[at])

LEMMA EndFacts ==
    ASSUME IInv, NEW c \in Calls, NEW kind, NEW at, MayEnd(c, kind, at), End(c, kind, at),
           UNCHANGED <<helper, round, history>>
    PROVE  /\ EndTrue(c)' /\ stage'[c] = "end"
           /\ stage' \in [Calls -> {"new", "get", "sleep", "receipt", "end"}]
           /\ outcome' \in [Calls -> [kind : Endings, at : 0 .. Len(history)]]
           /\ \A d \in Calls \ {c} : stage'[d] = stage[d] /\ outcome'[d] = outcome[d]
  <1> USE DEF IInv, TypeOK, MayEnd, End
  <1>1. stage'[c] = "end" /\ outcome'[c] = [kind |-> kind, at |-> at]
    OBVIOUS
  <1>2. outcome'[c].kind = kind /\ outcome'[c].at = at
    BY <1>1
  <1>3. at # 0 => at \in DOMAIN history
    BY HistoryFacts
  <1>4. EndTrue(c)'
    BY <1>1, <1>2, <1>3 DEF EndTrue, IsRead
  <1> QED
    BY <1>1, <1>4

\* A helper that sleeps or fetches the receipt ends.
LEMMA StopIInv ==
    ASSUME IInv, NEW c \in Calls, stage[c] \in {"sleep", "receipt"},
           NEW kind, NEW at, MayEnd(c, kind, at), End(c, kind, at),
           UNCHANGED <<clientVars, helper, round, options, interval, cause, history>>
    PROVE  IInv'
  <1> USE DEF IInv
  <1>1. CallInv(c) /\ Grows
    BY DEF Grows
  <1>2. TypeOK'
    BY EndFacts DEF TypeOK, ClientTypeOK, clientVars
  <1>3. \A d \in Calls \ {c} : Rests(d)
    BY EndFacts DEF Rests, clientVars
  <1>4. stage'[c] = "end" /\ EndTrue(c)'
    BY EndFacts
  <1>5. CallInv(c)'
    BY <1>1, <1>4 DEF CallInv, Rounds, ReadsTrue, IsRead, clientVars
  <1> QED
    BY <1>1, <1>2, <1>3, <1>5, OneSteps

LEMMA SleepCancelledIInv ==
    ASSUME IInv, NEW c \in Calls, SleepCancelled(c)
    PROVE  IInv'
  <1>1. PICK kind : /\ kind = IF helper[c] = "PollSession" THEN "timeout" ELSE "error"
                    /\ End(c, kind, 0)
    BY DEF SleepCancelled
  <1>2. MayEnd(c, kind, 0)
    BY <1>1, HistoryFacts DEF MayEnd, IsRead, Endings, IInv
  <1> QED
    BY <1>1, <1>2, StopIInv DEF SleepCancelled

LEMMA GetReceiptPDFIInv ==
    ASSUME IInv, NEW c \in Calls, GetReceiptPDF(c)
    PROVE  IInv'
  <1>1. PICK kind, at :
          kind \in {"receipt", "error"} /\ at \in {0, Len(history)} /\ End(c, kind, at)
    BY DEF GetReceiptPDF
  <1>2. MayEnd(c, kind, at)
    <2>1. at \in 0 .. Len(history)
      <3>1. \A l \in Nat : 0 \in 0 .. l /\ l \in 0 .. l
        OBVIOUS
      <3>2. Len(history) \in Nat
        BY HistoryFacts DEF IInv
      <3> QED
        BY <1>1, <3>1, <3>2, Zenon
    <2>2. kind \in Endings \ {"none"} /\ kind \notin {"session", "timeout", "not_settled"}
      BY <1>1 DEF Endings
    <2> QED
      BY <2>1, <2>2 DEF MayEnd
  <1> QED
    BY <1>1, <1>2, StopIInv DEF GetReceiptPDF

\* A read has returned, and its helper goes on or ends.
LEMMA LeaveIInv ==
    ASSUME IInv, NEW c \in Calls, stage[c] = "get", Leave(c),
           \/ \E kind, at : MayEnd(c, kind, at) /\ End(c, kind, at)
           \/ /\ Goto(c, "sleep")
              /\ helper[c] = "WaitForPaymentSession" => round[c] < MaxRounds
           \/ Goto(c, "receipt") /\ IsSuccess(Current)
    PROVE  IInv'
  <1> USE DEF IInv, Leave
  <1>1. CallInv(c) /\ Grows /\ UNCHANGED <<helper, round, history>>
    BY DEF Grows
  <1>2. ClientTypeOK'
    BY PlainType, AttemptsAssumption DEF TypeOK, ClientTypeOK, Kinds, Attempts
  <1>3. /\ pc'[c] = "idle" /\ result'[c].kind # "ok"
        /\ reply'[c] = NoReply
        /\ outcome[c].kind = "none"
        /\ \A d \in Calls \ {c} : pc'[d] = pc[d] /\ result'[d] = result[d]
    BY <1>1 DEF CallInv, ReadsTrue, EndTrue, Plain, TypeOK, ClientTypeOK
  <1>4. ReadsTrue(c)'
    BY <1>3 DEF ReadsTrue, IsRead, NoReply
  <1>5. CASE \E kind, at : MayEnd(c, kind, at) /\ End(c, kind, at)
    <2>1. PICK kind, at : MayEnd(c, kind, at) /\ End(c, kind, at)
      BY <1>5
    <2>2. /\ EndTrue(c)' /\ stage'[c] = "end"
          /\ stage' \in [Calls -> {"new", "get", "sleep", "receipt", "end"}]
          /\ outcome' \in [Calls -> [kind : Endings, at : 0 .. Len(history)]]
          /\ \A d \in Calls \ {c} : stage'[d] = stage[d] /\ outcome'[d] = outcome[d]
      BY <1>1, <2>1, EndFacts
    <2>3. TypeOK' /\ \A d \in Calls \ {c} : Rests(d)
      BY <1>2, <1>3, <2>2 DEF TypeOK, Rests
    <2>4. CallInv(c)'
      BY <1>1, <1>3, <1>4, <2>2 DEF CallInv, Rounds
    <2> QED
      BY <1>1, <2>3, <2>4, OneSteps
  <1>6. CASE \E s \in {"sleep", "receipt"} :
                /\ Goto(c, s)
                /\ s = "sleep" /\ helper[c] = "WaitForPaymentSession" => round[c] < MaxRounds
                /\ s = "receipt" => IsSuccess(Current)
    <2>1. PICK s \in {"sleep", "receipt"} :
            /\ Goto(c, s)
            /\ s = "sleep" /\ helper[c] = "WaitForPaymentSession" => round[c] < MaxRounds
            /\ s = "receipt" => IsSuccess(Current)
      BY <1>6
    <2>2. /\ stage'[c] = s /\ outcome' = outcome
          /\ stage' \in [Calls -> {"new", "get", "sleep", "receipt", "end"}]
          /\ \A d \in Calls \ {c} : stage'[d] = stage[d]
      BY <2>1 DEF Goto, TypeOK
    <2>3. TypeOK' /\ \A d \in Calls \ {c} : Rests(d)
      BY <1>2, <1>3, <2>2 DEF TypeOK, Rests
    <2>4. EndTrue(c)' /\ Rounds(c)' /\ (stage[c] = "receipt" => IsSuccess(Current))'
      BY <1>1, <1>3, <2>1, <2>2 DEF EndTrue, Rounds, Current
    <2> QED
      BY <1>1, <1>4, <2>3, <2>4, OneSteps DEF CallInv
  <1> QED
    BY <1>5, <1>6

LEMMA ReadFacts ==
    ASSUME IInv, NEW c \in Calls, ReadOk(c), pc[c] = "returned"
    PROVE  /\ result[c].id \in 1 .. Len(history) /\ IsRead(result[c].id)
           /\ Read(c) \in Statuses
           /\ IsTerminal(Read(c)) => Read(c) = Current
  <1>1. result[c].id \in 1 .. Len(history) /\ IsRead(result[c].id)
    <2>1. ReadsTrue(c) /\ result[c].id \in Nat
      BY DEF IInv, CallInv, TypeOK, ClientTypeOK, Outcomes
    <2> QED
      BY <2>1, HistoryFacts DEF IInv, ReadsTrue, ReadOk, IsRead
  <1> QED
    BY <1>1, HistoryFacts DEF IInv, FinalIsLast, Read, Current

LEMMA RoundIInv ==
    ASSUME IInv, NEW c \in Calls, Round(c)
    PROVE  IInv'
  <1>1. stage[c] = "get" /\ Leave(c) /\ pc[c] = "returned"
    BY DEF Round, Leave
  <1>2. CASE ~ReadOk(c)
    <2>1. PICK kind : /\ kind \in {"timeout", "error"} /\ End(c, kind, 0)
                      /\ kind = "timeout" => helper[c] = "PollSession"
      BY <1>2 DEF Round
    <2>2. MayEnd(c, kind, 0)
      BY <2>1, HistoryFacts DEF MayEnd, IsRead, Endings, IInv
    <2> QED
      BY <1>1, <2>1, <2>2, LeaveIInv
  <1>3. CASE ReadOk(c)
    <2>1. PICK i \in 1 .. Len(history) : i = result[c].id /\ IsRead(i)
      BY <1>1, <1>3, ReadFacts
    <2>2. AfterRead(c) /\ Read(c) = history[i] /\ i \in 0 .. Len(history) /\ i # 0
      BY <1>3, <2>1 DEF Round, Read
    <2>3. CASE IsTerminal(Read(c))
      <3>1. End(c, "session", i)
        BY <2>1, <2>2, <2>3 DEF AfterRead
      <3>2. MayEnd(c, "session", i)
        BY <2>2, <2>3 DEF MayEnd, Endings
      <3> QED
        BY <1>1, <3>1, <3>2, LeaveIInv
    <2>4. CASE ~IsTerminal(Read(c)) /\ helper[c] = "WaitForPaymentSession"
                 /\ round[c] >= MaxRounds
      <3>1. End(c, "timeout", i)
        BY <2>1, <2>2, <2>4 DEF AfterRead
      <3>2. round[c] = MaxRounds
        BY <2>4, RoundsAssumption DEF IInv, TypeOK
      <3>3. MayEnd(c, "timeout", i)
        BY <2>1, <2>2, <2>4, <3>2 DEF MayEnd, Endings
      <3> QED
        BY <1>1, <3>1, <3>3, LeaveIInv
    <2>5. CASE ~IsTerminal(Read(c)) /\ ~(/\ helper[c] = "WaitForPaymentSession"
                                       /\ round[c] >= MaxRounds)
      <3>1. Goto(c, "sleep")
        BY <2>2, <2>5 DEF AfterRead
      <3>2. helper[c] = "WaitForPaymentSession" => round[c] < MaxRounds
        BY <2>5, RoundsAssumption DEF IInv, TypeOK
      <3> QED
        BY <1>1, <3>1, <3>2, LeaveIInv
    <2> QED
      BY <2>3, <2>4, <2>5
  <1> QED
    BY <1>2, <1>3

LEMMA CheckSettledIInv ==
    ASSUME IInv, NEW c \in Calls, CheckSettled(c)
    PROVE  IInv'
  <1>1. /\ stage[c] = "get" /\ Leave(c) /\ pc[c] = "returned"
        /\ helper[c] = "GetSessionReceiptIfSettled"
    BY DEF CheckSettled, Leave
  <1>2. CASE ~ReadOk(c)
    <2>1. End(c, "error", 0)
      BY <1>2 DEF CheckSettled
    <2>2. MayEnd(c, "error", 0)
      BY HistoryFacts DEF MayEnd, IsRead, Endings, IInv
    <2> QED
      BY <1>1, <2>1, <2>2, LeaveIInv
  <1>3. CASE ReadOk(c) /\ ~IsSuccess(Read(c))
    <2>1. PICK i \in 1 .. Len(history) : i = result[c].id /\ IsRead(i)
      BY <1>1, <1>3, ReadFacts
    <2>2. End(c, "not_settled", i) /\ i \in 0 .. Len(history)
      BY <1>3, <2>1 DEF CheckSettled
    <2>3. MayEnd(c, "not_settled", i)
      BY <2>1, <2>2 DEF MayEnd, Endings
    <2> QED
      BY <1>1, <2>2, <2>3, LeaveIInv
  <1>4. CASE ReadOk(c) /\ IsSuccess(Read(c))
    <2>1. Goto(c, "receipt")
      BY <1>4 DEF CheckSettled
    <2>2. IsSuccess(Current)
      BY <1>1, <1>4, ReadFacts, StatusFacts
    <2> QED
      BY <1>1, <2>1, <2>2, LeaveIInv
  <1> QED
    BY <1>2, <1>3, <1>4

LEMMA NextIInv == IInv /\ [Next]_vars => IInv'
  <1> SUFFICES ASSUME IInv, [Next]_vars PROVE IInv'
    OBVIOUS
  <1>1. CASE Advance
    BY <1>1, AdvanceIInv
  <1>2. CASE \E m \in requests : Serve(m)
    BY <1>2, ServeIInv
  <1>3. ASSUME NEW c \in Calls, Open(c) \/ ClientStep(c)
        PROVE  IInv'
    BY <1>3, OpenIInv, ClientIInv
  <1>4. ASSUME NEW c \in Calls, HelperStep(c)
        PROVE  IInv'
    BY <1>4, RoundIInv, CheckSettledIInv, GetReceiptPDFIInv, SleepElapsedIInv,
       SleepCancelledIInv
       DEF HelperStep
  <1>5. ASSUME NEW c \in Calls, ParentDone(c) \/ DeadlinePasses(c)
        PROVE  IInv'
    BY <1>5, ExpireIInv DEF ParentDone, DeadlinePasses
  <1>6. CASE UNCHANGED vars
    <2>1. TypeOK' /\ Grows /\ \A c \in Calls : Rests(c)
      BY <1>6 DEF IInv, TypeOK, ClientTypeOK, Grows, Rests, vars, clientVars, helperVars
    <2> QED
      BY <2>1, RestsCallInv, GrowsFacts DEF IInv
  <1> QED
    BY <1>1, <1>2, <1>3, <1>4, <1>5, <1>6 DEF Next

-----------------------------------------------------------------------------
(* The theorems.                                                           *)

\* What the helpers hold and say of the session is true of it.
THEOREM Invariance == Spec => []IInv
  <1>1. Init => IInv
    BY InitIInv
  <1>2. IInv /\ [Next]_vars => IInv'
    BY NextIInv
  <1> QED
    BY <1>1, <1>2, PTL DEF Spec

\* Every variable keeps its type: the rounds their bound, the sleeps the
\* range of time.Duration.
THEOREM TypeCorrect == Spec => []TypeOK
  <1>1. IInv => TypeOK
    BY DEF IInv
  <1> QED
    BY <1>1, Invariance, PTL

\* A session that is returned with no error changes no more.
THEOREM ReturnedFinal == Spec => []ReturnedSessionIsFinal
  <1>1. IInv => ReturnedSessionIsFinal
    <2> SUFFICES ASSUME IInv, NEW c \in Calls, outcome[c].kind = "session"
                 PROVE  outcome[c].at = Len(history) /\ Successors(Current) = {}
      BY DEF ReturnedSessionIsFinal
    <2>1. outcome[c].at \in DOMAIN history /\ IsTerminal(history[outcome[c].at])
      BY DEF IInv, CallInv, EndTrue
    <2>2. outcome[c].at = Len(history)
      BY <2>1 DEF IInv, FinalIsLast
    <2> QED
      BY <2>1, <2>2, HistoryFacts, StatusFacts DEF IInv, Current
  <1> QED
    BY <1>1, Invariance, PTL

\* A receipt is asked for only while the session is settled.
THEOREM ReceiptSettled == Spec => []ReceiptOnlyIfSettled
  <1>1. IInv => ReceiptOnlyIfSettled
    BY DEF IInv, CallInv, ReceiptOnlyIfSettled
  <1> QED
    BY <1>1, Invariance, PTL

\* A timeout comes after all the rounds, with a session of the last one.
THEOREM HonestTimeout == Spec => []TimeoutIsHonest
  <1>1. IInv => TimeoutIsHonest
    <2> SUFFICES ASSUME IInv, NEW c \in Calls, NEW o, o = outcome[c],
                        helper[c] = "WaitForPaymentSession", o.kind = "timeout"
                 PROVE  round[c] = MaxRounds /\ Successors(history[o.at]) # {}
      BY DEF TimeoutIsHonest
    <2>1. EndTrue(c) /\ o.at \in 0 .. Len(history)
      BY DEF IInv, CallInv, TypeOK
    <2>2. o.at # 0 => history[o.at] \in Statuses
      BY <2>1, HistoryFacts DEF IInv
    <2> QED
      BY <2>1, <2>2, StatusFacts DEF EndTrue
  <1> QED
    BY <1>1, Invariance, PTL

-----------------------------------------------------------------------------
(* The sleeps of PollSession.                                              *)

\* The defaults make every interval and every factor one that grows.
LEMMA OptionsFacts ==
    ASSUME TypeOK, NEW c \in Calls
    PROVE  /\ FirstInterval(c) \in Durations /\ FirstInterval(c) >= 1
           /\ MaxInterval(c) \in Durations /\ MaxInterval(c) >= 1
           /\ Backoff(c) \in Int /\ Backoff(c) >= 3
           /\ interval[c] \in Durations
  <1>1. options[c] \in [interval : Durations, maxInterval : Durations, backoff : Int]
    BY OptionsAssumption DEF TypeOK
  <1> QED
    BY <1>1, OptionsAssumption
       DEF TypeOK, FirstInterval, MaxInterval, Backoff, Positive, Durations

\* A factor of one and a half or more shortens no interval, and the product
\* is the greater the longer the interval.
LEMMA Grown ==
    ASSUME NEW i \in Nat, NEW b \in Int, b >= 3
    PROVE  /\ (i * b) \div 2 \in Int
           /\ (i * b) \div 2 >= i
           /\ (i * b) \div 2 = i => i * (b - 2) < 2
           /\ \A j \in Nat : i <= j => (i * b) \div 2 <= (j * b) \div 2
  <1>1. i * b \in Int /\ i * b >= i * 3
    OBVIOUS
  <1>2. ASSUME NEW j \in Nat, i <= j
        PROVE  (i * b) \div 2 <= (j * b) \div 2
    <2>1. j * b \in Int /\ i * b <= j * b
      BY <1>2
    <2> DEFINE x == i * b
               y == j * b
    <2>2. x \in Int /\ y \in Int /\ x <= y
      BY <1>1, <2>1
    <2> HIDE DEF x, y
    <2>3. x \div 2 <= y \div 2
      BY <2>2
    <2> QED
      BY <2>3 DEF x, y
  <1>3. (i * b) \div 2 \in Int /\ (i * b) \div 2 >= i
    <2> DEFINE x == i * b
    <2>1. x \in Int /\ x >= i * 3
      BY <1>1
    <2> HIDE DEF x
    <2>2. x \div 2 \in Int /\ x \div 2 >= i
      BY <2>1
    <2> QED
      BY <2>2 DEF x
  <1>4. (i * b) \div 2 = i => i * (b - 2) < 2
    <2> DEFINE x == i * b
    <2>1. x \in Int /\ i * (b - 2) = x - 2 * i
      BY <1>1
    <2> HIDE DEF x
    <2>2. x \div 2 = i => x - 2 * i < 2
      BY <2>1
    <2> QED
      BY <2>1, <2>2 DEF x
  <1> QED
    BY <1>2, <1>3, <1>4

\* What is true of the sleeps of one call.
BacksOff(c) ==
    \/ Overflows(c)
    \/ interval[c] = FirstInterval(c)
    \/ interval[c] >= 1 /\ interval[c] <= MaxInterval(c)

\* The step from the last sleep n to the next one i.
Follows(c, i) ==
    /\ i <= MaxInterval(c)
    /\ \/ Overflows(c)
       \/ /\ i >= 1
          /\ \/ i > interval[c]
             \/ i = MaxInterval(c)
             \/ i = interval[c] /\ interval[c] * (Backoff(c) - 2) < 2

\* The next sleep is longer, up to the cap, while the product is a Duration;
\* when it is none, that of the cap is none.
LEMMA NextBacksOff ==
    ASSUME TypeOK, NEW c \in Calls, BacksOff(c), NEW i \in NextInterval(c)
    PROVE  Follows(c, i)
  <1> DEFINE F == FirstInterval(c)
             M == MaxInterval(c)
             B == Backoff(c)
             n == interval[c]
             product == (n * B) \div 2
  <1>1. /\ F \in Int /\ F >= 1 /\ M \in Int /\ M >= 1 /\ B \in Int /\ B >= 3
        /\ n \in Int /\ F <= MaxDuration /\ MaxDuration \in Nat
    BY OptionsFacts, OptionsAssumption DEF Durations
  <1>2. PICK j \in BackedOff(c) : i = IF j > M THEN M ELSE j
    BY DEF NextInterval
  <1>3. j \in Int
    BY <1>2, OptionsAssumption DEF BackedOff, Durations
  <1>4. i <= M
    BY <1>1, <1>2, <1>3
  <1>5. CASE Overflows(c)
    BY <1>4, <1>5 DEF Follows
  <1>6. CASE ~Overflows(c)
    <2>1. n \in Nat /\ n >= 1 /\ (n = F \/ n <= M)
      BY <1>1, <1>6 DEF BacksOff
    <2>3. product \in Int /\ product >= n /\ (product = n => n * (B - 2) < 2)
      BY <1>1, <2>1, Grown
    <2>4. ~((F * B) \div 2 > MaxDuration) /\ ~((M * B) \div 2 > MaxDuration)
      BY <1>6 DEF Overflows
    <2>5. product <= MaxDuration
      <3>1. CASE n = F
        BY <1>1, <2>3, <2>4, <3>1
      <3>2. CASE n <= M
        <4>1. M \in Nat
          BY <1>1
        <4>2. product <= (M * B) \div 2
          BY <1>1, <2>1, <3>2, <4>1, Grown
        <4>3. (M * B) \div 2 \in Int
          BY <1>1, <4>1, Grown
        <4> QED
          BY <1>1, <2>3, <2>4, <4>2, <4>3
      <3> QED
        BY <2>1, <3>1, <3>2
    <2>6. product \in Durations
      BY <1>1, <2>1, <2>3, <2>5 DEF Durations
    <2>7. j = product
      BY <1>2, <2>6 DEF BackedOff
    <2> HIDE DEF product, F, M, B, n
    <2>9. i >= 1 /\ (i > n \/ i = M \/ (i = n /\ n * (B - 2) < 2))
      BY <1>1, <1>2, <2>1, <2>3, <2>7
    <2> QED
      BY <1>4, <2>9 DEF Follows, F, M, B, n
  <1> QED
    BY <1>5, <1>6

\* Only the end of a sleep changes how long the next one is, and it always
\* does what NextInterval says.
LEMMA IntervalFrame ==
    ASSUME TypeOK, [Next]_vars, NEW c \in Calls
    PROVE  /\ helper' = helper /\ options' = options
           /\ IF SleepEnds(c) THEN interval'[c] \in NextInterval(c)
                              ELSE interval'[c] = interval[c]
  <1> USE DEF SleepEnds, TypeOK
  <1>1. CASE UNCHANGED vars \/ Advance
    BY <1>1 DEF vars, helperVars, Advance
  <1>2. CASE \E m \in requests : Serve(m)
    BY <1>2 DEF Serve, helperVars
  <1>3. ASSUME NEW d \in Calls,
               \/ ClientStep(d) \/ ParentDone(d) \/ DeadlinePasses(d)
        PROVE  UNCHANGED <<helper, options, interval, stage>>
    BY <1>3 DEF ClientStep, helperVars, ParentDone, DeadlinePasses, Expire
  <1>4. ASSUME NEW d \in Calls,
               Round(d) \/ CheckSettled(d) \/ GetReceiptPDF(d) \/ SleepCancelled(d)
        PROVE  /\ UNCHANGED <<helper, options, interval>>
               /\ stage[c] = "sleep" => stage'[c] \in {"sleep", "end"}
    BY <1>4 DEF Round, AfterRead, CheckSettled, Leave, GetReceiptPDF, SleepCancelled,
                End, Goto
  <1>5. ASSUME NEW d \in Calls, Open(d)
        PROVE  /\ UNCHANGED <<helper, options, interval>>
               /\ stage[c] = "sleep" => stage'[c] = "sleep"
    BY <1>5 DEF Open, GetPaymentSession
  <1>6. ASSUME NEW d \in Calls, SleepElapsed(d)
        PROVE  /\ UNCHANGED <<helper, options>>
               /\ IF SleepEnds(c) THEN interval'[c] \in NextInterval(c)
                                  ELSE interval'[c] = interval[c]
    <2>1. /\ UNCHANGED <<helper, options>>
          /\ stage[d] = "sleep" /\ stage' = [stage EXCEPT ![d] = "get"]
      BY <1>6 DEF SleepElapsed, GetPaymentSession
    <2>2. CASE helper[d] = "PollSession"
      <3>1. PICK i \in NextInterval(d) : interval' = [interval EXCEPT ![d] = i]
        BY <1>6, <2>2 DEF SleepElapsed
      <3> QED
        BY <2>1, <2>2, <3>1
    <2>3. CASE helper[d] # "PollSession"
      BY <1>6, <2>1, <2>3 DEF SleepElapsed
    <2> QED
      BY <2>1, <2>2, <2>3
  <1> QED
    BY <1>1, <1>2, <1>3, <1>4, <1>5, <1>6 DEF Next, HelperStep

\* The first sleep is as long as the options say, no later one is longer than
\* they allow, and each is longer than the last up to there and to rounding,
\* while every product is a Duration.
THEOREM SleepsGrow == Spec => IntervalBacksOff
  <1> DEFINE I == \A c \in Calls : helper[c] = "PollSession" => BacksOff(c)
             First == \A c \in Calls : interval[c] = FirstInterval(c)
             Step == \A c \in Calls :
                       /\ interval'[c] # interval[c] => SleepEnds(c)
                       /\ SleepEnds(c) =>
                            /\ interval'[c] <= MaxInterval(c)
                            /\ Lengthens(c) \/ Overflows(c)
  <1>1. Init => I /\ First
    BY DEF Init, BacksOff
  <1>2. TypeOK /\ I /\ [Next]_vars => I' /\ [Step]_vars
    <2> SUFFICES ASSUME TypeOK, I, [Next]_vars,
                        NEW c \in Calls
                 PROVE  /\ helper'[c] = "PollSession" => BacksOff(c)'
                        /\ interval'[c] # interval[c] => SleepEnds(c)
                        /\ SleepEnds(c) =>
                             /\ interval'[c] <= MaxInterval(c)
                             /\ Lengthens(c) \/ Overflows(c)
      OBVIOUS
    <2>1. /\ FirstInterval(c)' = FirstInterval(c)
          /\ MaxInterval(c)' = MaxInterval(c)
          /\ Overflows(c)' = Overflows(c)
          /\ helper'[c] = helper[c]
      BY IntervalFrame DEF FirstInterval, MaxInterval, Overflows, Backoff
    <2>2. CASE ~SleepEnds(c)
      BY <2>1, <2>2, IntervalFrame DEF BacksOff
    <2>3. CASE SleepEnds(c)
      <3>1. helper[c] = "PollSession" /\ BacksOff(c)
        BY <2>3 DEF SleepEnds
      <3>2. PICK i \in NextInterval(c) : interval'[c] = i
        BY <2>3, IntervalFrame
      <3>3. Follows(c, i)
        BY <3>1, NextBacksOff
      <3>4. interval'[c] <= MaxInterval(c) /\ (Lengthens(c) \/ Overflows(c))
        BY <3>2, <3>3 DEF Follows, Lengthens
      <3>5. Overflows(c) \/ (interval'[c] >= 1 /\ interval'[c] <= MaxInterval(c))
        BY <3>2, <3>3 DEF Follows
      <3> QED
        BY <2>1, <2>3, <3>4, <3>5 DEF BacksOff
    <2> QED
      BY <2>2, <2>3
  <1>3. First /\ [][Step]_vars => IntervalBacksOff
    BY DEF IntervalBacksOff
  <1> QED
    BY <1>1, <1>2, <1>3, TypeCorrect, PTL DEF Spec
=============================================================================
