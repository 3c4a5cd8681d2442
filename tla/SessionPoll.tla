----------------------------- MODULE SessionPoll -----------------------------
(***************************************************************************)
(* The helpers that watch a payment session: WaitForPaymentSession and     *)
(* GetSessionReceiptIfSettled of session_helpers.go, and PollSession of    *)
(* telegram/telegram.go.  Each runs GetPaymentSession, a doJSON call, as   *)
(* often as it needs; between two of them it sleeps.  Meanwhile the        *)
(* session goes on at the service (external), which keeps the history of   *)
(* its statuses: a response carries the position it read.                  *)
(***************************************************************************)
EXTENDS DoJSON, Sequences

CONSTANTS
    MaxRounds,      \* SessionPollOptions.MaxAttempts
    Refusals,       \* statuses of answers that carry no session
    Options,        \* the PollOptions of telegram.go that are tried
    MaxDuration     \* the largest time.Duration

ASSUME RoundsAssumption == MaxRounds \in Nat \ {0}
ASSUME RefusalsAssumption == Refusals \subseteq 400 .. 599
Durations == -MaxDuration - 1 .. MaxDuration

ASSUME OptionsAssumption ==
    /\ MaxDuration \in Nat /\ MaxDuration >= 30
    /\ Options \subseteq [interval : Durations, maxInterval : Durations, backoff : Int]

VARIABLES
    helper,     \* which helper each call runs
    stage,      \* where the helper stands
    round,      \* the loop variable of WaitForPaymentSession
    options,    \* the PollOptions of each call; seconds, and halves for backoff
    interval,   \* how long the next sleep of PollSession is
    cause,      \* why ctx is done: the parent's doing, or the helper's deadline
    outcome,    \* what the helper returned
    history     \* the statuses the session went through

helperVars == <<helper, stage, round, options, interval, cause, outcome>>
vars == <<clientVars, helperVars, history>>

Helpers == {"WaitForPaymentSession", "PollSession", "GetSessionReceiptIfSettled"}
Statuses == {"pending", "partial_paid", "paid", "finalizing",
             "confirmed", "completed", "expired", "failed"}
Endings == {"none", "session", "timeout", "error", "not_settled", "receipt"}

IsSuccess(s) == s \in {"confirmed", "completed"}

\* Mutant: a session that is paid for is taken to be settled.
IsTerminalPaid(s) == s \in {"completed", "confirmed", "paid", "expired", "failed"}

IsTerminal(s) == s \in {"completed", "confirmed", "expired", "failed"}

\* The defaults of PollSessionWithOptions; 1.5 is three halves.
Positive(n, default) == IF n <= 0 THEN default ELSE n
FirstInterval(c) == Positive(options[c].interval, 3)
MaxInterval(c) == Positive(options[c].maxInterval, 30)
Backoff(c) == IF options[c].backoff <= 2 THEN 3 ELSE options[c].backoff

TypeOK ==
    /\ ClientTypeOK
    /\ helper \in [Calls -> Helpers]
    /\ stage \in [Calls -> {"new", "get", "sleep", "receipt", "end"}]
    /\ round \in [Calls -> 0 .. MaxRounds]
    /\ options \in [Calls -> Options]
    /\ interval \in [Calls -> Durations]
    /\ cause \in [Calls -> {"none", "parent", "deadline"}]
    /\ outcome \in [Calls -> [kind : Endings, at : 0 .. Len(history)]]
    /\ history \in Seq(Statuses)

Init ==
    /\ ClientInit
    /\ helper \in [Calls -> Helpers]
    /\ options \in [Calls -> Options]
    /\ \A c \in Calls : helper[c] # "PollSession" =>
         options[c] = CHOOSE o \in Options : TRUE
    /\ interval = [c \in Calls |-> FirstInterval(c)]
    /\ stage = [c \in Calls |-> "new"]
    /\ round = [c \in Calls |-> 0]
    /\ cause = [c \in Calls |-> "none"]
    /\ outcome = [c \in Calls |-> [kind |-> "none", at |-> 0]]
    /\ history = <<"pending">>

-----------------------------------------------------------------------------
(* The service (external): a session moves on until it is final, and a     *)
(* read answers with its present status, or fails.                         *)

Successors(s) ==
    CASE s = "pending"      -> {"partial_paid", "paid", "expired", "failed"}
      [] s = "partial_paid" -> {"paid", "expired", "failed"}
      [] s = "paid"         -> {"finalizing", "failed"}
      [] s = "finalizing"   -> {"completed", "confirmed", "failed"}
      [] OTHER              -> {}

Current == history[Len(history)]

Advance ==
    /\ \E s \in Successors(Current) : history' = Append(history, s)
    /\ UNCHANGED <<clientVars, helperVars>>

Serve(m) ==
    /\ \/ Answer(m, [status |-> 200, code |-> 0, id |-> Len(history)])
       \/ \E s \in Refusals : Answer(m, [status |-> s, code |-> 0, id |-> 0])
    /\ UNCHANGED <<pc, attempt, ctx, lastErr, result, helperVars, history>>

-----------------------------------------------------------------------------
(* The helpers.                                                            *)

\* Mutant: the rounds are not counted.
GetPaymentSessionUncounted(c) ==
    /\ Enter(c)
    /\ stage' = [stage EXCEPT ![c] = "get"]
    /\ UNCHANGED <<helper, round, options, cause, outcome, history>>

GetPaymentSession(c) ==
    /\ Enter(c)
    /\ stage' = [stage EXCEPT ![c] = "get"]
    /\ round' = [round EXCEPT ![c] = IF helper[c] = "WaitForPaymentSession"
                                       THEN @ + 1 ELSE @]
    /\ UNCHANGED <<helper, options, cause, outcome, history>>

Open(c) ==
    /\ stage[c] = "new"
    /\ GetPaymentSession(c)
    /\ UNCHANGED interval

\* GetPaymentSession has returned; the reads it gave up on concern nobody.
Leave(c) ==
    /\ pc[c] = "returned"
    /\ pc' = [pc EXCEPT ![c] = "idle"]
    /\ attempt' = [attempt EXCEPT ![c] = 0]
    /\ result' = [result EXCEPT ![c] = Plain("none")]
    /\ requests' = { m \in requests : m.call # c }
    /\ UNCHANGED <<ctx, lastErr, reply, helper, round, options, interval,
                   cause, history>>

Goto(c, s) ==
    /\ stage' = [stage EXCEPT ![c] = s]
    /\ UNCHANGED outcome

End(c, kind, at) ==
    /\ stage' = [stage EXCEPT ![c] = "end"]
    /\ outcome' = [outcome EXCEPT ![c] = [kind |-> kind, at |-> at]]

ReadOk(c) == result[c].kind = "ok"
Read(c) == history[result[c].id]

\* Mutant: the rounds are counted before the status is looked at.
AfterReadCountFirst(c) ==
    IF helper[c] = "WaitForPaymentSession" /\ round[c] >= MaxRounds
      THEN End(c, "timeout", result[c].id)
    ELSE IF IsTerminal(Read(c)) THEN End(c, "session", result[c].id)
    ELSE Goto(c, "sleep")

\* The body of the two loops, once GetPaymentSession has succeeded.
AfterRead(c) ==
    IF IsTerminal(Read(c)) THEN End(c, "session", result[c].id)
    ELSE IF helper[c] = "WaitForPaymentSession" /\ round[c] >= MaxRounds
      THEN End(c, "timeout", result[c].id)
    ELSE Goto(c, "sleep")

Round(c) ==
    /\ stage[c] = "get"
    /\ helper[c] # "GetSessionReceiptIfSettled"
    /\ Leave(c)
    /\ IF ReadOk(c)
         THEN AfterRead(c)
         ELSE End(c, IF helper[c] = "PollSession" /\ ctx[c] = "done"
                       THEN "timeout" ELSE "error", 0)

\* Mutant: any final status is taken to be settled.
CheckSettledTerminal(c) ==
    /\ stage[c] = "get"
    /\ helper[c] = "GetSessionReceiptIfSettled"
    /\ Leave(c)
    /\ IF ~ReadOk(c) THEN End(c, "error", 0)
       ELSE IF ~IsTerminal(Read(c)) THEN End(c, "not_settled", result[c].id)
       ELSE Goto(c, "receipt")

CheckSettled(c) ==
    /\ stage[c] = "get"
    /\ helper[c] = "GetSessionReceiptIfSettled"
    /\ Leave(c)
    /\ IF ~ReadOk(c) THEN End(c, "error", 0)
       ELSE IF ~IsSuccess(Read(c)) THEN End(c, "not_settled", result[c].id)
       ELSE Goto(c, "receipt")

\* GetReceiptPDF: one exchange, no retry, and no attention to the status the
\* session was in when it was read.
GetReceiptPDF(c) ==
    /\ stage[c] = "receipt"
    /\ \/ ctx[c] = "live" /\ IsSuccess(Current) /\ End(c, "receipt", Len(history))
       \/ End(c, "error", 0)
    /\ UNCHANGED <<clientVars, helper, round, options, interval, cause,
                   history>>

\* Mutant: the first interval is multiplied, not the last one.
BackedOffAfresh(c) ==
    LET product == (FirstInterval(c) * Backoff(c)) \div 2
    IN  IF product \in Durations THEN {product}
        ELSE {-MaxDuration - 1, MaxDuration}

\* time.Duration(float64(interval) * backoff): out of range, the conversion
\* gives the least Duration on some processors and the greatest on others.
BackedOff(c) ==
    LET product == (interval[c] * Backoff(c)) \div 2
    IN  IF product \in Durations THEN {product}
        ELSE {-MaxDuration - 1, MaxDuration}

NextInterval(c) ==
    { IF i > MaxInterval(c) THEN MaxInterval(c) ELSE i : i \in BackedOff(c) }

SleepElapsed(c) ==
    /\ stage[c] = "sleep"
    /\ GetPaymentSession(c)
    /\ IF helper[c] = "PollSession"
         THEN \E i \in NextInterval(c) : interval' = [interval EXCEPT ![c] = i]
         ELSE UNCHANGED interval

\* Mutant: a sleep in place of the select.
SleepThrough(c) == stage[c] = "sleep" /\ FALSE /\ UNCHANGED vars

SleepCancelled(c) ==
    /\ stage[c] = "sleep"
    /\ ctx[c] = "done"
    /\ End(c, IF helper[c] = "PollSession" THEN "timeout" ELSE "error", 0)
    /\ UNCHANGED <<clientVars, helper, round, options, interval, cause,
                   history>>

-----------------------------------------------------------------------------
(* Contexts.  PollSession derives its own with MaxDuration.                *)

Expire(c, why) ==
    /\ ctx[c] = "live"
    /\ stage[c] # "end"
    /\ ctx' = [ctx EXCEPT ![c] = "done"]
    /\ cause' = [cause EXCEPT ![c] = why]
    /\ UNCHANGED <<pc, attempt, lastErr, result, requests, reply,
                   helper, stage, round, options, interval, outcome,
                   history>>

ParentDone(c) == Expire(c, "parent")
DeadlinePasses(c) ==
    /\ helper[c] = "PollSession"
    /\ stage[c] # "new"
    /\ Expire(c, "deadline")

ClientStep(c) == Client(c, TRUE) /\ UNCHANGED <<helperVars, history>>

HelperStep(c) ==
    \/ Round(c)
    \/ CheckSettled(c)
    \/ GetReceiptPDF(c)
    \/ SleepElapsed(c)
    \/ SleepCancelled(c)

Next ==
    \/ Advance
    \/ \E m \in requests : Serve(m)
    \/ \E c \in Calls :
         \/ Open(c)
         \/ ClientStep(c)
         \/ HelperStep(c)
         \/ ParentDone(c)
         \/ DeadlinePasses(c)

Spec == Init /\ [][Next]_vars

\* Goroutines run, timers fire and exchanges end; the deadline of PollSession
\* passes.  The session need not move and the service need not answer.
Fairness ==
    \A c \in Calls :
        /\ WF_vars(ClientStep(c))
        /\ WF_vars(HelperStep(c))
        /\ WF_vars(DeadlinePasses(c))

\* What a done context makes ready, and code that waits for nothing.
CancelledStep(c) ==
    \/ /\ SendCancelled(c) \/ AbortCancelled(c) \/ BackoffCancelled(c)
       /\ UNCHANGED <<helperVars, history>>
    \/ Round(c)
    \/ CheckSettled(c)
    \/ ctx[c] = "done" /\ GetReceiptPDF(c)
    \/ SleepCancelled(c)

PromptSpec == Spec /\ \A c \in Calls : WF_vars(CancelledStep(c))

-----------------------------------------------------------------------------
(* Properties.                                                             *)

\* A session a loop returns with no error is in its last status for good
\* (IsTerminal: "no further transitions"): nothing the caller decides on it,
\* delivering the goods or giving them up, is overtaken.
ReturnedSessionIsFinal ==
    \A c \in Calls :
        outcome[c].kind = "session" =>
            outcome[c].at = Len(history) /\ Successors(Current) = {}

\* The receipt is asked for only while the session is settled, although the
\* status was read in an exchange before.
ReceiptOnlyIfSettled ==
    \A c \in Calls : stage[c] = "receipt" => IsSuccess(Current)

\* ErrSessionPollTimeout comes with the session as the last round read it; that
\* was not final then, and all the rounds were granted.  In particular a session
\* that the last round finds final is returned without the error.
TimeoutIsHonest ==
    \A c \in Calls :
        LET o == outcome[c] IN
        helper[c] = "WaitForPaymentSession" /\ o.kind = "timeout" =>
            round[c] = MaxRounds /\ Successors(history[o.at]) # {}

\* Some product of an interval and the backoff is no Duration.
Overflows(c) ==
    \E i \in {FirstInterval(c), MaxInterval(c)} : (i * Backoff(c)) \div 2 > MaxDuration

\* A sleep of PollSession ends and the session is read again.
SleepEnds(c) == helper[c] = "PollSession" /\ stage[c] = "sleep" /\ stage'[c] = "get"

\* The next sleep is longer than the last, or as long as any may be; or the
\* interval is so short that what the backoff adds is less than one unit.
Lengthens(c) ==
    \/ interval'[c] > interval[c]
    \/ interval'[c] = MaxInterval(c)
    \/ interval'[c] = interval[c] /\ interval[c] * (Backoff(c) - 2) < 2

\* PollSession first sleeps as long as it was told, and only the end of a sleep
\* changes how long the next is: no longer than MaxInterval, and longer than
\* the last (Lengthens), so that the sleeps never get shorter again but for a
\* first one above the cap.  All this unless the backoff is so large that a
\* product leaves the range of Duration.
IntervalBacksOff ==
    /\ \A c \in Calls : interval[c] = FirstInterval(c)
    /\ [][\A c \in Calls :
            /\ interval'[c] # interval[c] => SleepEnds(c)
            /\ SleepEnds(c) =>
                 /\ interval'[c] <= MaxInterval(c)
                 /\ Lengthens(c) \/ Overflows(c)]_vars

\* The loops end: WaitForPaymentSession by its rounds, PollSession by its
\* deadline, whatever the session and the service do.
EveryHelperEnds ==
    Fairness => \A c \in Calls : stage[c] # "new" ~> stage[c] = "end"

\* A done context ends a helper with no timer, timeout or answer to wait for:
\* nothing but PromptSpec is assumed.
CancelledHelperEnds ==
    \A c \in Calls : stage[c] # "new" /\ ctx[c] = "done" ~> stage[c] = "end"

\* "ErrPollTimeout is returned only when the deadline is hit first."
\* (telegram.go, PollSession)
PollTimeoutOnlyAtDeadline ==
    \A c \in Calls :
        helper[c] = "PollSession" /\ outcome[c].kind = "timeout" =>
            cause[c] = "deadline"
=============================================================================
