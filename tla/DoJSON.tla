------------------------------- MODULE DoJSON -------------------------------
(***************************************************************************)
(* The call engine of the client: doJSON of client.go, over Response.      *)
(* Every typed method of Client except GetSessionReceiptPDF is one doJSON  *)
(* call, made on the caller's goroutine; calls share nothing but the HTTP  *)
(* client.  This module holds the state of the calls and their steps; the  *)
(* modules that EXTEND it add the service that answers and the meaning of  *)
(* the requests.                                                           *)
(*                                                                         *)
(* Every attempt is a new HTTP exchange.  `requests' holds the exchanges   *)
(* the service has not handled yet, those the client gave up on included:  *)
(* a request outlives the attempt that sent it.  `reply' is the response   *)
(* waiting to be read; only the exchange of the current attempt has a      *)
(* reader.  Durations are abstracted to the order of the events they       *)
(* separate.                                                               *)
(***************************************************************************)
EXTENDS Integers, Response

CONSTANTS
    Calls,          \* the doJSON calls of the callers' goroutines
    MaxAttempts     \* the literal 3 of the loop

ASSUME AttemptsAssumption == MaxAttempts \in Nat \ {0}

VARIABLES
    pc,         \* where each call stands
    attempt,    \* the loop variable
    ctx,        \* the caller's context: "live", or "done" for good
    lastErr,    \* the error of the last failed attempt
    result,     \* what the call returned
    requests,   \* exchanges the service has yet to handle
    reply       \* the response of the current exchange

clientVars == <<pc, attempt, ctx, lastErr, result, requests, reply>>

Attempts == 0 .. MaxAttempts - 1
Requests == [call : Calls, n : Attempts]

ClientTypeOK ==
    /\ pc \in [Calls -> {"idle", "ready", "wait", "backoff", "returned"}]
    /\ attempt \in [Calls -> Attempts]
    /\ ctx \in [Calls -> {"live", "done"}]
    /\ lastErr \in [Calls -> Outcomes]
    /\ result \in [Calls -> Outcomes]
    /\ requests \subseteq Requests
    /\ reply \in [Calls -> Replies]

ClientInit ==
    /\ pc = [c \in Calls |-> "idle"]
    /\ attempt = [c \in Calls |-> 0]
    /\ ctx = [c \in Calls |-> "live"]
    /\ lastErr = [c \in Calls |-> Plain("none")]
    /\ result = [c \in Calls |-> Plain("none")]
    /\ requests = {}
    /\ reply = [c \in Calls |-> NoReply]

\* The outcomes after which the loop goes on.
Transient(o) == o.kind = "transport" \/ (o.kind = "api" /\ o.status >= 500)

-----------------------------------------------------------------------------
(* The end of an attempt.                                                  *)

\* Mutant: the loop bound is off by one.
LastAttemptLate(c) == attempt[c] + 1 > MaxAttempts

LastAttempt(c) == attempt[c] + 1 >= MaxAttempts

\* lastErr is a local of the call: it goes when the call returns.
Return(c, o) ==
    /\ pc' = [pc EXCEPT ![c] = "returned"]
    /\ result' = [result EXCEPT ![c] = o]
    /\ lastErr' = [lastErr EXCEPT ![c] = Plain("none")]
    /\ UNCHANGED attempt

\* Mutant: the loop variable is not advanced.
FailAttemptAgain(c, e) ==
    /\ lastErr' = [lastErr EXCEPT ![c] = e]
    /\ pc' = [pc EXCEPT ![c] = "backoff"]
    /\ UNCHANGED <<attempt, result>>

\* lastErr = e; continue -- and the return lastErr after the loop.
FailAttempt(c, e) ==
    IF LastAttempt(c)
      THEN Return(c, e)
      ELSE /\ lastErr' = [lastErr EXCEPT ![c] = e]
           /\ attempt' = [attempt EXCEPT ![c] = @ + 1]
           /\ pc' = [pc EXCEPT ![c] = "backoff"]
           /\ UNCHANGED result

Hangup(c) == reply' = [reply EXCEPT ![c] = NoReply]

-----------------------------------------------------------------------------
(* The steps of a call.                                                    *)

Enter(c) ==
    /\ pc[c] = "idle"
    /\ pc' = [pc EXCEPT ![c] = "ready"]
    /\ UNCHANGED <<attempt, ctx, lastErr, result, requests, reply>>

\* fn(ctx): net/http does not open an exchange under a context that is done.
Send(c) ==
    /\ pc[c] = "ready"
    /\ ctx[c] = "live"
    /\ pc' = [pc EXCEPT ![c] = "wait"]
    /\ requests' = requests \cup {[call |-> c, n |-> attempt[c]]}
    /\ UNCHANGED <<attempt, ctx, lastErr, result, reply>>

SendCancelled(c) ==
    /\ pc[c] = "ready"
    /\ ctx[c] = "done"
    /\ FailAttempt(c, Plain("transport"))
    /\ UNCHANGED <<ctx, requests, reply>>

\* A connection error, the http.Client timeout, or the end of ctx: the
\* service may handle the request all the same, before or after.
Abort(c) ==
    /\ pc[c] = "wait"
    /\ FailAttempt(c, Plain("transport"))
    /\ Hangup(c)
    /\ UNCHANGED <<ctx, requests>>

AbortCancelled(c) == ctx[c] = "done" /\ Abort(c)

Receive(c, wantsBody) ==
    /\ pc[c] = "wait"
    /\ reply[c] # NoReply
    /\ \E intact \in BOOLEAN :
         LET o == DecodeResponse(reply[c], wantsBody, intact)
         IN  IF Transient(o)
               THEN FailAttempt(c, o)
               ELSE Return(c, o)
    /\ Hangup(c)
    /\ UNCHANGED <<ctx, requests>>

\* The select of the loop: with both channels ready, either case is taken.
BackoffElapsed(c) ==
    /\ pc[c] = "backoff"
    /\ pc' = [pc EXCEPT ![c] = "ready"]
    /\ UNCHANGED <<attempt, ctx, lastErr, result, requests, reply>>

BackoffCancelled(c) ==
    /\ pc[c] = "backoff"
    /\ ctx[c] = "done"
    /\ Return(c, Plain("cancelled"))
    /\ UNCHANGED <<ctx, requests, reply>>

\* The caller's side: its context is cancelled or its deadline passes.
Cancel(c) ==
    /\ ctx[c] = "live"
    /\ pc[c] # "returned"
    /\ ctx' = [ctx EXCEPT ![c] = "done"]
    /\ UNCHANGED <<pc, attempt, lastErr, result, requests, reply>>

-----------------------------------------------------------------------------
(* The network, as the handlers of a service use it.                       *)

Awaited(m) == pc[m.call] = "wait" /\ attempt[m.call] = m.n

\* r goes back to the exchange of m, if anybody still reads it.
Answer(m, r) ==
    /\ requests' = requests \ {m}
    /\ reply' = IF Awaited(m) THEN [reply EXCEPT ![m.call] = r] ELSE reply

Client(c, wantsBody) ==
    \/ Send(c)
    \/ SendCancelled(c)
    \/ Abort(c)
    \/ Receive(c, wantsBody)
    \/ BackoffElapsed(c)
    \/ BackoffCancelled(c)

Returned(c) == pc[c] = "returned"
=============================================================================
