--------------------------- MODULE IntentContract ---------------------------
(***************************************************************************)
(* What the calls on one payment session promise those who make them:      *)
(* SelectCheckoutMethod, GetCheckoutIntent, SimulatePayment and            *)
(* FulfillDemoPaymentSession, with no attempt, network or service in       *)
(* sight.  The session moves on by what somebody asked for, by a payment   *)
(* or by its expiry.  A call answers once, and the answer was true at some *)
(* moment between its beginning and its end; an error settles nothing.     *)
(***************************************************************************)
EXTENDS Integers, Sequences

CONSTANTS Calls, Methods, Candidates, NoMethod, Nobody

VARIABLES
    history,    \* the states the session went through
    asked,      \* call -> what its caller asked for, or Nothing
    since,      \* call -> how far the session was then
    answer      \* call -> what it answered

vars == <<history, asked, since, answer>>

Ops == {"SelectCheckoutMethod", "GetCheckoutIntent", "SimulatePayment",
        "FulfillDemoPaymentSession"}
Inputs == [op : Ops, method : Methods \cup {NoMethod}]
Nothing == [op |-> "none", method |-> NoMethod]
Awaiting == [status |-> "awaiting_method_selection", method |-> NoMethod,
             by |-> Nobody]
Pending(method, c) == [status |-> "pending", method |-> method, by |-> c]
Unanswered == [kind |-> "pending", at |-> 0]

Current == history[Len(history)]
Becomes(status, c) ==
    history' = Append(history, [status |-> status, method |-> Current.method, by |-> c])

\* A session to select a method for, or a demo session, which has its method.
Init ==
    /\ \E m \in Candidates : history \in { <<Awaiting>>, <<Pending(m, Nobody)>> }
    /\ asked = [c \in Calls |-> Nothing]
    /\ since = [c \in Calls |-> 0]
    /\ answer = [c \in Calls |-> Unanswered]

IsIntent == history[1].status = "awaiting_method_selection"
Selects(c) == asked[c].op = "SelectCheckoutMethod"
Settles(c) == asked[c].op \in {"SimulatePayment", "FulfillDemoPaymentSession"}

Ask(c, input) ==
    /\ asked[c] = Nothing
    /\ asked' = [asked EXCEPT ![c] = input]
    /\ since' = [since EXCEPT ![c] = Len(history)]
    /\ UNCHANGED <<history, answer>>

\* May come after the call has answered: a request outlives its caller.
Effect(c) ==
    /\ \/ /\ Selects(c)
          /\ Current = Awaiting
          /\ asked[c].method \in Candidates
          /\ history' = Append(history, Pending(asked[c].method, c))
       \/ /\ Settles(c)
          /\ Current.status = "pending"
          /\ Becomes("completed", c)
    /\ UNCHANGED <<asked, since, answer>>

World ==
    /\ \/ Current.status = "pending" /\ Becomes("completed", Nobody)
       \/ /\ Current.status \in {"pending", "awaiting_method_selection"}
          /\ Becomes("expired", Nobody)
    /\ UNCHANGED <<asked, since, answer>>

\* The states the session had while the call ran.
During(c) == since[c] .. Len(history)

\* A selection is told of the session that came of it, whoever's it was; one
\* who settles a session is told so only if the call did it.
Succeed(c, at) ==
    LET s == history[at] IN
    /\ Selects(c) => IsIntent /\ s.method # NoMethod
    /\ Settles(c) => s.status = "completed" /\ s.by = c

Conflict(c, at) ==
    \/ /\ Selects(c)
       /\ \/ asked[c].method \notin Candidates
          \/ ~IsIntent
          \/ history[at].status = "expired"
    \/ Settles(c) /\ history[at].status # "pending"
    \/ asked[c].op = "FulfillDemoPaymentSession" /\ IsIntent

Reply(c) ==
    /\ asked[c] # Nothing
    /\ answer[c] = Unanswered
    /\ \/ \E at \in During(c) :
            /\ Succeed(c, at)
            /\ answer' = [answer EXCEPT ![c] =
                    [kind |-> "ok",
                     at |-> IF asked[c].op = "FulfillDemoPaymentSession"
                              THEN 0 ELSE at]]
       \/ \E at \in During(c) :
            /\ Conflict(c, at)
            /\ answer' = [answer EXCEPT ![c] = [kind |-> "conflict", at |-> 0]]
       \/ answer' = [answer EXCEPT ![c] = [kind |-> "error", at |-> 0]]
    /\ UNCHANGED <<history, asked, since>>

Next ==
    \/ \E c \in Calls :
         \/ \E i \in Inputs : Ask(c, i)
         \/ Effect(c)
         \/ Reply(c)
    \/ World

Spec == Init /\ [][Next]_vars
=============================================================================
