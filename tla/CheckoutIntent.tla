--------------------------- MODULE CheckoutIntent ---------------------------
(***************************************************************************)
(* The calls that several parties make on one payment session:             *)
(* SelectCheckoutMethod by the payers and GetCheckoutIntent by anybody, of *)
(* checkout_intent.go, SimulatePayment and FulfillDemoPaymentSession of    *)
(* sessions.go.  None of them takes an idempotency key, all are doJSON     *)
(* calls and are made again after a lost answer.  The session is a         *)
(* checkout intent or a demo session; the service (external) keeps the     *)
(* history of its states, and an answer carries the position it shows.     *)
(***************************************************************************)
EXTENDS DoJSON, Sequences

CONSTANTS
    Methods,        \* payment methods the payers ask for
    Candidates,     \* those the merchant offers
    NoMethod,       \* an intent that awaits its selection
    Nobody,         \* whoever pays, and the clock
    Gateway         \* statuses of answers that come from a proxy

ASSUME CandidatesAssumption ==
    Candidates \subseteq Methods /\ Candidates # {} /\ NoMethod \notin Methods
ASSUME GatewayAssumption == Gateway \subseteq 500 .. 599
ASSUME NobodyAssumption == Nobody \notin Calls

VARIABLES
    input,      \* what each call was made with
    since,      \* how far the session was when the call was made
    history     \* the states the session went through

vars == <<clientVars, input, since, history>>

Ops == {"SelectCheckoutMethod", "GetCheckoutIntent", "SimulatePayment",
        "FulfillDemoPaymentSession"}
Inputs == [op : {"SelectCheckoutMethod"}, method : Methods]
            \cup [op : Ops \ {"SelectCheckoutMethod"}, method : {NoMethod}]
DemoMethod == CHOOSE m \in Candidates : TRUE
Nothing == [op |-> "none", method |-> NoMethod]
States == [status : {"awaiting_method_selection", "pending", "completed", "expired"},
           method : Candidates \cup {NoMethod},
           by : Calls \cup {Nobody}]

TypeOK ==
    /\ ClientTypeOK
    /\ input \in [Calls -> Inputs \cup {Nothing}]
    /\ since \in [Calls -> 0 .. Len(history)]
    /\ history \in Seq(States)

Init ==
    /\ ClientInit
    /\ input = [c \in Calls |-> Nothing]
    /\ since = [c \in Calls |-> 0]
    /\ history \in
         { << [status |-> "awaiting_method_selection", method |-> NoMethod,
               by |-> Nobody] >>,
           << [status |-> "pending", method |-> DemoMethod, by |-> Nobody] >> }

Is(m, op) == input[m.call].op = op

-----------------------------------------------------------------------------
(* The requests: built from the arguments for every attempt.               *)

\* Mutant: the body is built from a variable the caller has changed meanwhile.
MethodReread(m) ==
    IF m.n = 0 THEN input[m.call].method
    ELSE CHOOSE x \in Methods : x \notin Candidates \/ Candidates = Methods

\* SelectPaymentMethodRequest{PaymentMethod: method}
MethodAsked(m) == input[m.call].method

-----------------------------------------------------------------------------
(* The service (external).                                                 *)

Current == history[Len(history)]
IsIntent == history[1].status = "awaiting_method_selection"

Ok(at) == [status |-> 200, code |-> 0, id |-> at]
Refusal == [status |-> 409, code |-> 5, id |-> 0]
Hidden == { [status |-> s, code |-> 0, id |-> 0] : s \in Gateway }

\* A proxy may hide the answer behind its own.
Respond(m, r) == \E a \in {r} \cup Hidden : Answer(m, a)

Move(status, method, by) ==
    history' = Append(history, [status |-> status, method |-> method, by |-> by])

Read(m) ==
    /\ Is(m, "GetCheckoutIntent")
    /\ Respond(m, Ok(Len(history)))
    /\ UNCHANGED history

Selectable(m) == Is(m, "SelectCheckoutMethod") /\ IsIntent /\ MethodAsked(m) \in Candidates

Materialize(m) ==
    /\ Selectable(m)
    /\ Current.status = "awaiting_method_selection"
    /\ Move("pending", MethodAsked(m), m.call)
    /\ Respond(m, Ok(Len(history) + 1))

\* "the losing caller gets the same 200 response as the winner"
Converge(m) ==
    /\ Selectable(m)
    /\ Current.method # NoMethod
    /\ Respond(m, Ok(Len(history)))
    /\ UNCHANGED history

Settle(m) ==
    /\ Is(m, "SimulatePayment") \/ (Is(m, "FulfillDemoPaymentSession") /\ ~IsIntent)
    /\ Current.status = "pending"
    /\ Move("completed", Current.method, m.call)
    /\ Respond(m, Ok(Len(history) + 1))

\* Too late, or never possible.
Refuse(m) ==
    /\ \/ Is(m, "SelectCheckoutMethod") /\ ~Selectable(m)
       \/ Is(m, "SelectCheckoutMethod") /\ Current.status = "expired"
       \/ Is(m, "SimulatePayment") /\ Current.status # "pending"
       \/ Is(m, "FulfillDemoPaymentSession") /\ (IsIntent \/ Current.status # "pending")
    /\ Respond(m, Refusal)
    /\ UNCHANGED history

\* The request never reaches the service.
Unavailable(m) ==
    /\ \E r \in Hidden : Answer(m, r)
    /\ UNCHANGED history

\* Somebody pays; time passes.
Pay == Current.status = "pending" /\ Move("completed", Current.method, Nobody)
Expire ==
    /\ Current.status \in {"awaiting_method_selection", "pending"}
    /\ Move("expired", Current.method, Nobody)

ServerStep(m) ==
    /\ \/ Read(m)
       \/ Materialize(m)
       \/ Converge(m)
       \/ Settle(m)
       \/ Refuse(m)
       \/ Unavailable(m)
    /\ UNCHANGED <<pc, attempt, ctx, lastErr, result, input, since>>

World ==
    /\ Pay \/ Expire
    /\ UNCHANGED <<clientVars, input, since>>

-----------------------------------------------------------------------------
(* The callers.                                                            *)

Start(c, i) ==
    /\ Enter(c)
    /\ input' = [input EXCEPT ![c] = i]
    /\ since' = [since EXCEPT ![c] = Len(history)]
    /\ UNCHANGED history

\* FulfillDemoPaymentSession passes a nil out.
ClientStep(c) ==
    /\ Client(c, input[c].op # "FulfillDemoPaymentSession")
    /\ UNCHANGED <<input, since, history>>

\* Bound: a context ends between two attempts or not at all.  At any other
\* moment it does what a failing exchange does.
CancelCtx(c) ==
    /\ pc[c] = "backoff"
    /\ Cancel(c)
    /\ UNCHANGED <<input, since, history>>

Next ==
    \/ \E c \in Calls :
         \/ \E i \in Inputs : Start(c, i)
         \/ ClientStep(c)
         \/ CancelCtx(c)
    \/ \E m \in requests : ServerStep(m)
    \/ World

Spec == Init /\ [][Next]_vars

-----------------------------------------------------------------------------
(* Properties.                                                             *)

Shown(c) == result[c].kind = "ok" /\ result[c].id # 0

\* Mutant: the method that was asked for is returned with the session.
ToldAsAsked(c) ==
    IF input[c].op = "SelectCheckoutMethod"
      THEN [history[result[c].id] EXCEPT !.method = input[c].method]
      ELSE history[result[c].id]

\* The session a call returns: what the last answer was decoded into.
Told(c) == history[result[c].id]

\* However many payers select, whatever each of them asks for and whichever
\* attempt of theirs is handled first, all who are told of a method, by their
\* own selection or by reading the intent, are told of the same one: nobody
\* pays to an address of a session that another selection has replaced.
SelectionsConverge ==
    \A c, d \in Calls :
        /\ Shown(c) /\ Told(c).method # NoMethod
        /\ Shown(d) /\ Told(d).method # NoMethod
        => Told(c).method = Told(d).method

Refused(c) == result[c].kind = "api" /\ result[c].status = 409

\* A payer whose selection is refused has bound nothing that still waits for a
\* payment, not even by an attempt that was given up on and is handled later:
\* if the retry of a selection that worked is refused, the session has expired.
RefusedSelectionBindsNothing ==
    \A c \in Calls :
        Refused(c) /\ input[c].op = "SelectCheckoutMethod" =>
            /\ \A m \in requests : m.call = c => ~Selectable(m) \/ Current.status = "expired"
            /\ \A i \in DOMAIN history : history[i].by = c => Current.status = "expired"

\* SimulatePayment and FulfillDemoPaymentSession answer 409 to a caller whose
\* own earlier attempt settled the session; one that was refused in its first
\* attempt has settled nothing, and never will.
ConflictAtOnceIsNotOurs ==
    \A c \in Calls :
        /\ Refused(c) /\ attempt[c] = 0
        /\ input[c].op \in {"SimulatePayment", "FulfillDemoPaymentSession"}
        => /\ \A i \in DOMAIN history : history[i].by # c
           /\ \A m \in requests : m.call # c

\* The whole is an implementation of the contract of these calls.
AnswerOf(c) ==
    IF pc[c] # "returned" THEN [kind |-> "pending", at |-> 0]
    ELSE IF result[c].kind = "ok" THEN [kind |-> "ok", at |-> result[c].id]
    ELSE IF Refused(c) THEN [kind |-> "conflict", at |-> 0]
    ELSE [kind |-> "error", at |-> 0]

Contract == INSTANCE IntentContract
              WITH asked <- input, answer <- [c \in Calls |-> AnswerOf(c)]

ImplementsContract == Contract!Spec
=============================================================================
