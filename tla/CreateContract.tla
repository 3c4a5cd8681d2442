--------------------------- MODULE CreateContract ---------------------------
(***************************************************************************)
(* What a create method (CreatePaymentSession, RequestPayout, CreateStore, *)
(* ...) promises its callers, with no attempt, network or service in       *)
(* sight.  A call is made with an idempotency key or with none.  Under a   *)
(* key the resource is created at most once, whoever asks and however      *)
(* often; with no key a call creates at most MaxAttempts of them.  A call  *)
(* answers once: with its resource, with the conflict of a key that was    *)
(* used for something else, or with an error that settles nothing.         *)
(***************************************************************************)
EXTENDS Integers, Sequences

CONSTANTS Calls, Keys, NoKey, Payloads, MaxAttempts

VARIABLES
    asked,      \* call -> what its caller asked for, or Nothing
    made,       \* the resources, in the order of their creation
    answer      \* call -> what it answered, or "pending"

vars == <<asked, made, answer>>

Nothing == [key |-> NoKey, payload |-> NoKey]
Pending == [kind |-> "pending", id |-> 0]

Owns(c, r) ==
    IF asked[c].key = NoKey THEN r.call = c ELSE r.key = asked[c].key

Init ==
    /\ asked = [c \in Calls |-> Nothing]
    /\ made = << >>
    /\ answer = [c \in Calls |-> Pending]

Ask(c, k, p) ==
    /\ asked[c] = Nothing
    /\ asked' = [asked EXCEPT ![c] = [key |-> k, payload |-> p]]
    /\ UNCHANGED <<made, answer>>

\* May come after the call has answered: the request outlives its caller.
Make(c) ==
    /\ asked[c] # Nothing
    /\ \E t \in 0 .. MaxAttempts - 1 :
        /\ \A i \in DOMAIN made :
             IF asked[c].key = NoKey
               THEN made[i].call # c \/ made[i].n # t
               ELSE made[i].key # asked[c].key
        /\ made' = Append(made, [call |-> c, n |-> t, key |-> asked[c].key,
                                 payload |-> asked[c].payload])
    /\ UNCHANGED <<asked, answer>>

Succeed(c) ==
    \E i \in DOMAIN made :
        /\ Owns(c, made[i])
        /\ made[i].payload = asked[c].payload
        /\ answer' = [answer EXCEPT ![c] = [kind |-> "ok", id |-> i]]

Conflict(c) ==
    /\ asked[c].key # NoKey
    /\ \E i \in DOMAIN made :
         /\ made[i].key = asked[c].key
         /\ made[i].payload # asked[c].payload
    /\ answer' = [answer EXCEPT ![c] = [kind |-> "conflict", id |-> 0]]

Fail(c) == answer' = [answer EXCEPT ![c] = [kind |-> "error", id |-> 0]]

Reply(c) ==
    /\ asked[c] # Nothing
    /\ answer[c] = Pending
    /\ Succeed(c) \/ Conflict(c) \/ Fail(c)
    /\ UNCHANGED <<asked, made>>

Next ==
    \E c \in Calls :
        \/ \E k \in Keys \cup {NoKey}, p \in Payloads : Ask(c, k, p)
        \/ Make(c)
        \/ Reply(c)

Spec == Init /\ [][Next]_vars
=============================================================================
