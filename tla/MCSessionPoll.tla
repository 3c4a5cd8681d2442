---------------------------- MODULE MCSessionPoll ----------------------------
EXTENDS SessionPoll

CONSTANT c1

\* The defaults, a first interval above the cap, a backoff out of range, and an
\* interval so short that rounding takes away what the backoff adds.
MCOptions == { [interval |-> 0, maxInterval |-> 0, backoff |-> 0],
               [interval |-> 5, maxInterval |-> 2, backoff |-> 4],
               [interval |-> 1, maxInterval |-> 4, backoff |-> 500],
               [interval |-> 1, maxInterval |-> 4, backoff |-> 3] }
=============================================================================
