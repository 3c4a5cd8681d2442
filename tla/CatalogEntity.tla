----------------------------- MODULE CatalogEntity -----------------------------
(***************************************************************************)
(* The life of one catalog entity (catalog.go): a store, or a product,     *)
(* plan or price with its versions.  Get, Patch, Delete, Publish and       *)
(* Archive are doJSON calls on an id; none takes an idempotency key and    *)
(* all are retried, so the service (external) may carry one out several    *)
(* times, and late, after calls made since.                                *)
(***************************************************************************)
EXTENDS DoJSON, Sequences

CONSTANT
    Refusals        \* statuses of answers given with no effect

ASSUME RefusalsAssumption == Refusals \subseteq (400 .. 599) \ {404, 409}

VARIABLES
    versioned,  \* FALSE: a store, which is changed in place
    input,      \* the operation and the id of each call
    entities    \* id -> status, the request that wrote it last, and whether
                \* something else keeps it from being deleted or changed

vars == <<clientVars, versioned, input, entities>>

Ops == {"get", "patch", "delete", "publish", "archive"}
Statuses == {"draft", "published", "archived", "deleted"}
Inputs == [op : Ops, target : Nat]
Nothing == [op |-> "get", target |-> 0]
NoWriter == [call |-> "nobody", n |-> 0]

Versions == [status : Statuses, of : Nat,
             writer : Requests \cup {NoWriter}, held : BOOLEAN]

Draft(of, writer) ==
    [status |-> "draft", of |-> of, writer |-> writer, held |-> FALSE]

TypeOK ==
    /\ ClientTypeOK
    /\ versioned \in BOOLEAN
    /\ input \in [Calls -> Inputs]
    /\ entities \in Seq(Versions)

Init ==
    /\ ClientInit
    /\ versioned \in BOOLEAN
    /\ input = [c \in Calls |-> Nothing]
    /\ \E s \in {"draft", "published"} :
         entities = <<[Draft(0, NoWriter) EXCEPT !.status = s]>>

-----------------------------------------------------------------------------
(* The service (external), as catalog.go and spec/openapi.yaml tell it.    *)

Target(m) == input[m.call].target
Status(m) == entities[Target(m)].status
Is(m, op) == input[m.call].op = op

\* "a mutable draft (never published, no checkout reference chain)"
Mutable(m) == Status(m) = "draft" /\ ~entities[Target(m)].held

Ok(id) == [status |-> 200, code |-> 0, id |-> id]
NoContent == [status |-> 204, code |-> 0, id |-> 0]
Refusal(s) == [status |-> s, code |-> 0, id |-> 0]

\* A proxy may put its own 5xx in place of the answer.
Respond(m, r) ==
    \E a \in {r} \cup { Refusal(s) : s \in { t \in Refusals : t >= 500 } } :
        Answer(m, a)

SetStatus(m, s) ==
    entities' = [entities EXCEPT ![Target(m)].status = s]

\* A child of a draft store is published or archived, or a checkout refers to
\* a draft product, plan or price.  Neither is ever undone.
Hold(i) ==
    /\ entities[i].status = "draft" /\ ~entities[i].held
    /\ entities' = [entities EXCEPT ![i].held = TRUE]
    /\ UNCHANGED <<clientVars, versioned, input>>

Get(m) ==
    /\ Is(m, "get")
    /\ Status(m) # "deleted"
    /\ Respond(m, Ok(Target(m)))
    /\ UNCHANGED entities

PatchInPlace(m) ==
    /\ Is(m, "patch")
    /\ Mutable(m) \/ (~versioned /\ Status(m) # "deleted")
    /\ entities' = [entities EXCEPT ![Target(m)].writer = m]
    /\ Respond(m, Ok(Target(m)))

\* "response is 201 with a NEW resource ... The old row is untouched."
PatchVersion(m) ==
    /\ Is(m, "patch")
    /\ versioned
    /\ Status(m) # "deleted" /\ ~Mutable(m)
    /\ entities' = Append(entities, Draft(Target(m), m))
    /\ Respond(m, Ok(Len(entities) + 1))

\* "Only legal for a draft, never-published store with no archived/published
\* children", and for a draft of the others "with no checkout reference".
Delete(m) ==
    /\ Is(m, "delete")
    /\ Mutable(m)
    /\ SetStatus(m, "deleted")
    /\ Respond(m, NoContent)

\* Products, plans and prices: "only legal from draft".  Nothing is said of
\* stores: one that is published or archived may be published again.
Publish(m) ==
    /\ Is(m, "publish")
    /\ Status(m) = "draft" \/ (~versioned /\ Status(m) # "deleted")
    /\ SetStatus(m, "published")
    /\ Respond(m, Ok(Target(m)))

Archive(m) ==
    /\ Is(m, "archive")
    /\ Status(m) # "deleted"
    /\ SetStatus(m, "archived")
    /\ Respond(m, Ok(Target(m)))

Gone(m) ==
    /\ Status(m) = "deleted"
    /\ Respond(m, Refusal(404))
    /\ UNCHANGED entities

Illegal(m) ==
    /\ \/ /\ Is(m, "delete") \/ Is(m, "publish")
          /\ Status(m) \in {"published", "archived"}
       \/ Is(m, "delete") /\ Status(m) = "draft" /\ ~Mutable(m)
    /\ Respond(m, Refusal(409))
    /\ UNCHANGED entities

Refuse(m) ==
    /\ \E s \in Refusals : Answer(m, Refusal(s))
    /\ UNCHANGED entities

-----------------------------------------------------------------------------
(* The callers.                                                            *)

\* DeleteStore and its like pass a nil out.
WantsBody(op) == op # "delete"

KnownIds == {1} \cup { result[c].id : c \in { d \in Calls : result[d].id # 0 } }

Start(c, op, id) ==
    /\ Enter(c)
    /\ input' = [input EXCEPT ![c] = [op |-> op, target |-> id]]
    /\ UNCHANGED <<versioned, entities>>

ClientStep(c) ==
    Client(c, WantsBody(input[c].op)) /\ UNCHANGED <<versioned, input, entities>>

CancelCtx(c) == Cancel(c) /\ UNCHANGED <<versioned, input, entities>>

ServerStep(m) ==
    /\ \/ Get(m)
       \/ PatchInPlace(m)
       \/ PatchVersion(m)
       \/ Delete(m)
       \/ Publish(m)
       \/ Archive(m)
       \/ Gone(m)
       \/ Illegal(m)
       \/ Refuse(m)
    /\ UNCHANGED <<pc, attempt, ctx, lastErr, result, versioned, input>>

Next ==
    \/ \E c \in Calls :
         \/ \E op \in Ops, id \in KnownIds : Start(c, op, id)
         \/ ClientStep(c)
         \/ CancelCtx(c)
    \/ \E m \in requests : ServerStep(m)
    \/ \E i \in DOMAIN entities : Hold(i)

Spec == Init /\ [][Next]_vars

-----------------------------------------------------------------------------
(* Properties.                                                             *)

StatusNow(c) == entities[input[c].target].status
Succeeded(c, op) == result[c].kind = "ok" /\ input[c].op = op
Told(c, status) == result[c].kind = "api" /\ result[c].status = status

\* What the caller of a transition is told stays true, whatever attempts of
\* its own and of other calls are handled later: a deletion is for good, an
\* archived product is not published by a late attempt, and a 404 or 409, which
\* may be the work of an earlier attempt of the same call, means of a deletion
\* that the entity is gone, or that it is never deleted, by the attempts of the
\* call still on their way either; the 409 of a publication, that it is done.
OutcomeStaysTrue ==
    \A c \in Calls :
        /\ Succeeded(c, "delete") \/ Told(c, 404) => StatusNow(c) = "deleted"
        /\ versioned /\ Succeeded(c, "archive") => StatusNow(c) = "archived"
        /\ Succeeded(c, "publish") \/ Succeeded(c, "archive") =>
               StatusNow(c) \in {"published", "archived"}
        /\ Told(c, 409) =>
             \/ StatusNow(c) \in {"published", "archived"}
             \/ /\ input[c].op = "delete" /\ StatusNow(c) = "draft"
                /\ entities[input[c].target].held

PatchedToVersion(c) ==
    Succeeded(c, "patch") /\ result[c].id # input[c].target

\* With no key a retried patch may fork the versions of a product, but an
\* attempt writes one at most; and a version a patch returns supersedes what it
\* was asked to patch and is returned by no other patch that made a version.
PatchMakesItsOwnVersion ==
    /\ \A i, j \in DOMAIN entities :
         entities[i].writer = entities[j].writer /\ entities[i].writer # NoWriter =>
             i = j
    /\ \A c \in Calls :
         PatchedToVersion(c) =>
             /\ entities[result[c].id].of = input[c].target
             /\ \A d \in Calls \ {c} :
                  PatchedToVersion(d) => result[d].id # result[c].id
=============================================================================
