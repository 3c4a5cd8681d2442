------------------------- MODULE CatalogEntityProofs -------------------------
(***************************************************************************)
(* Proofs about CatalogEntity, for any calls, refusals and number of       *)
(* attempts, and for every kind of entity.                                 *)
(***************************************************************************)
EXTENDS CatalogEntity, DoJSONProofs

-----------------------------------------------------------------------------
(* The inductive invariant.                                                *)

Entities == DOMAIN entities

Started ==
    /\ 1 \in Entities
    /\ \A c \in Calls :
         IF pc[c] = "idle" THEN attempt[c] = 0 ELSE input[c].target \in Entities

\* An exchange that was opened.
Sent(m) ==
    /\ pc[m.call] # "idle"
    /\ m.n <= attempt[m.call]
    /\ m.n = attempt[m.call] => pc[m.call] \in {"wait", "returned"}

SentRequests == \A m \in requests : Sent(m)

\* Who wrote an entity was sent, and is not on its way any more.
Writers ==
    \A i \in Entities :
        LET m == entities[i].writer
        IN  m # NoWriter => Sent(m) /\ m \notin requests

OneEntityPerWriter ==
    \A i, j \in Entities :
        entities[i].writer = entities[j].writer /\ entities[i].writer # NoWriter =>
            i = j

\* Only a call that waits has a response to read.
RepliesAwaited ==
    \A c \in Calls :
        reply[c] # NoReply =>
            pc[c] = "wait" /\ [call |-> c, n |-> attempt[c]] \notin requests

HeldNow(c) == entities[input[c].target].held

\* What a status says of the entity.
TrueStatus(c, status) ==
    /\ status = 200 =>
         /\ input[c].op # "delete"
         /\ input[c].op \in {"publish", "archive"} =>
              StatusNow(c) \in {"published", "archived"}
         /\ input[c].op = "archive" /\ versioned => StatusNow(c) = "archived"
    /\ status = 204 => input[c].op = "delete" /\ StatusNow(c) = "deleted"
    /\ status = 404 => StatusNow(c) = "deleted"
    /\ status = 409 =>
         \/ StatusNow(c) \in {"published", "archived"}
         \/ input[c].op = "delete" /\ StatusNow(c) = "draft" /\ HeldNow(c)

\* A patch is told of what it patched, or of a version of it.
IsVersion(c, id) == input[c].op = "patch" /\ id \notin {0, input[c].target}
TrueId(c, id) ==
    /\ id # 0 => id \in Entities
    /\ IsVersion(c, id) => entities[id].of = input[c].target

TrueReply(c, r) ==
    /\ r.status \in {200, 204, 404, 409} \cup Refusals
    /\ r.status = 200 => r.id # 0
    /\ TrueStatus(c, r.status)
    /\ TrueId(c, r.id)

RepliesTrue == \A c \in Calls : reply[c] # NoReply => TrueReply(c, reply[c])

TrueResult(c, o) ==
    /\ o.kind \in {"ok", "api"} => TrueStatus(c, o.status)
    /\ o.kind = "ok" => o.status \in {200, 204}
    /\ o.kind = "ok" /\ input[c].op # "delete" => o.id # 0
    /\ TrueId(c, o.id)

ResultsTrue == \A c \in Calls : TrueResult(c, result[c])

\* No two calls are told of a version that both have made.
ToldOf(c, id) == id # 0 /\ (reply[c].id = id \/ result[c].id = id)
VersionsDiffer ==
    \A c, d \in Calls : \A id \in Entities :
        /\ ToldOf(c, id) /\ IsVersion(c, id)
        /\ ToldOf(d, id) /\ IsVersion(d, id)
        => c = d

NotYet == \A c \in Calls : pc[c] # "returned" => result[c] = Plain("none")

IInv ==
    /\ TypeOK
    /\ Started
    /\ SentRequests
    /\ Writers
    /\ OneEntityPerWriter
    /\ RepliesAwaited
    /\ RepliesTrue
    /\ NotYet
    /\ ResultsTrue
    /\ VersionsDiffer

-----------------------------------------------------------------------------
(* The invariant holds at first.                                           *)

LEMMA InitIInv == Init => IInv
  <1> SUFFICES ASSUME Init PROVE IInv
    OBVIOUS
  <1> USE DEF Init, ClientInit
  <1>1. PICK s \in {"draft", "published"} :
          entities = <<[Draft(0, NoWriter) EXCEPT !.status = s]>>
    OBVIOUS
  <1>2. [Draft(0, NoWriter) EXCEPT !.status = s] \in Versions
    BY DEF Draft, Versions, Statuses
  <1>3. TypeOK
    <2>1. Plain("none") \in Outcomes /\ NoReply \in Replies
      BY DEF Plain, Outcomes, Kinds, NoReply, Replies
    <2>2. Nothing \in Inputs
      BY DEF Nothing, Inputs, Ops
    <2> QED
      BY <1>1, <1>2, <2>1, <2>2, AttemptsAssumption
         DEF TypeOK, ClientTypeOK, Attempts, Requests
  <1>4. Started /\ SentRequests /\ Writers /\ OneEntityPerWriter
    BY <1>1 DEF Draft, Started, SentRequests, Writers, OneEntityPerWriter, Entities
  <1>5. RepliesAwaited /\ RepliesTrue /\ NotYet
    BY DEF RepliesAwaited, RepliesTrue, NotYet
  <1>6. ResultsTrue /\ VersionsDiffer
    BY DEF ResultsTrue, TrueResult, TrueId, VersionsDiffer, ToldOf, IsVersion, Plain,
           NoReply
  <1> QED
    BY <1>3, <1>4, <1>5, <1>6 DEF IInv

LEMMA RefusalFacts ==
    \A s \in Refusals : s \in Nat /\ s >= 400 /\ s \notin {200, 204, 404, 409}
  BY RefusalsAssumption

LEMMA EntityFacts ==
    ASSUME TypeOK, NEW i \in Entities
    PROVE  /\ i \in Nat
           /\ entities[i] \in Versions
           /\ entities[i].status \in Statuses /\ entities[i].held \in BOOLEAN
           /\ entities[i].writer # NoWriter =>
                entities[i].writer \in Requests /\ entities[i].writer.call \in Calls
  <1>1. i \in Nat /\ entities[i] \in Versions
    BY DEF TypeOK, Entities
  <1> QED
    BY <1>1 DEF Versions, Requests

-----------------------------------------------------------------------------
(* Every step keeps it: the caller's steps.                                *)

LEMMA StartIInv ==
    ASSUME IInv, NEW c \in Calls, NEW op \in Ops, NEW id \in KnownIds, Start(c, op, id)
    PROVE  IInv'
  <1> USE DEF IInv, TypeOK, ClientTypeOK, Start, Enter
  <1>1. attempt[c] = 0 /\ result[c] = Plain("none") /\ reply[c] = NoReply
    BY DEF Started, NotYet, RepliesAwaited
  <1>2. id \in Entities /\ id \in Nat
    <2>1. id = 1 \/ \E d \in Calls : id = result[d].id /\ result[d].id # 0
      BY DEF KnownIds
    <2>2. id \in Entities
      BY <2>1 DEF Started, ResultsTrue, TrueResult, TrueId
    <2> QED
      BY <2>2 DEF Entities
  <1>3. TypeOK'
    BY <1>2 DEF Inputs
  <1>4. Started' /\ SentRequests'
    BY <1>1, <1>2 DEF Started, SentRequests, Sent, Requests, Entities
  <1>5. Writers'
    <2> SUFFICES ASSUME NEW i \in Entities, entities[i].writer # NoWriter
                 PROVE  Sent(entities[i].writer)' /\ entities[i].writer \notin requests
      BY DEF Writers, Entities
    <2>1. Sent(entities[i].writer) /\ entities[i].writer \notin requests
      BY DEF Writers
    <2>2. entities[i].writer.call \in Calls
      BY EntityFacts
    <2> QED
      BY <2>1, <2>2 DEF Sent
  <1>6. OneEntityPerWriter' /\ RepliesAwaited' /\ NotYet'
    BY DEF OneEntityPerWriter, Entities, RepliesAwaited, NotYet
  <1>7. ASSUME NEW d \in Calls, d # c
        PROVE  /\ \A r : TrueReply(d, r) => TrueReply(d, r)'
               /\ \A o : TrueResult(d, o) => TrueResult(d, o)'
    <2>1. input'[d] = input[d] /\ pc'[d] = pc[d]
      BY <1>7
    <2> QED
      BY <2>1 DEF TrueReply, TrueResult, TrueStatus, TrueId, IsVersion, StatusNow, HeldNow, Entities
  <1>8. RepliesTrue'
    BY <1>1, <1>7 DEF RepliesTrue
  <1>9. ResultsTrue'
    <2> SUFFICES ASSUME NEW d \in Calls
                 PROVE  TrueResult(d, result[d])'
      BY DEF ResultsTrue
    <2>1. CASE d = c
      <3>1. result'[d].kind = "none" /\ result'[d].id = 0
        BY <1>1, <2>1 DEF Plain
      <3> QED
        BY <3>1 DEF TrueResult, TrueId, IsVersion
    <2>2. CASE d # c
      BY <1>7, <2>2 DEF ResultsTrue
    <2> QED
      BY <2>1, <2>2
  <1>10. VersionsDiffer'
    <2>1. \A x : ~ToldOf(c, x)'
      BY <1>1 DEF ToldOf, NoReply, Plain
    <2>2. \A d \in Calls \ {c} : \A x :
            ToldOf(d, x)' = ToldOf(d, x) /\ IsVersion(d, x)' = IsVersion(d, x)
      BY DEF ToldOf, IsVersion
    <2> QED
      BY <2>1, <2>2 DEF VersionsDiffer, Entities
  <1> QED
    BY <1>3, <1>4, <1>5, <1>6, <1>8, <1>9, <1>10

LEMMA CancelIInv ==
    ASSUME IInv, NEW c \in Calls, CancelCtx(c)
    PROVE  IInv'
  <1> USE DEF IInv, CancelCtx, Cancel
  <1>1. TypeOK'
    BY DEF TypeOK, ClientTypeOK
  <1>2. Started' /\ SentRequests' /\ Writers' /\ OneEntityPerWriter'
    BY DEF Started, SentRequests, Writers, OneEntityPerWriter, Sent, Entities
  <1>3. RepliesAwaited' /\ NotYet' /\ VersionsDiffer'
    BY DEF RepliesAwaited, NotYet, VersionsDiffer, ToldOf, IsVersion, Entities
  <1>4. RepliesTrue' /\ ResultsTrue'
    BY DEF RepliesTrue, ResultsTrue, TrueReply, TrueResult, TrueStatus, TrueId,
           IsVersion, StatusNow, HeldNow, Entities
  <1> QED
    BY <1>1, <1>2, <1>3, <1>4

LEMMA ClientIInv ==
    ASSUME IInv, NEW c \in Calls, ClientStep(c)
    PROVE  IInv'
  <1> USE DEF IInv, ClientStep
  <1> DEFINE w == WantsBody(input[c].op)
  <1>0. w \in BOOLEAN /\ (w <=> input[c].op # "delete")
    BY DEF WantsBody
  <1>1. ClientTypeOK' /\ ClientTypeOK
    BY <1>0, ClientStepType DEF TypeOK
  <1>2. ClientFrame(c)
    BY <1>0, <1>1, ClientStepFrame
  <1>3. UNCHANGED <<versioned, input, entities>>
    OBVIOUS
  <1>4. TypeOK'
    BY <1>1, <1>3 DEF TypeOK
  <1>5. Started' /\ OneEntityPerWriter'
    BY <1>1, <1>2, <1>3 DEF Started, OneEntityPerWriter, Entities, ClientFrame,
                            ClientTypeOK
  <1>6. ASSUME NEW m \in Requests, Sent(m)
        PROVE  /\ Sent(m)'
               /\ m \in requests' => m \in requests
    <2>1. /\ m.call \in Calls /\ m.n \in Nat /\ attempt[m.call] \in Nat
          /\ m = [call |-> m.call, n |-> m.n]
      BY <1>1 DEF ClientTypeOK, Requests, Attempts
    <2>2. Sent(m)'
      BY <1>2, <1>6, <2>1 DEF ClientFrame, Sent
    <2>3. m # [call |-> c, n |-> attempt[c]] \/ pc[c] # "ready"
      BY <1>6 DEF Sent
    <2> QED
      BY <1>2, <2>2, <2>3 DEF ClientFrame
  <1>7. SentRequests'
    <2> SUFFICES ASSUME NEW m \in requests' PROVE Sent(m)'
      BY DEF SentRequests
    <2>1. CASE m \in requests
      BY <1>1, <1>6, <2>1 DEF SentRequests, ClientTypeOK
    <2>2. CASE m \notin requests
      BY <1>1, <1>2, <2>2 DEF Sent, ClientFrame, ClientTypeOK, Attempts
    <2> QED
      BY <2>1, <2>2
  <1>8. Writers'
    <2> SUFFICES ASSUME NEW i \in Entities, entities[i].writer # NoWriter
                 PROVE  Sent(entities[i].writer)' /\ entities[i].writer \notin requests'
      BY <1>3 DEF Writers, Entities
    <2>1. Sent(entities[i].writer) /\ entities[i].writer \notin requests
      BY DEF Writers
    <2>2. entities[i].writer \in Requests
      BY EntityFacts
    <2> QED
      BY <1>6, <2>1, <2>2
  <1>9. RepliesAwaited' /\ NotYet'
    <2>1. RepliesAwaited'
      <3> SUFFICES ASSUME NEW d \in Calls, reply'[d] # NoReply
                   PROVE  /\ pc'[d] = "wait"
                          /\ [call |-> d, n |-> attempt'[d]] \notin requests'
        BY DEF RepliesAwaited
      <3>1. reply[d] # NoReply
        BY <1>2 DEF ClientFrame
      <3>2. pc[d] = "wait" /\ d # c
        BY <1>2, <3>1 DEF RepliesAwaited, ClientFrame
      <3> QED
        BY <1>2, <3>1, <3>2 DEF RepliesAwaited, ClientFrame
    <2>2. NotYet'
      BY <1>2 DEF NotYet, ClientFrame
    <2> QED
      BY <2>1, <2>2
  <1>10. \A d, x : /\ TrueStatus(d, x)' = TrueStatus(d, x)
                   /\ TrueId(d, x)' = TrueId(d, x)
                   /\ IsVersion(d, x)' = IsVersion(d, x)
    BY <1>3 DEF TrueStatus, TrueId, IsVersion, StatusNow, HeldNow, Entities
  <1>11. \A d \in Calls : reply'[d] # NoReply => reply'[d] = reply[d]
    BY <1>2 DEF ClientFrame
  <1>12. RepliesTrue'
    BY <1>10, <1>11 DEF RepliesTrue, TrueReply
  <1>13. \/ result'[c] = result[c]
         \/ TrueResult(c, result'[c]) /\ result'[c].id \in {0, reply[c].id}
    <2>1. CASE pc'[c] # "returned"
      BY <1>2, <2>1 DEF ClientFrame
    <2>2. CASE result'[c] \in {Plain("transport"), Plain("cancelled")}
      BY <2>2 DEF Plain, TrueResult, TrueId, IsVersion
    <2>3. CASE /\ pc[c] = "wait" /\ reply[c] # NoReply
               /\ attempt'[c] = attempt[c]
               /\ \E intact \in BOOLEAN :
                    result'[c] = DecodeResponse(reply[c], w, intact)
      <3>1. PICK intact \in BOOLEAN : result'[c] = DecodeResponse(reply[c], w, intact)
        BY <2>3
      <3>2. TrueReply(c, reply[c])
        BY <2>3 DEF RepliesTrue
      <3>3. TrueStatus(c, 204) => ~w
        BY <1>0 DEF TrueStatus
      <3>4. TrueId(c, 0)
        BY DEF TrueId, IsVersion
      <3>5. /\ result'[c].status = reply[c].status
            /\ result'[c].id \in {0, reply[c].id}
            /\ result'[c].kind = "ok" => reply[c].status < 400
            /\ result'[c].kind = "ok" /\ w /\ reply[c].status # 204 =>
                 result'[c].id = reply[c].id
        BY <1>1, <3>1 DEF DecodeResponse, ClientTypeOK, Replies
      <3>6. result'[c].kind = "ok" => reply[c].status \in {200, 204}
        BY <3>2, <3>5, RefusalFacts DEF TrueReply
      <3>7. TrueStatus(c, result'[c].status) /\ TrueId(c, result'[c].id)
        BY <3>2, <3>4, <3>5 DEF TrueReply
      <3>8. result'[c].kind = "ok" /\ input[c].op # "delete" => result'[c].id # 0
        <4>1. TrueStatus(c, reply[c].status)
          BY <3>2 DEF TrueReply
        <4>2. reply[c].status = 200 => reply[c].id # 0
          BY <3>2 DEF TrueReply
        <4> QED
          BY <1>0, <3>3, <3>5, <3>6, <4>1, <4>2
      <3> QED
        BY <3>5, <3>6, <3>7, <3>8 DEF TrueResult
    <2> QED
      BY <1>0, <1>1, <2>1, <2>2, <2>3, ClientReturns
  <1>14. ResultsTrue'
    <2> SUFFICES ASSUME NEW d \in Calls
                 PROVE  TrueResult(d, result[d])'
      BY DEF ResultsTrue
    <2>1. TrueResult(d, result'[d])
      BY <1>2, <1>13 DEF ResultsTrue, ClientFrame
    <2> QED
      BY <1>3, <1>10, <2>1 DEF TrueResult
  <1>15. VersionsDiffer'
    <2>1. \A d \in Calls : \A x : ToldOf(d, x)' => ToldOf(d, x)
      BY <1>2, <1>11, <1>13 DEF ToldOf, ClientFrame, NoReply
    <2> QED
      BY <1>3, <1>10, <2>1 DEF VersionsDiffer, Entities
  <1> QED
    BY <1>4, <1>5, <1>7, <1>8, <1>9, <1>12, <1>14, <1>15

-----------------------------------------------------------------------------
(* Every step keeps it: the service.                                       *)

\* What can become of an entity: nothing takes back a deletion, an archived
\* version or the end of a draft, and nothing deletes what is held.
Later(e, f) ==
    /\ e.held => f.held
    /\ \/ f.status = e.status
       \/ /\ e.status = "draft" /\ f.status \in Statuses
          /\ f.status = "deleted" => ~e.held
       \/ e.status \in {"published", "archived"} /\ f.status = "archived"
       \/ e.status = "archived" /\ f.status = "published" /\ ~versioned

\* m writes one entity, or a new one.
Rewrites(m) ==
    \E t \in Entities, e \in Versions :
        /\ entities' = [entities EXCEPT ![t] = e]
        /\ e.of = entities[t].of
        /\ Later(entities[t], e)
        /\ e.writer \in {entities[t].writer, m}

Forks(m) ==
    entities' = Append(entities, Draft(Target(m), m))

Writes(m) == UNCHANGED entities \/ Rewrites(m) \/ Forks(m)

\* What was true of an entity stays true.
LEMMA WritesFacts ==
    ASSUME TypeOK, UNCHANGED versioned, NEW m \in requests, Target(m) \in Nat, Writes(m)
    PROVE  /\ entities' \in Seq(Versions)
           /\ Entities \subseteq Entities'
           /\ \A i \in Entities :
                /\ entities'[i].of = entities[i].of
                /\ Later(entities[i], entities'[i])
           /\ \A i \in Entities' :
                entities'[i].writer # m =>
                    i \in Entities /\ entities'[i].writer = entities[i].writer
           /\ (\A i \in Entities : entities[i].writer # m) =>
                \A i, j \in Entities' :
                    entities'[i].writer = m /\ entities'[j].writer = m => i = j
  <1> USE DEF TypeOK, Entities
  <1>1. CASE UNCHANGED entities
    BY <1>1 DEF Later
  <1>2. CASE Rewrites(m)
    <2>1. PICK t \in Entities, e \in Versions :
            /\ entities' = [entities EXCEPT ![t] = e]
            /\ e.of = entities[t].of
            /\ Later(entities[t], e)
            /\ e.writer \in {entities[t].writer, m}
      BY <1>2 DEF Rewrites
    <2>2. /\ entities' \in Seq(Versions)
          /\ Entities' = Entities
          /\ \A i \in Entities : entities'[i] = IF i = t THEN e ELSE entities[i]
      BY <2>1
    <2>3. \A i \in Entities : Later(entities[i], entities[i])
      BY DEF Later
    <2> QED
      BY <2>1, <2>2, <2>3
  <1>3. CASE Forks(m)
    <2> DEFINE e == Draft(Target(m), m)
    <2>1. e \in Versions /\ e.writer = m
      BY DEF Draft, Versions, Statuses, ClientTypeOK
    <2>2. entities' = Append(entities, e)
      BY <1>3 DEF Forks
    <2> HIDE DEF e
    <2>3. /\ entities' \in Seq(Versions)
          /\ Entities' = 1 .. Len(entities) + 1
          /\ Entities = 1 .. Len(entities)
          /\ Len(entities) \in Nat
          /\ \A i \in Entities : entities'[i] = entities[i]
          /\ entities'[Len(entities) + 1] = e
      BY <2>1, <2>2, AppendFacts
    <2>4. \A i \in Entities' : i \in Entities \/ i = Len(entities) + 1
      BY <2>3
    <2> QED
      BY <2>1, <2>3, <2>4 DEF Later
  <1> QED
    BY <1>1, <1>2, <1>3 DEF Writes

LEMMA AnswerEffect ==
    ASSUME TypeOK, RepliesAwaited, NEW m \in requests, NEW r \in Replies, Answer(m, r)
    PROVE  /\ requests' = requests \ {m}
           /\ reply' \in [Calls -> Replies]
           /\ \A d \in Calls :
                \/ reply'[d] = reply[d]
                \/ /\ d = m.call /\ Awaited(m) /\ reply'[d] = r
                   /\ [call |-> d, n |-> attempt[d]] = m
  <1> USE DEF TypeOK, ClientTypeOK, Answer, RepliesAwaited, Awaited
  <1>1. m.call \in Calls /\ m = [call |-> m.call, n |-> m.n]
    BY DEF Requests
  <1> QED
    BY <1>1

\* A version that m is told of is new.
AnswersTrue(m) ==
    \E r \in Replies :
        /\ Answer(m, r)
        /\ TrueReply(m.call, r)'
        /\ IsVersion(m.call, r.id) => r.id \notin Entities

\* What an answer claims stays true of a later state of the entities.
LEMMA LaterTruth ==
    ASSUME TypeOK, UNCHANGED <<versioned, input>>,
           Entities \subseteq Entities',
           \A i \in Entities :
             entities'[i].of = entities[i].of /\ Later(entities[i], entities'[i]),
           NEW c \in Calls, input[c].target \in Entities
    PROVE  /\ \A status : TrueStatus(c, status) => TrueStatus(c, status)'
           /\ \A id : TrueId(c, id) => TrueId(c, id)'
  <1>1. Later(entities[input[c].target], entities[input[c].target]')
    OBVIOUS
  <1>2. \A id : TrueId(c, id) => TrueId(c, id)'
    BY DEF TrueId, IsVersion
  <1>3. ASSUME NEW status, TrueStatus(c, status)
        PROVE  TrueStatus(c, status)'
    BY <1>1, <1>3 DEF TrueStatus, Later, Statuses, StatusNow, HeldNow
  <1> QED
    BY <1>2, <1>3

LEMMA TruthStays ==
    ASSUME IInv, UNCHANGED <<versioned, input>>, NEW m \in requests, Writes(m),
           NEW c \in Calls, pc[c] # "idle"
    PROVE  /\ \A status : TrueStatus(c, status) => TrueStatus(c, status)'
           /\ \A id : TrueId(c, id) => TrueId(c, id)'
  <1>1. /\ TypeOK /\ input[c].target \in Entities
        /\ Target(m) \in Entities
    BY DEF IInv, Started, SentRequests, Sent, Target, TypeOK, ClientTypeOK, Requests
  <1>2. /\ Entities \subseteq Entities'
        /\ \A i \in Entities :
             /\ entities'[i].of = entities[i].of
             /\ Later(entities[i], entities'[i])
    BY <1>1, EntityFacts, WritesFacts
  <1> QED
    BY <1>1, <1>2, LaterTruth

LEMMA RefusalTrue ==
    ASSUME NEW c, NEW s \in Refusals
    PROVE  /\ Refusal(s) \in Replies
           /\ TrueReply(c, Refusal(s))'
           /\ ~IsVersion(c, Refusal(s).id)
  BY RefusalFacts DEF Refusal, Replies, TrueReply, TrueStatus, TrueId, IsVersion

LEMMA RespondTrue ==
    ASSUME NEW m \in requests, NEW r \in Replies, Respond(m, r),
           TrueReply(m.call, r)', IsVersion(m.call, r.id) => r.id \notin Entities
    PROVE  AnswersTrue(m)
  <1>1. PICK a \in {r} \cup { Refusal(s) : s \in { t \in Refusals : t >= 500 } } :
          Answer(m, a)
    BY DEF Respond
  <1>2. CASE a = r
    BY <1>1, <1>2 DEF AnswersTrue
  <1>3. CASE a # r
    <2>1. PICK s \in Refusals : a = Refusal(s)
      BY <1>3
    <2> QED
      BY <1>1, <2>1, RefusalTrue DEF AnswersTrue
  <1> QED
    BY <1>2, <1>3

LEMMA SetStatusFacts ==
    ASSUME TypeOK, UNCHANGED input, NEW m \in requests, Target(m) \in Entities,
           NEW s \in Statuses, SetStatus(m, s),
           Later(entities[Target(m)], [entities[Target(m)] EXCEPT !.status = s])
    PROVE  Rewrites(m) /\ StatusNow(m.call)' = s
  <1> DEFINE t == Target(m)
             e == [entities[t] EXCEPT !.status = s]
  <1>1. entities[t] \in Versions
    BY EntityFacts
  <1>2. /\ e \in Versions /\ e.status = s
        /\ e.of = entities[t].of /\ e.writer = entities[t].writer
    BY <1>1 DEF Versions
  <1>3. entities' = [entities EXCEPT ![t] = e]
    BY DEF SetStatus
  <1>4. entities'[t] = e
    BY <1>3 DEF Entities
  <1> QED
    BY <1>2, <1>3, <1>4 DEF Rewrites, StatusNow, Target, Status

LEMMA PatchFacts ==
    ASSUME TypeOK, NEW m \in requests, Target(m) \in Entities,
           entities' = [entities EXCEPT ![Target(m)].writer = m]
    PROVE  Rewrites(m)
  <1> DEFINE t == Target(m)
             e == [entities[t] EXCEPT !.writer = m]
  <1>1. entities[t] \in Versions
    BY EntityFacts
  <1>2. /\ e \in Versions /\ e.status = entities[t].status
        /\ e.held = entities[t].held /\ e.of = entities[t].of /\ e.writer = m
    BY <1>1 DEF Versions, TypeOK, ClientTypeOK
  <1>3. entities' = [entities EXCEPT ![t] = e]
    OBVIOUS
  <1> QED
    BY <1>2, <1>3 DEF Rewrites, Later

\* An answer of the service is true of the entities as it leaves them.
LEMMA ServerAnswers ==
    ASSUME IInv, NEW m \in requests, ServerStep(m)
    PROVE  AnswersTrue(m) /\ Writes(m)
  <1>0. PICK c, t : c = m.call /\ t = Target(m)
    OBVIOUS
  <1>1. /\ UNCHANGED <<versioned, input>> /\ TypeOK
        /\ c \in Calls /\ t \in Entities /\ t = input[c].target /\ pc[c] # "idle"
    BY <1>0
       DEF ServerStep, IInv, Started, SentRequests, Sent, Target, TypeOK, ClientTypeOK,
           Requests
  <1>2. /\ t \in Nat /\ t # 0 /\ entities[t] \in Versions /\ Status(m) \in Statuses
        /\ Status(m) = entities[t].status
    <2>1. 0 \notin Entities
      BY <1>1 DEF Entities, TypeOK
    <2> QED
      BY <1>0, <1>1, <2>1, EntityFacts DEF Status
  <1>3. Ok(t) \in Replies /\ NoContent \in Replies
        /\ Refusal(404) \in Replies /\ Refusal(409) \in Replies
    BY <1>2 DEF Ok, NoContent, Refusal, Replies
  <1>4. ASSUME Writes(m) PROVE t \in Entities'
    BY <1>0, <1>1, <1>2, <1>4, WritesFacts
  <1>5. StatusNow(c) = Status(m)
    BY <1>0, <1>1 DEF StatusNow, Status, Target
  <1>6. ~IsVersion(c, t) /\ ~IsVersion(c, 0) /\ ~IsVersion(c, t)' /\ ~IsVersion(c, 0)'
    BY <1>1 DEF IsVersion
  <1>7. ASSUME Writes(m), TrueStatus(c, 200)', Respond(m, Ok(t))
        PROVE  AnswersTrue(m)
    <2>1. TrueReply(c, Ok(t))'
      BY <1>1, <1>2, <1>4, <1>6, <1>7 DEF TrueReply, Ok, TrueId
    <2> QED
      BY <1>0, <1>3, <1>6, <1>7, <2>1, RespondTrue DEF Ok
  <1>8. ASSUME NEW r \in Replies, r.status \in {204, 404, 409}, r.id = 0,
               TrueStatus(c, r.status)', Respond(m, r)
        PROVE  AnswersTrue(m)
    <2>1. TrueReply(c, r)'
      BY <1>6, <1>8 DEF TrueReply, TrueId
    <2> QED
      BY <1>0, <1>6, <1>8, <2>1, RespondTrue
  <1> USE DEF Is
  <1>9. CASE Get(m)
    <2>1. TrueStatus(c, 200)'
      BY <1>0, <1>1, <1>9 DEF Get, TrueStatus
    <2> QED
      BY <1>0, <1>7, <1>9, <2>1 DEF Get, Writes
  <1>10. CASE PatchInPlace(m)
    <2>1. TrueStatus(c, 200)'
      BY <1>0, <1>1, <1>10 DEF PatchInPlace, TrueStatus
    <2>2. Writes(m)
      BY <1>0, <1>1, <1>10, PatchFacts DEF PatchInPlace, Writes
    <2> QED
      BY <1>0, <1>7, <1>10, <2>1, <2>2 DEF PatchInPlace
  <1>11. CASE PatchVersion(m)
    <2>1. PICK next \in Nat : next = Len(entities) + 1
      <3>1. Len(entities) + 1 \in Nat
        BY <1>0, <1>1 DEF TypeOK
      <3> QED
        BY <3>1
    <2>2. Forks(m)
      BY <1>0, <1>11 DEF PatchVersion, Forks
    <2> DEFINE e == Draft(t, m)
    <2>3. e \in Versions /\ entities' = Append(entities, e) /\ e.of = t
      BY <1>0, <1>1, <1>2, <2>2 DEF Draft, Forks, Versions, Statuses, TypeOK, ClientTypeOK
    <2> HIDE DEF e
    <2>4. next \in Entities' /\ entities'[next] = e /\ next \notin Entities
      BY <1>0, <1>1, <2>1, <2>3, AppendFacts DEF TypeOK, Entities
    <2>5. TrueReply(c, Ok(next))'
      BY <1>0, <1>1, <1>11, <2>1, <2>3, <2>4
         DEF TrueReply, Ok, TrueId, TrueStatus, PatchVersion, Target
    <2>6. Ok(next) \in Replies /\ Ok(next).id = next
      BY <2>1 DEF Ok, Replies
    <2> QED
      BY <1>0, <1>11, <2>1, <2>2, <2>4, <2>5, <2>6, RespondTrue DEF PatchVersion, Writes
  <1>12. CASE Delete(m)
    <2>1. Later(entities[t], [entities[t] EXCEPT !.status = "deleted"])
      BY <1>0, <1>2, <1>12 DEF Delete, Mutable, Status, Later, Versions, Statuses
    <2>3. Rewrites(m) /\ StatusNow(c)' = "deleted"
      BY <1>0, <1>1, <1>12, <2>1, SetStatusFacts DEF Delete, Statuses
    <2>2. TrueStatus(c, 204)'
      BY <1>0, <1>1, <1>12, <2>3 DEF Delete, TrueStatus
    <2> QED
      BY <1>0, <1>3, <1>8, <1>12, <2>2, <2>3 DEF Delete, Writes, NoContent
  <1>13. CASE Publish(m)
    <2>1. Later(entities[t], [entities[t] EXCEPT !.status = "published"])
      BY <1>0, <1>2, <1>13 DEF Publish, Later, Versions, Statuses
    <2>2. Rewrites(m) /\ StatusNow(c)' = "published"
      BY <1>0, <1>1, <1>13, <2>1, SetStatusFacts DEF Publish, Statuses
    <2>3. TrueStatus(c, 200)'
      BY <1>0, <1>1, <1>13, <2>2 DEF Publish, TrueStatus
    <2> QED
      BY <1>0, <1>7, <1>13, <2>2, <2>3 DEF Publish, Writes
  <1>14. CASE Archive(m)
    <2>1. Later(entities[t], [entities[t] EXCEPT !.status = "archived"])
      BY <1>0, <1>2, <1>14 DEF Archive, Later, Versions, Statuses
    <2>2. Rewrites(m) /\ StatusNow(c)' = "archived"
      BY <1>0, <1>1, <1>14, <2>1, SetStatusFacts DEF Archive, Statuses
    <2>3. TrueStatus(c, 200)'
      BY <1>0, <1>1, <1>14, <2>2 DEF Archive, TrueStatus
    <2> QED
      BY <1>0, <1>7, <1>14, <2>2, <2>3 DEF Archive, Writes
  <1>15. CASE Gone(m)
    <2>1. TrueStatus(c, 404)'
      BY <1>0, <1>1, <1>5, <1>15 DEF Gone, TrueStatus, StatusNow
    <2> QED
      BY <1>0, <1>3, <1>8, <1>15, <2>1 DEF Gone, Writes, Refusal
  <1>16. CASE Illegal(m)
    <2>1. TrueStatus(c, 409)'
      BY <1>0, <1>1, <1>5, <1>16 DEF Illegal, Mutable, Status, TrueStatus, StatusNow, HeldNow,
                                           Target
    <2> QED
      BY <1>0, <1>3, <1>8, <1>16, <2>1 DEF Illegal, Writes, Refusal
  <1>17. CASE Refuse(m)
    BY <1>0, <1>17, RefusalTrue DEF Refuse, Writes, AnswersTrue
  <1> QED
    BY <1>0, <1>9, <1>10, <1>11, <1>12, <1>13, <1>14, <1>15, <1>16, <1>17 DEF ServerStep

LEMMA ServerIInv ==
    ASSUME IInv, NEW m \in requests, ServerStep(m)
    PROVE  IInv'
  <1>1. AnswersTrue(m) /\ Writes(m)
    BY ServerAnswers
  <1>2. PICK r \in Replies :
          /\ Answer(m, r) /\ TrueReply(m.call, r)'
          /\ IsVersion(m.call, r.id) => r.id \notin Entities
    BY <1>1 DEF AnswersTrue
  <1>3. /\ TypeOK /\ RepliesAwaited
        /\ UNCHANGED <<pc, attempt, ctx, lastErr, result, versioned, input>>
    BY DEF ServerStep, IInv
  <1>4. /\ m.call \in Calls /\ Target(m) \in Nat /\ m \in Requests
        /\ Sent(m) /\ (m # NoWriter => \A i \in Entities : entities[i].writer # m)
    BY <1>3 DEF IInv, SentRequests, Writers, TypeOK, ClientTypeOK, Requests, Target, Inputs
  <1>5. /\ requests' = requests \ {m}
        /\ reply' \in [Calls -> Replies]
        /\ \A d \in Calls :
             \/ reply'[d] = reply[d]
             \/ /\ d = m.call /\ Awaited(m) /\ reply'[d] = r
                /\ [call |-> d, n |-> attempt[d]] = m
    BY <1>2, <1>3, AnswerEffect
  <1>6. /\ entities' \in Seq(Versions)
        /\ Entities \subseteq Entities'
        /\ \A i \in Entities' :
             entities'[i].writer # m =>
                 i \in Entities /\ entities'[i].writer = entities[i].writer
        /\ (\A i \in Entities : entities[i].writer # m) =>
             \A i, j \in Entities' :
                 entities'[i].writer = m /\ entities'[j].writer = m => i = j
    BY <1>1, <1>3, <1>4, WritesFacts
  <1>7. TypeOK'
    BY <1>3, <1>5, <1>6 DEF TypeOK, ClientTypeOK
  <1>8. Started' /\ SentRequests' /\ NotYet'
    BY <1>3, <1>5, <1>6 DEF IInv, Started, SentRequests, Sent, NotYet
  <1>9. \A x : Sent(x)' = Sent(x)
    BY <1>3 DEF Sent
  <1>10. Writers'
    <2> SUFFICES ASSUME NEW i \in Entities', entities'[i].writer # NoWriter
                 PROVE  Sent(entities'[i].writer) /\ entities'[i].writer \notin requests'
      BY <1>9 DEF Writers
    <2> QED
      BY <1>4, <1>5, <1>6 DEF IInv, Writers
  <1>11. OneEntityPerWriter'
    BY <1>4, <1>6 DEF IInv, OneEntityPerWriter
  <1>12. RepliesAwaited'
    BY <1>3, <1>5 DEF RepliesAwaited, Awaited
  <1>13. ASSUME NEW c \in Calls, pc[c] # "idle"
         PROVE  /\ \A status : TrueStatus(c, status) => TrueStatus(c, status)'
                /\ \A id : TrueId(c, id) => TrueId(c, id)'
    BY <1>1, <1>3, <1>13, TruthStays
  <1>14. RepliesTrue'
    <2> SUFFICES ASSUME NEW c \in Calls, NEW q, q = reply'[c], q # NoReply
                 PROVE  TrueReply(c, q)'
      BY DEF RepliesTrue
    <2>1. CASE q = reply[c]
      <3>1. TrueReply(c, q) /\ pc[c] # "idle"
        BY <2>1 DEF IInv, RepliesTrue, RepliesAwaited
      <3> QED
        BY <1>13, <3>1 DEF TrueReply
    <2>2. CASE q # reply[c]
      <3>1. c = m.call /\ q = r
        BY <1>5, <2>2
      <3> QED
        BY <1>2, <3>1
    <2> QED
      BY <2>1, <2>2
  <1>15. ResultsTrue'
    <2> SUFFICES ASSUME NEW c \in Calls
                 PROVE  TrueResult(c, result[c])'
      BY DEF ResultsTrue
    <2>1. TrueResult(c, result[c])
      BY DEF IInv, ResultsTrue
    <2>2. CASE pc[c] = "idle"
      <3>1. result'[c].kind = "none" /\ result'[c].id = 0
        BY <1>3, <2>2 DEF IInv, NotYet, Plain
      <3> QED
        BY <3>1 DEF TrueResult, TrueId, IsVersion
    <2>3. CASE pc[c] # "idle"
      BY <1>3, <1>13, <2>1, <2>3 DEF TrueResult
    <2> QED
      BY <2>2, <2>3
  <1>16. VersionsDiffer'
    <2>1. \A d, x : IsVersion(d, x)' = IsVersion(d, x)
      BY <1>3 DEF IsVersion
    <2>2. ASSUME NEW d \in Calls, NEW x, ToldOf(d, x)
          PROVE  x \in Entities
      BY <2>2 DEF ToldOf, IInv, RepliesTrue, ResultsTrue, TrueReply, TrueResult, TrueId,
                  NoReply
    <2>3. \A d \in Calls : \A x :
            ToldOf(d, x)' => ToldOf(d, x) \/ (d = m.call /\ x = r.id)
      BY <1>3, <1>5 DEF ToldOf
    <2> SUFFICES ASSUME NEW c \in Calls, NEW d \in Calls, NEW id \in Entities',
                        ToldOf(c, id)', IsVersion(c, id), ToldOf(d, id)', IsVersion(d, id)
                 PROVE  c = d
      BY <2>1 DEF VersionsDiffer
    <2>4. CASE id \in Entities
      <3>1. \A e \in {c, d} : ToldOf(e, id)
        BY <1>2, <2>3, <2>4
      <3> QED
        BY <2>4, <3>1 DEF IInv, VersionsDiffer
    <2>5. CASE id \notin Entities
      BY <2>2, <2>3, <2>5
    <2> QED
      BY <2>4, <2>5
  <1> QED
    BY <1>7, <1>8, <1>10, <1>11, <1>12, <1>14, <1>15, <1>16 DEF IInv

LEMMA HoldIInv ==
    ASSUME IInv, NEW i \in Entities, Hold(i)
    PROVE  IInv'
  <1> DEFINE e == [entities[i] EXCEPT !.held = TRUE]
  <1>1. TypeOK /\ UNCHANGED <<clientVars, versioned, input>>
    BY DEF IInv, Hold
  <1>2. /\ e \in Versions
        /\ e.of = entities[i].of /\ e.writer = entities[i].writer
        /\ Later(entities[i], e)
    BY <1>1, EntityFacts DEF Versions, Later
  <1>3. entities' = [entities EXCEPT ![i] = e]
    BY DEF Hold
  <1> HIDE DEF e
  <1>4. /\ entities' \in Seq(Versions) /\ Entities' = Entities
        /\ \A j \in Entities :
             /\ entities'[j].writer = entities[j].writer
             /\ entities'[j].of = entities[j].of
             /\ Later(entities[j], entities'[j])
    <2>1. /\ entities' \in Seq(Versions) /\ Entities' = Entities
          /\ \A j \in Entities : entities'[j] = IF j = i THEN e ELSE entities[j]
      BY <1>1, <1>2, <1>3 DEF TypeOK, Entities
    <2>2. \A j \in Entities : Later(entities[j], entities[j])
      BY DEF Later
    <2> QED
      BY <1>2, <2>1, <2>2
  <1>5. TypeOK'
    BY <1>1, <1>4 DEF TypeOK, ClientTypeOK, clientVars
  <1>6. /\ Started' /\ SentRequests' /\ Writers' /\ OneEntityPerWriter'
        /\ RepliesAwaited' /\ NotYet'
    BY <1>1, <1>4 DEF IInv, clientVars, Started, SentRequests, Sent, Writers,
                      OneEntityPerWriter, RepliesAwaited, NotYet
  <1>7. ASSUME NEW c \in Calls, pc[c] # "idle"
        PROVE  /\ \A status : TrueStatus(c, status) => TrueStatus(c, status)'
               /\ \A id : TrueId(c, id) => TrueId(c, id)'
    <2>1. input[c].target \in Entities
      BY <1>7 DEF IInv, Started
    <2> QED
      BY <1>1, <1>4, <2>1, LaterTruth
  <1>8. RepliesTrue'
    <2> SUFFICES ASSUME NEW c \in Calls, NEW q, q = reply'[c], q # NoReply
                 PROVE  TrueReply(c, q)'
      BY DEF RepliesTrue
    <2>1. TrueReply(c, q) /\ pc[c] # "idle"
      BY <1>1 DEF IInv, RepliesTrue, RepliesAwaited, clientVars
    <2> QED
      BY <1>7, <2>1 DEF TrueReply
  <1>9. ResultsTrue'
    <2> SUFFICES ASSUME NEW c \in Calls, NEW o, o = result'[c]
                 PROVE  TrueResult(c, o)'
      BY DEF ResultsTrue
    <2>1. o = result[c] /\ TrueResult(c, o)
      BY <1>1 DEF IInv, ResultsTrue, clientVars
    <2>2. CASE pc[c] = "idle"
      <3>1. o.kind = "none" /\ o.id = 0
        BY <2>1, <2>2 DEF IInv, NotYet, Plain
      <3> QED
        BY <3>1 DEF TrueResult, TrueId, IsVersion
    <2>3. CASE pc[c] # "idle"
      <3>1. /\ o.kind \in {"ok", "api"} => TrueStatus(c, o.status)'
            /\ TrueId(c, o.id)'
        BY <1>7, <2>1, <2>3 DEF TrueResult
      <3>2. input'[c].op = input[c].op
        BY <1>1
      <3> QED
        BY <2>1, <3>1, <3>2 DEF TrueResult
    <2> QED
      BY <2>2, <2>3
  <1>10. VersionsDiffer'
    BY <1>1, <1>4 DEF IInv, clientVars, VersionsDiffer, ToldOf, IsVersion
  <1> QED
    BY <1>5, <1>6, <1>8, <1>9, <1>10 DEF IInv

-----------------------------------------------------------------------------
(* The theorems.                                                           *)

LEMMA NextIInv == IInv /\ [Next]_vars => IInv'
  <1> SUFFICES ASSUME IInv, [Next]_vars PROVE IInv'
    OBVIOUS
  <1>1. CASE UNCHANGED vars
    BY <1>1 DEF vars, clientVars, IInv, TypeOK, ClientTypeOK, Started, SentRequests,
         Sent, Writers, OneEntityPerWriter, RepliesAwaited, RepliesTrue, NotYet,
         ResultsTrue, VersionsDiffer, ToldOf, TrueReply, TrueResult, TrueStatus, TrueId,
         IsVersion, StatusNow, HeldNow, Entities
  <1>2. ASSUME NEW c \in Calls, NEW op \in Ops, NEW id \in KnownIds, Start(c, op, id)
        PROVE  IInv'
    BY <1>2, StartIInv
  <1>3. ASSUME NEW c \in Calls, ClientStep(c) PROVE IInv'
    BY <1>3, ClientIInv
  <1>4. ASSUME NEW c \in Calls, CancelCtx(c) PROVE IInv'
    BY <1>4, CancelIInv
  <1>5. ASSUME NEW m \in requests, ServerStep(m) PROVE IInv'
    BY <1>5, ServerIInv
  <1>6. ASSUME NEW i \in Entities, Hold(i) PROVE IInv'
    BY <1>6, HoldIInv
  <1> QED
    BY <1>1, <1>2, <1>3, <1>4, <1>5, <1>6 DEF Next, Entities

\* The invariant of the calls, the exchanges in flight and the entities.
THEOREM Invariance == Spec => []IInv
  <1>1. Init => IInv
    BY InitIInv
  <1>2. IInv /\ [Next]_vars => IInv'
    BY NextIInv
  <1> QED
    BY <1>1, <1>2, PTL DEF Spec

\* Every variable keeps its type.
THEOREM TypeCorrect == Spec => []TypeOK
  <1>1. IInv => TypeOK
    BY DEF IInv
  <1> QED
    BY <1>1, Invariance, PTL

\* The answer to a transition stays true, whatever attempts are handled later.
THEOREM OutcomeStays == Spec => []OutcomeStaysTrue
  <1>1. IInv => OutcomeStaysTrue
    <2> SUFFICES ASSUME IInv, NEW c \in Calls
                 PROVE  /\ Succeeded(c, "delete") \/ Told(c, 404) =>
                             StatusNow(c) = "deleted"
                        /\ versioned /\ Succeeded(c, "archive") =>
                             StatusNow(c) = "archived"
                        /\ Succeeded(c, "publish") \/ Succeeded(c, "archive") =>
                             StatusNow(c) \in {"published", "archived"}
                        /\ Told(c, 409) =>
                             \/ StatusNow(c) \in {"published", "archived"}
                             \/ /\ input[c].op = "delete" /\ StatusNow(c) = "draft"
                                /\ HeldNow(c)
      BY DEF OutcomeStaysTrue, HeldNow
    <2>1. TrueResult(c, result[c])
      BY DEF IInv, ResultsTrue
    <2> QED
      BY <2>1 DEF TrueResult, TrueStatus, Succeeded, Told
  <1> QED
    BY <1>1, Invariance, PTL

\* An attempt makes one version, and a version is told to one patch.
THEOREM OwnVersion == Spec => []PatchMakesItsOwnVersion
  <1>1. IInv => PatchMakesItsOwnVersion
    <2> SUFFICES ASSUME IInv
                 PROVE  /\ OneEntityPerWriter
                        /\ \A c \in Calls :
                             PatchedToVersion(c) =>
                               /\ entities[result[c].id].of = input[c].target
                               /\ \A d \in Calls \ {c} :
                                    PatchedToVersion(d) => result[d].id # result[c].id
      BY DEF PatchMakesItsOwnVersion, OneEntityPerWriter, Entities
    <2>1. OneEntityPerWriter
      BY DEF IInv
    <2>2. ASSUME NEW c \in Calls, PatchedToVersion(c)
          PROVE  /\ ToldOf(c, result[c].id) /\ IsVersion(c, result[c].id)
                 /\ result[c].id \in Entities
                 /\ entities[result[c].id].of = input[c].target
      <3>1. TrueResult(c, result[c])
        BY DEF IInv, ResultsTrue
      <3> QED
        BY <2>2, <3>1 DEF TrueResult, TrueId, ToldOf, IsVersion, PatchedToVersion,
                          Succeeded
    <2> QED
      BY <2>1, <2>2 DEF IInv, VersionsDiffer
  <1> QED
    BY <1>1, Invariance, PTL
=============================================================================
