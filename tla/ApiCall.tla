------------------------------- MODULE ApiCall -------------------------------
(***************************************************************************)
(* Any call of the client, from the arguments of a method to the value it  *)
(* returns.  A typed method (TypedMethods) runs an operation of the        *)
(* generated client inside doJSON (DoJSON); a caller that uses the         *)
(* generated client itself, through Raw, runs an operation once and has    *)
(* the answer sorted by its parser (EndpointReplies).  Either way the      *)
(* request is built by Endpoints and edited by applyEditors, for every     *)
(* exchange anew.  The service routes and answers as ApiSpec says.         *)
(*                                                                         *)
(* The arguments are read when a request is built, not when the method is  *)
(* entered.  Only one of them can change meanwhile: the params struct of   *)
(* ListCatalogProducts, which the method writes the merchant into and      *)
(* which the callers may share.                                            *)
(***************************************************************************)
EXTENDS DoJSON, Sequences, Endpoints, EndpointReplies, TypedMethods, ApiSpec

CONSTANTS
    Ids,            \* identifiers the callers give, any text
    Segments,       \* the segments each would make if it were not escaped
    Merchants,
    NoMerchant,
    Torn,           \* a merchant read while another goroutine writes it
    BaseURLs,       \* what WithBaseURL was given: path and trailing slash
    Refusals        \* statuses of answers that carry no resource

ASSUME IdsAssumption ==
    Ids \subseteq STRING /\ Segments \in [Ids -> Seq(STRING)]
ASSUME LiteralsAssumption ==
    {"none", "X-API-Key", "Accept", "Content-Type", "Idempotency-Key",
     "Authorization", "merchant_id"} \subseteq STRING
ASSUME MerchantsAssumption == NoMerchant \notin Merchants
ASSUME RefusalsAssumption == Refusals \subseteq 400 .. 599

-----------------------------------------------------------------------------
(* Paths, as sequences of segments.                                        *)

Dot == "."
DotDot == ".."
Dots == {Dot, DotDot}
ASSUME SegmentsAssumption == Dots \cup {Empty} \subseteq STRING \ {"none"}

\* The path of a base URL is given without dots.
ASSUME BaseURLsAssumption ==
    /\ BaseURLs \subseteq [path : Seq(STRING), slash : BOOLEAN]
    /\ \A given \in BaseURLs :
         \A i \in DOMAIN given.path : given.path[i] \notin Dots

\* Mutant: the argument is put into the path as it is.
FillRaw(path, id) ==
    LET at == CHOOSE i \in 0 .. Len(path) :
                IF \E j \in DOMAIN path : path[j] = Id THEN i > 0 /\ path[i] = Id
                                                       ELSE i = 0
    IN  IF at = 0 THEN path
        ELSE SubSeq(path, 1, at - 1) \o Segments[id]
               \o SubSeq(path, at + 1, Len(path))

\* StyleParamWithLocation escapes the argument: slashes and all it is one
\* segment.  Dots are not escaped.
Fill(path, id) == [i \in DOMAIN path |-> IF path[i] = Id THEN id ELSE path[i]]

\* What serverURL.Parse makes of the one segment that an argument can have
\* made "." or "..": it goes, with the one before it if it is "..", and at the
\* end of the path it leaves an empty one.
RemoveDots(path) ==
    LET at == { i \in DOMAIN path : path[i] \in Dots }
        i == CHOOSE j \in at : TRUE
        kept == IF path[i] = Dot THEN i - 1 ELSE i - 2
    IN  IF at = {} THEN path
        ELSE SubSeq(path, 1, kept) \o
               (IF i = Len(path) THEN <<Empty>> ELSE SubSeq(path, i + 1, Len(path)))

-----------------------------------------------------------------------------
(* The tables, row by row; what is assumed of them holds no constant.      *)

\* The path an operation has in the description, as the builder writes it.
PathOf(op) ==
    LET path == RequestTable[op].path
    IN  [i \in DOMAIN path |-> IF path[i] = Id THEN Param ELSE path[i]]

\* Two operations of one method and length differ in a fixed segment.
ToldApart(o, p) ==
    LET s == Operations[o].path
        t == Operations[p].path
    IN  \E i \in DOMAIN s : s[i] # t[i] /\ Param \notin {s[i], t[i]}

\* The builders follow the description, and every method has its builder.
ASSUME BuildersAssumption ==
    /\ DOMAIN RequestTable \subseteq DOMAIN Operations \ {"none"}
    /\ \A op \in DOMAIN RequestTable :
         LET row == RequestTable[op] IN
         /\ row.method \in STRING /\ row.method = Operations[op].method
         /\ row.path \in Seq(STRING) /\ PathOf(op) = Operations[op].path
         /\ \A i \in DOMAIN row.path : row.path[i] \notin Dots \cup {Param}
         /\ \A i \in DOMAIN row.path : row.path[i] = Id => i > 2
         /\ \A i, j \in DOMAIN row.path : row.path[i] = Id /\ row.path[j] = Id => i = j
         /\ row.query \subseteq STRING /\ row.query = Operations[op].query
         /\ row.json \in BOOLEAN /\ row.json = Operations[op].json
         /\ row.header \in {"none", "Idempotency-Key", "Authorization"}
    /\ \A name \in DOMAIN MethodTable :
         MethodTable[name].op \in DOMAIN RequestTable

ASSUME ListAssumption ==
    /\ "ListCatalogProducts" \in DOMAIN MethodTable
    /\ MethodTable["ListCatalogProducts"].op = "ListCatalogProducts"
    /\ Id \notin { RequestTable["ListCatalogProducts"].path[i] :
                     i \in DOMAIN RequestTable["ListCatalogProducts"].path }

ASSUME RoutesAssumption ==
    \A o, p \in DOMAIN Operations :
        /\ o # p
        /\ Operations[o].method = Operations[p].method
        /\ Len(Operations[o].path) = Len(Operations[p].path)
        => ToldApart(o, p)

\* The identifiers that are no segment of their own, and where they lead
\* instead, if anywhere: a wallet or a session named as what was asked of it.
Odd == Dots \cup {Empty}
Detours == { <<"ListTransactions", Dot, "GetWallet">>,
             <<"GetReceiptBySessionID", Dot, "GetPaymentSession">> }

TakesId(op) ==
    \E i \in DOMAIN RequestTable[op].path : RequestTable[op].path[i] = Id

\* A detour is from one read to another, and no method decodes what is there.
ASSUME DetoursAssumption ==
    /\ \A op \in DOMAIN RequestTable, id \in Odd :
         TakesId(op) =>
           \A o \in Routed(RequestTable[op].method,
                           RemoveDots(Fill(RequestTable[op].path, id))) :
             <<op, id, o>> \in Detours
    /\ \A d \in Detours :
         /\ d[3] \in DOMAIN RequestTable
         /\ Operations[d[3]].method = "GET"
         /\ \A name \in DOMAIN MethodTable :
              MethodTable[name].op = d[1] =>
                \A s \in DOMAIN Operations[d[3]].replies :
                  (Operations[d[3]].replies[s] \in Arrays)
                    # (MethodTable[name].out \in Arrays)

\* Where the service sends a resource the parser has a field of its type, and
\* the method decodes into that type.
ASSUME AnswersAssumption ==
    /\ \A op \in DOMAIN RequestTable :
         LET replies == Operations[op].replies IN
         /\ \A s \in DOMAIN replies :
              /\ s \in Nat /\ replies[s] \in STRING
              /\ replies[s] # NoContent =>
                   s \in DOMAIN ParserTable[op] /\ ParserTable[op][s] = replies[s]
         /\ \A s \in DOMAIN ParserTable[op] :
              s \in 400 .. 599 => ParserTable[op][s] = "Error"
    /\ \A name \in DOMAIN MethodTable :
         LET method == MethodTable[name] IN
         \A s \in DOMAIN Operations[method.op].replies :
           \/ method.out = Operations[method.op].replies[s]
           \/ /\ Operations[method.op].replies[s] = "PaymentSessionOrIntent"
              /\ method.out = "PaymentSession"
              /\ name \in {"CreatePaymentSession", "GetPaymentSession"}

-----------------------------------------------------------------------------

VARIABLES
    made,       \* how each call was made
    baseURL,    \* what the client was given
    shared,     \* the merchant in the params struct that callers may share
    raced,      \* the calls during which another one wrote that struct
    wire,       \* the request the present exchange of a call sent
    served      \* what the service answered it with

apiCallVars == <<clientVars, made, baseURL, shared, raced, wire, served>>

Names == DOMAIN MethodTable \cup DOMAIN RequestTable
NoCall == [by |-> "none", name |-> "none", id |-> "none", header |-> FALSE,
           filtered |-> FALSE, merchant |-> NoMerchant, shares |-> FALSE]
NoWire == [method |-> "none", path |-> << >>, query |-> {}, headers |-> {},
           merchant |-> NoMerchant]
NotServed == [op |-> "none", schema |-> "none", intent |-> FALSE,
              merchant |-> NoMerchant]
SomeMerchant == Merchants \cup {NoMerchant, Torn}

Asked == [by : {"none", "typed", "raw"}, name : Names \cup {"none"},
          id : Ids \cup {"none"}, header : BOOLEAN, filtered : BOOLEAN,
          merchant : Merchants \cup {NoMerchant}, shares : BOOLEAN]
Wires == [method : STRING, path : Seq(STRING), query : SUBSET STRING,
          headers : SUBSET STRING, merchant : SomeMerchant]
Answers == [op : DOMAIN Operations \cup {"none"}, schema : STRING,
            intent : BOOLEAN, merchant : SomeMerchant]

ApiCallTypeOK ==
    /\ ClientTypeOK
    /\ made \in [Calls -> Asked]
    /\ baseURL \in BaseURLs
    /\ shared \in Merchants \cup {NoMerchant}
    /\ raced \subseteq Calls
    /\ wire \in [Calls -> Wires]
    /\ served \in [Calls -> Answers]

ApiCallInit ==
    /\ ClientInit
    /\ made = [c \in Calls |-> NoCall]
    /\ baseURL \in BaseURLs
    /\ shared = NoMerchant
    /\ raced = {}
    /\ wire = [c \in Calls |-> NoWire]
    /\ served = [c \in Calls |-> NotServed]

Typed(c) == made[c].by = "typed"
OpOf(c) == IF Typed(c) THEN MethodTable[made[c].name].op ELSE made[c].name

\* Mutant: GetCheckoutIntent decodes as GetPaymentSession does.
OutOfNarrow(c) ==
    IF made[c].name = "GetCheckoutIntent" THEN "PaymentSession"
    ELSE MethodTable[made[c].name].out

OutOf(c) == MethodTable[made[c].name].out

-----------------------------------------------------------------------------
(* What an exchange of a call sends.                                       *)

\* WithBaseURL strips trailing slashes, the generated NewClient adds one.
Server(given) == [given EXCEPT !.slash = TRUE]

\* serverURL.Parse of a relative path: what follows the last slash goes, and
\* so do dots.  An argument comes after two fixed segments, so that its dots
\* leave the server's path alone.
Resolve(server, path) ==
    IF server.slash \/ server.path = << >>
      THEN server.path \o RemoveDots(path)
      ELSE SubSeq(server.path, 1, Len(server.path) - 1) \o RemoveDots(path)

\* merchant_id is there whatever the caller filters by.
Query(c) ==
    IF made[c].filtered THEN RequestTable[OpOf(c)].query
    ELSE IF made[c].merchant # NoMerchant THEN {"merchant_id"}
    ELSE {}

\* Mutant: the editors of the call are applied in the first attempt only.
ApplyEditorsOnce(c) ==
    {"X-API-Key", "Accept"} \cup
    (IF Typed(c) /\ made[c].header /\ attempt[c] = 0
       THEN {"Idempotency-Key"} ELSE {})

\* The editor of NewClient, then those of the call (toEditors).
ApplyEditors(c) ==
    {"X-API-Key", "Accept"} \cup
    (IF Typed(c) /\ made[c].header THEN {"Idempotency-Key"} ELSE {})

\* The headers a builder sets: the type of its body, and that of params.
BuiltHeaders(c) ==
    LET row == RequestTable[OpOf(c)]
    IN  (IF row.json THEN {"Content-Type"} ELSE {}) \cup
        (IF ~Typed(c) /\ made[c].header THEN {row.header} ELSE {})

\* A read of the shared struct races with the write of another call.
MerchantRead(c) ==
    IF ~made[c].shares THEN {made[c].merchant}
    ELSE IF c \in raced THEN {shared, Torn}
    ELSE {shared}

\* One request of the generated client: NewXRequest, then applyEditors.
Built(c) ==
    { [method |-> RequestTable[OpOf(c)].method,
       path |-> Resolve(Server(baseURL),
                        Fill(RequestTable[OpOf(c)].path, made[c].id)),
       query |-> Query(c),
       headers |-> BuiltHeaders(c) \cup ApplyEditors(c),
       merchant |-> m] : m \in MerchantRead(c) }

-----------------------------------------------------------------------------
(* The service (external), mounted below the path of the base URL.         *)

Mounted(w) ==
    LET n == Len(baseURL.path)
    IN  IF SubSeq(w.path, 1, n) = baseURL.path
          THEN SubSeq(w.path, n + 1, Len(w.path))
          ELSE << >>

OperationsOf(w) == Routed(w.method, Mounted(w))

Fulfil(m) ==
    LET w == wire[m.call] IN
    \E o \in OperationsOf(w), intent \in BOOLEAN :
    \E s \in DOMAIN Operations[o].replies :
        LET schema == Operations[o].replies[s] IN
        /\ intent => schema = "PaymentSessionOrIntent"
        /\ served' = [served EXCEPT ![m.call] =
                        [op |-> o, schema |-> schema, intent |-> intent,
                         merchant |-> w.merchant]]
        /\ Answer(m, [status |-> s, code |-> 0,
                      id |-> IF schema = NoContent THEN 0 ELSE 1])

\* An error of the service is JSON and has a code, one of a gateway is not.
Deny(m) ==
    /\ \E s \in IF OperationsOf(wire[m.call]) = {} THEN {404} ELSE Refusals :
         Answer(m, [status |-> s, code |-> IF s < 500 THEN 1 ELSE 0, id |-> 0])
    /\ UNCHANGED served

\* What becomes of a request the call gave up on changes nothing here.
Serve(m) ==
    /\ Awaited(m)
    /\ Fulfil(m) \/ Deny(m)
    /\ UNCHANGED <<pc, attempt, ctx, lastErr, result,
                   made, baseURL, shared, raced, wire>>

-----------------------------------------------------------------------------
(* The calls.                                                              *)

\* What the arguments of an operation can be.
IdsFor(op) == IF TakesId(op) THEN Ids ELSE {"none"}
Filters(op) == IF RequestTable[op].query = {} THEN {FALSE} ELSE BOOLEAN

\* Calls that share nothing are told apart by nothing: one at a time will do.
Lists(c) == Typed(c) /\ made[c].name = "ListCatalogProducts"
Alone == \A d \in Calls : pc[d] = "idle"
AmongLists == \A d \in Calls : pc[d] = "idle" \/ Lists(d)

\* A call that passes no params struct of its caller's.
Plainly(by, name, id, header, filtered) ==
    [by |-> by, name |-> name, id |-> id, header |-> header,
     filtered |-> filtered, merchant |-> NoMerchant, shares |-> FALSE]

\* A list that writes its merchant into a struct, the shared one or its own.
Listing(merchant, filtered, shares) ==
    [by |-> "typed", name |-> "ListCatalogProducts", id |-> "none",
     header |-> FALSE, filtered |-> filtered, merchant |-> merchant,
     shares |-> shares]

Begin(c, how) ==
    /\ Enter(c)
    /\ made' = [made EXCEPT ![c] = how]
    /\ UNCHANGED <<baseURL, wire, served>>

StartTyped(c, name) ==
    LET method == MethodTable[name] IN
    /\ name # "ListCatalogProducts"
    /\ Alone
    /\ \E id \in IdsFor(method.op), f \in Filters(method.op),
          h \in IF method.keyed THEN BOOLEAN ELSE {FALSE} :
         Begin(c, Plainly("typed", name, id, h, f))
    /\ UNCHANGED <<shared, raced>>

\* Mutant: callers that give no params are given the same struct.
StartListSharing(c) ==
    /\ AmongLists
    /\ \E merchant \in Merchants, given \in BOOLEAN :
         /\ Begin(c, Listing(merchant, given, TRUE))
         /\ shared' = merchant
         /\ UNCHANGED raced

\* params.MerchantId = merchantID, into the struct the callers share, filters
\* and all, or into a new one for a caller that gives none.
StartList(c) ==
    /\ AmongLists
    /\ \E merchant \in Merchants, given \in BOOLEAN :
         /\ Begin(c, Listing(merchant, given, given))
         /\ shared' = IF given THEN merchant ELSE shared
         /\ raced' = raced \cup
                       { d \in Calls : /\ given
                                       /\ made[d].shares
                                       /\ pc[d] # "returned" }

\* c.Raw(): the generated client, with the responses sorted.
StartRaw(c, op) ==
    /\ Alone
    /\ \E id \in IdsFor(op), f \in Filters(op),
          h \in IF RequestTable[op].header = "none" THEN {FALSE} ELSE BOOLEAN :
         Begin(c, Plainly("raw", op, id, h, f))
    /\ UNCHANGED <<shared, raced>>

Exchange(c) ==
    /\ Send(c)
    /\ \E w \in Built(c) : wire' = [wire EXCEPT ![c] = w]
    /\ served' = [served EXCEPT ![c] = NotServed]
    /\ UNCHANGED <<made, baseURL, shared, raced>>

\* An object does not decode into a slice, nor an array into a struct.
Unfit(c, into) == (served[c].schema \in Arrays) # (into \in Arrays)

ReceiveInto(c, out) ==
    /\ Receive(c, out # "none")
    /\ result'[c].kind = "ok" => ~Unfit(c, out)

TypedStep(c) ==
    /\ Typed(c)
    /\ \/ SendCancelled(c)
       \/ Abort(c)
       \/ ReceiveInto(c, OutOf(c))
       \/ BackoffElapsed(c)
       \/ BackoffCancelled(c)
    /\ UNCHANGED <<made, baseURL, shared, raced, wire, served>>

\* The exchange fails, or its body cannot be read or decoded.
RawFails(c) ==
    /\ \/ pc[c] = "ready" /\ ctx[c] = "done"
       \/ pc[c] = "wait"
    /\ Return(c, Plain("transport"))
    /\ Hangup(c)
    /\ UNCHANGED <<ctx, requests>>

RawParsed(c) ==
    /\ pc[c] = "wait"
    /\ reply[c] # NoReply
    /\ ~Unfit(c, Slot(OpOf(c), reply[c].status,
                      reply[c].id # 0 \/ reply[c].code # 0))
    /\ Return(c, [kind |-> "ok", status |-> reply[c].status,
                  code |-> reply[c].code, id |-> reply[c].id])
    /\ Hangup(c)
    /\ UNCHANGED <<ctx, requests>>

RawStep(c) ==
    /\ made[c].by = "raw"
    /\ RawFails(c) \/ RawParsed(c)
    /\ UNCHANGED <<made, baseURL, shared, raced, wire, served>>

ApiCallStep(c) == Exchange(c) \/ TypedStep(c) \/ RawStep(c)

CancelApiCall(c) ==
    /\ Cancel(c)
    /\ UNCHANGED <<made, baseURL, shared, raced, wire, served>>

ApiCallNext ==
    \/ \E c \in Calls :
         \/ \E name \in DOMAIN MethodTable : StartTyped(c, name)
         \/ StartList(c)
         \/ \E op \in DOMAIN RequestTable : StartRaw(c, op)
         \/ ApiCallStep(c)
         \/ CancelApiCall(c)
    \/ \E m \in requests : Serve(m)

ApiCallSpec == ApiCallInit /\ [][ApiCallNext]_apiCallVars

\* The goroutine of the call runs, its timers fire, and every exchange ends,
\* if only by http.Client{Timeout: 30s}.  Nothing is asked of the service.
ApiCallLiveSpec == ApiCallSpec /\ \A c \in Calls : WF_apiCallVars(ApiCallStep(c))

-----------------------------------------------------------------------------
(* Properties.                                                             *)

\* Every exchange of a call asks the service for the operation the method
\* stands for, below the base URL whether or not that was given with a slash,
\* with the identifier whole, slashes and all, and with all the filters the
\* caller set.  The identifiers "", "." and ".." are not sent whole: such a
\* call asks for nothing the service knows, or takes one of the two detours,
\* from a read to another read, and changes nothing.
AsksForWhatWasMeant ==
    \A c \in Calls :
        LET w == wire[c] IN
        w # NoWire =>
            /\ made[c].id \in Odd =>
                 \A o \in OperationsOf(w) : <<OpOf(c), made[c].id, o>> \in Detours
            /\ made[c].id \notin Odd =>
                 /\ OperationsOf(w) = {OpOf(c)}
                 /\ made[c].id # "none" =>
                      Arguments(OpOf(c), Mounted(w)) = {made[c].id}
            /\ made[c].filtered => w.query = Operations[OpOf(c)].query
            /\ "Content-Type" \in w.headers <=> Operations[OpOf(c)].json

\* The header a caller asked for, the idempotency key above all, is in every
\* attempt of its call, by the editors of the hand-written client or by the
\* params of the generated one; it is in no other request.
HeadersOnEveryAttempt ==
    \A c \in Calls :
        wire[c] # NoWire =>
            /\ {"X-API-Key", "Accept"} \subseteq wire[c].headers
            /\ wire[c].headers \cap {"Idempotency-Key", "Authorization"} # {}
                 <=> made[c].header

\* What an answer of the service was decoded into is of the type it was sent
\* with, and no body is thrown away; only CreatePaymentSession and
\* GetPaymentSession lose something, the candidate methods of an intent that
\* awaits a selection.
DecodedAsSent ==
    \A c \in Calls :
        Typed(c) /\ result[c].kind = "ok" =>
            \/ OutOf(c) = served[c].schema
            \/ /\ served[c].schema = "PaymentSessionOrIntent"
               /\ OutOf(c) = "PaymentSession"
               /\ served[c].intent => made[c].name \in {"CreatePaymentSession",
                                                        "GetPaymentSession"}

\* The parsers of the generated client find a resource in an answer exactly
\* when the service sent one, as doJSON does, and an Error when it sent that:
\* a caller of Raw that looks at JSON201 or JSONDefault is not misled.  An
\* answer of another operation, after a detour, has no parser that fits it.
ParsersAgree ==
    \A c \in Calls :
        result[c].kind = "ok" /\ served[c].op \in {OpOf(c), "none"} =>
            LET found == Slot(OpOf(c), result[c].status,
                              result[c].id # 0 \/ result[c].code # 0)
            IN  IF result[c].id # 0 THEN found = served[c].schema
                ELSE IF result[c].code # 0 THEN found = "Error"
                ELSE found = "none"

\* A page of ListCatalogProducts is of the merchant that was asked for, in
\* whatever attempt it was got, unless another call wrote the struct that the
\* callers share while this one ran; callers that give no params share none.
ListsAskedMerchant ==
    \A c \in Calls :
        Lists(c) /\ result[c].kind = "ok" /\ c \notin raced =>
            served[c].merchant = made[c].merchant

\* A call that was made returns, whatever the network and the service do and
\* whatever becomes of its context.
EveryCallReturns == \A c \in Calls : pc[c] # "idle" ~> Returned(c)
=============================================================================
