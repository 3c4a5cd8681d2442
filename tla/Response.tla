------------------------------- MODULE Response -------------------------------
(***************************************************************************)
(* decodeResponse of client.go: what becomes of an HTTP response.          *)
(* `intact' is FALSE when the body cannot be read to its end or is not     *)
(* JSON: that is ignored for an error status, and a 2xx body nobody wants  *)
(* is drained whatever it holds.  JSON that is no resource (id = 0) is     *)
(* decoded like any other: it leaves the zero value, and no error.         *)
(***************************************************************************)
EXTENDS Naturals

Replies == [status : Nat, code : Nat, id : Nat]

\* What a call ends with: "transport" when there was no response, "cancelled"
\* when the wait for another attempt was cut short.
Kinds == {"none", "ok", "api", "decode", "transport", "cancelled"}
Outcomes == [kind : Kinds, status : Nat, code : Nat, id : Nat]

NoReply == [status |-> 0, code |-> 0, id |-> 0]
Plain(kind) == [kind |-> kind, status |-> 0, code |-> 0, id |-> 0]

\* Mutant: the bound between success and error is off by one.
DecodeResponseAbove(r, wantsBody, intact) ==
    IF r.status > 400
      THEN [kind |-> "api", status |-> r.status, code |-> 0, id |-> 0]
    ELSE IF ~wantsBody \/ r.status = 204
      THEN [kind |-> "ok", status |-> r.status, code |-> 0, id |-> 0]
    ELSE IF intact
      THEN [kind |-> "ok", status |-> r.status, code |-> 0, id |-> r.id]
    ELSE [kind |-> "decode", status |-> r.status, code |-> 0, id |-> 0]

DecodeResponse(r, wantsBody, intact) ==
    IF r.status >= 400
      THEN [kind |-> "api", status |-> r.status,
            code |-> IF intact THEN r.code ELSE 0, id |-> 0]
    ELSE IF ~wantsBody \/ r.status = 204
      THEN [kind |-> "ok", status |-> r.status, code |-> 0, id |-> 0]
    ELSE IF intact
      THEN [kind |-> "ok", status |-> r.status, code |-> 0, id |-> r.id]
    ELSE [kind |-> "decode", status |-> r.status, code |-> 0, id |-> 0]
=============================================================================
