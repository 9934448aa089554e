------------------------------ MODULE Responses ------------------------------
(***************************************************************************)
(* What client.ts makes of an HTTP answer: whether it confirms that        *)
(* nothing was done, whether it may be tried again, and whether it leaves  *)
(* the outcome unknown.  Appends, statements and catalog changes each have *)
(* a rule of their own.                                                    *)
(***************************************************************************)
EXTENDS Naturals

(***************************************************************************)
(* An answer, as far as the client tells answers apart.  "result" is what  *)
(* was asked for, "malformed" another 200 answer.  The others are errors:  *)
(*   coded       {error: {code, ...}}, a code that belongs to the status   *)
(*   foreign     the same with a code or a flag this service does not use  *)
(*   rejected    {code, message, details: {status: "rejected"}}            *)
(*   unknown     {code, message, details: {status: "unknown"}}             *)
(*   message     {message}, without a code                                 *)
(*   text        anything that is no error payload                         *)
(*   unreadable  the connection broke while the body was read              *)
(*   stalled     reading the body timed out in the HTTP library; also of   *)
(*               a 200 answer                                              *)
(***************************************************************************)
ErrorStatuses == {400, 408, 429, 503}
CodedBodies == {"coded", "foreign", "rejected", "unknown"}
ReadableBodies == CodedBodies \cup {"message"}
ErrorBodies == ReadableBodies \cup {"text", "unreadable", "stalled"}
Flags == {"yes", "no", "absent"}

Successes == [status: {200}, body: {"result"}, retryable: {"absent"}]
Malformed == [status: {200}, body: {"malformed", "stalled"}, retryable: {"absent"}]
ErrorResponses == [status: ErrorStatuses, body: ErrorBodies, retryable: Flags]
Response == Successes \cup Malformed \cup ErrorResponses

HasCode(r) == r.body \in CodedBodies

(* The server's own word about a retry; only a payload can carry it. *)
ServerRetryable(r) == IF r.body \in ReadableBodies THEN r.retryable ELSE "absent"

RetryableByStatus(r) == r.status \in {408, 429} \/ r.status >= 500

------------------------------------------------------------------------------
(* Appends: no answer but this one proves that no row was written. *)
ConfirmsRejection(r) ==
    /\ r.status >= 400
    /\ r.status < 500
    /\ r.body \in {"coded", "rejected"}

AppendOutcome(r) == IF ConfirmsRejection(r) THEN "failed" ELSE "ambiguous"

TemporaryRejection(r) ==
    /\ ConfirmsRejection(r)
    /\ r.status = 429
    /\ ServerRetryable(r) # "no"

(* Statements and everything that is read: the server decides, else the status. *)
TemporaryError(r) ==
    \/ ServerRetryable(r) = "yes"
    \/ ServerRetryable(r) = "absent" /\ RetryableByStatus(r)

(* Neither the service nor its absence speaks: it may have been submitted. *)
SubmissionUnknown(r) == ~HasCode(r) /\ RetryableByStatus(r)
==============================================================================
