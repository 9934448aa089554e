------------------------------- MODULE Catalog -------------------------------
(***************************************************************************)
(* Programs that change one catalog resource at the same time: get(),      *)
(* perhaps a dry run, then apply() or delete() with the version they read. *)
(* Client.catalogRequest() sends each request once.  The service may still *)
(* do what a late or given up request asks for, and others may answer in   *)
(* its place; errors with a code are its own.                              *)
(*                                                                         *)
(* Left out: names, children and destructive changes; the status of failed *)
(* reads and dry runs; calls without an expected version.                  *)
(***************************************************************************)
EXTENDS Responses

CONSTANTS
    Writers,
    NoDefinition,   \* the resource does not exist
    NoReply,
    NoVersion,      \* no If-Match header
    MaxCalls,       \* bounds of the model: calls that a writer makes, and the
    MaxVersion      \* version up to which other resources change

(* A definition is the set of writers whose change it contains. *)
Definitions == (SUBSET Writers) \cup {NoDefinition}
Snapshot == [definition : Definitions, version : Nat]

Request == [writer : Writers, call : Nat, method : {"GET", "PUT", "DELETE"},
            dryRun : BOOLEAN, ifMatch : Nat \cup {NoVersion},
            body : Definitions,
            seen : Definitions]    \* history: what the writer started from

(* An answer and, if the service gives it, what it says of the resource. *)
Reply == [answer : Response, snapshot : Snapshot]

ASSUME CatalogAssumption ==
    /\ \A D \in SUBSET Writers : D # NoDefinition
    /\ NoReply \notin Reply
    /\ NoVersion \notin Nat
    /\ {MaxCalls, MaxVersion} \subseteq Nat

VARIABLES
    resource,     \* at the service, with the version of the tenant's catalog
    wire,         \* requests the service has not looked at
    pc,           \* writer -> what it awaits, or where it stands
    call,         \* writer -> its number
    base,         \* writer -> the snapshot it works on
    unsure,       \* writers that were told "unknown"
    reply,        \* writer -> the answer on its way
    effects,      \* history: calls that changed the resource
    rejected,     \* history: calls told that they did not
    confirmed     \* history: writes that returned a result

service == <<resource, wire>>
program == <<pc, call, base, unsure>>
told == <<rejected, confirmed>>
vars == <<service, program, reply, effects, told>>

TypeOK ==
    /\ resource \in Snapshot
    /\ wire \subseteq Request
    /\ pc \in [Writers -> {"idle", "reading", "ready", "previewing", "writing", "done"}]
    /\ call \in [Writers -> Nat]
    /\ base \in [Writers -> Snapshot]
    /\ unsure \subseteq Writers
    /\ reply \in [Writers -> Reply \cup {NoReply}]
    /\ effects \subseteq Writers \X Nat
    /\ rejected \subseteq Writers \X Nat
    /\ confirmed \subseteq Writers \X Nat

New == [definition |-> {}, version |-> 0]

Init ==
    /\ resource = New
    /\ wire = {}
    /\ pc = [w \in Writers |-> "idle"]
    /\ call = [w \in Writers |-> 0]
    /\ base = [w \in Writers |-> New]
    /\ unsure = {}
    /\ reply = [w \in Writers |-> NoReply]
    /\ effects = {} /\ rejected = {} /\ confirmed = {}

Awaits(w) == pc[w] \in {"reading", "previewing", "writing"}
This(w) == <<w, call[w]>>
IsWrite(q) == q.method # "GET" /\ ~q.dryRun

------------------------------------------------------------------------------
(* catalogRequest() up to its await. *)

(* The expected version is not sent. *)
SlipIfMatch(w, method) == NoVersion

IfMatch(w, method) == IF method = "GET" THEN NoVersion ELSE base[w].version

Send(w, where, method, body) ==
    /\ call[w] < MaxCalls
    /\ pc' = [pc EXCEPT ![w] = where]
    /\ call' = [call EXCEPT ![w] = @ + 1]
    /\ wire' = wire \cup
         {[writer |-> w, call |-> call[w] + 1, method |-> method,
           dryRun |-> where = "previewing", ifMatch |-> IfMatch(w, method),
           body |-> body, seen |-> base[w].definition]}
    /\ UNCHANGED <<resource, base, unsure, reply, effects, told>>

Get(w) ==
    /\ pc[w] = "idle"
    /\ Send(w, "reading", "GET", NoDefinition)

(* apply() with the writer's change, or delete(). *)
Mutate(w) ==
    /\ pc[w] = "ready"
    /\ \E where \in {"previewing", "writing"} :
         \/ Send(w, where, "PUT", base[w].definition \cup {w})
         \/ Send(w, where, "DELETE", NoDefinition)

------------------------------------------------------------------------------
(* The service, and what stands before it. *)

(* An answer reaches only the call that awaits one. *)
Reaches(q) == Awaits(q.writer) /\ call[q.writer] = q.call /\ reply[q.writer] = NoReply

Answer(q, answer, snapshot) ==
    reply' = IF Reaches(q)
             THEN [reply EXCEPT ![q.writer] = [answer |-> answer, snapshot |-> snapshot]]
             ELSE reply

(* One answer stands for all that Rejects() and Valid() do not tell apart. *)
CatalogErrors ==
    [status : {400, 408, 503}, body : {"coded", "text"}, retryable : {"absent"}]

(* The service's word that it did nothing and will not. *)
Refusals == {r \in CatalogErrors : r.status = 400 /\ r.body = "coded"}

Unclear == (CatalogErrors \ Refusals) \cup {r \in Malformed : r.body = "malformed"}

Read(q) ==
    /\ q.method = "GET"
    /\ IF resource.definition = NoDefinition
       THEN \E r \in Refusals : Answer(q, r, New)
       ELSE \E r \in Successes : Answer(q, r, resource)
    /\ wire' = wire \ {q}
    /\ UNCHANGED <<resource, program, effects, told>>

Refuse(q) ==
    /\ q.method # "GET"
    /\ \E r \in Refusals : Answer(q, r, New)
    /\ wire' = wire \ {q}
    /\ UNCHANGED <<resource, program, effects, told>>

(* 412 otherwise. *)
Matches(q) == q.ifMatch \in {NoVersion, resource.version}

Perform(q) ==
    /\ q.method # "GET"
    /\ Matches(q)
    /\ resource.definition # NoDefinition
    /\ resource' = IF q.dryRun THEN resource
                    ELSE [definition |-> q.body, version |-> resource.version + 1]
    /\ effects' = IF q.dryRun THEN effects
                   ELSE effects \cup {<<q.writer, q.call>>}
    /\ \/ \E r \in Successes : Answer(q, r, resource')
       \/ \E r \in Unclear : Answer(q, r, New)
    /\ wire' = wire \ {q}
    /\ UNCHANGED <<program, told>>

(* Somebody answers, and the request is still on its way. *)
AnswerInstead(q) ==
    /\ Reaches(q)
    /\ \E r \in Unclear : Answer(q, r, New)
    /\ UNCHANGED <<service, program, effects, told>>

(* Another resource of the tenant changes. *)
ChangeElsewhere ==
    /\ resource.version < MaxVersion
    /\ resource' = [resource EXCEPT !.version = @ + 1]
    /\ UNCHANGED <<wire, program, reply, effects, told>>

------------------------------------------------------------------------------
(* catalogRequest() from its await on. *)

(* Every answer below 500 counts as the service's refusal. *)
SlipRejects(r) == r.status >= 400 /\ r.status < 500

Rejects(r) ==
    /\ r.status >= 400 /\ r.status < 500 /\ r.status # 408
    /\ HasCode(r)

(* A 200 answer has an ETag and passes validateCatalogResponse(). *)
Valid(r) == r.body = "result"

(* Reads and dry runs that nobody awaits do nothing. *)
Forgotten(w) == {q \in wire : q.writer = w /\ ~IsWrite(q)}

(* The call fails.  A write that was not refused has an unknown outcome, *)
(* and its caller looks for its change before it tries again.            *)
Fail(w, refused) ==
    /\ pc' = [pc EXCEPT ![w] = "idle"]
    /\ reply' = [reply EXCEPT ![w] = NoReply]
    /\ unsure' = IF pc[w] = "writing" /\ ~refused THEN unsure \cup {w} ELSE unsure
    /\ rejected' = IF pc[w] = "writing" /\ refused THEN rejected \cup {This(w)} ELSE rejected
    /\ wire' = wire \ Forgotten(w)
    /\ UNCHANGED <<resource, call, base, effects, confirmed>>

(* The caller's signal aborts, the timer of a mutation fires, or the *)
(* connection breaks.                                                *)
GiveUp(w) ==
    /\ Awaits(w)
    /\ Fail(w, FALSE)

Receives(w, where) ==
    /\ pc[w] = where
    /\ reply[w] # NoReply
    /\ reply' = [reply EXCEPT ![w] = NoReply]

ReceiveError(w) ==
    /\ Awaits(w)
    /\ reply[w] # NoReply
    /\ ~Valid(reply[w].answer)
    /\ Fail(w, Rejects(reply[w].answer))

(* The resource is gone: there is nothing to change any more. *)
NotFound(w) ==
    /\ Receives(w, "reading")
    /\ reply[w].answer \in Refusals
    /\ pc' = [pc EXCEPT ![w] = "done"]
    /\ UNCHANGED <<service, call, base, unsure, effects, told>>

ReceiveSnapshot(w) ==
    /\ Receives(w, "reading")
    /\ Valid(reply[w].answer)
    /\ base' = [base EXCEPT ![w] = reply[w].snapshot]
    /\ pc' = [pc EXCEPT ![w] =
         IF w \in unsure /\ w \in reply[w].snapshot.definition THEN "done" ELSE "ready"]
    /\ UNCHANGED <<service, call, unsure, effects, told>>

(* A dry run answers with the version that it was made for. *)
ReceivePreview(w) ==
    /\ Receives(w, "previewing")
    /\ Valid(reply[w].answer)
    /\ base' = [base EXCEPT ![w].version = reply[w].snapshot.version]
    /\ pc' = [pc EXCEPT ![w] = "ready"]
    /\ UNCHANGED <<service, call, unsure, effects, told>>

ReceiveConfirmation(w) ==
    /\ Receives(w, "writing")
    /\ Valid(reply[w].answer)
    /\ pc' = [pc EXCEPT ![w] = "done"]
    /\ confirmed' = confirmed \cup {This(w)}
    /\ UNCHANGED <<service, call, base, unsure, effects, rejected>>

------------------------------------------------------------------------------
Writer(w) ==
    \/ Get(w) \/ Mutate(w)
    \/ ReceiveError(w) \/ NotFound(w) \/ ReceiveSnapshot(w)
    \/ ReceivePreview(w) \/ ReceiveConfirmation(w)
    \/ GiveUp(w)

Service(q) == Read(q) \/ Refuse(q) \/ Perform(q) \/ AnswerInstead(q)

Next ==
    \/ \E w \in Writers : Writer(w)
    \/ \E q \in wire : Service(q)
    \/ ChangeElsewhere

Spec == Init /\ [][Next]_vars

(***************************************************************************)
(* "rejected" means that the change did not take effect and never will,    *)
(* whoever answered and however late the service acts; a result means that *)
(* it did (catalogRequest(), catalogOutcome).                              *)
(***************************************************************************)
HonestOutcome ==
    /\ rejected \cap effects = {}
    /\ \A q \in wire : <<q.writer, q.call>> \notin rejected
    /\ confirmed \subseteq effects

(***************************************************************************)
(* No lost update: a change replaces exactly the definition its writer     *)
(* read, also when its request was given up and arrives late.              *)
(***************************************************************************)
ReplacesWhatWasRead ==
    [][resource'.definition # resource.definition =>
         \E q \in wire : q.seen = resource.definition /\ q.body = resource'.definition]_vars

(***************************************************************************)
(* A writer that reads again after "unknown" and tries again, as errors    *)
(* tell it to, makes its change once: a request that was given up and its  *)
(* successor never both take effect.                                       *)
(***************************************************************************)
AppliedOnce == \A d, e \in effects : d[1] = e[1] => d = e
==============================================================================
