---------------------------- MODULE CatalogProofs ----------------------------
(***************************************************************************)
(* Theorems about Catalog, for any writers and bounds.  The invariant says *)
(* of everything that carries a version that it is not newer than the      *)
(* catalog and, if it is as new, right about the resource; and of every    *)
(* answer and every change which request it belongs to.                    *)
(***************************************************************************)
EXTENDS Catalog, TLAPS

(* A pair of a version and a definition may be old, never wrong. *)
Consistent(version, definition) ==
    /\ version \in Nat
    /\ version <= resource.version
    /\ version = resource.version => definition = resource.definition

Snapshots ==
    /\ \A w \in Writers : Consistent(base[w].version, base[w].definition)
    /\ \A w \in Writers : pc[w] \in {"ready", "previewing", "writing"} =>
         base[w].definition # NoDefinition
    /\ \A w \in Writers : reply[w] # NoReply /\ Valid(reply[w].answer) =>
         /\ pc[w] \in {"reading", "previewing"} =>
              Consistent(reply[w].snapshot.version, reply[w].snapshot.definition)
         /\ pc[w] = "reading" => reply[w].snapshot.definition # NoDefinition
         /\ pc[w] = "previewing" =>
              reply[w].snapshot.definition = base[w].definition
    /\ \A q \in wire : q.method # "GET" => Consistent(q.ifMatch, q.seen)

Current(q) == Awaits(q.writer) /\ q.call = call[q.writer]

Requests ==
    /\ \A q \in wire : q.call <= call[q.writer]
    /\ \A p, q \in wire : p.writer = q.writer /\ p.call = q.call => p = q
    /\ \A q \in wire : Current(q) =>
         /\ q.seen = base[q.writer].definition
         /\ pc[q.writer] = "reading" <=> q.method = "GET"
         /\ pc[q.writer] = "writing" <=> IsWrite(q)

Answers ==
    \A w \in Writers : reply[w] # NoReply =>
        /\ Awaits(w)
        /\ reply[w].answer \in Successes \cup Refusals \cup Unclear
        /\ reply[w].answer \in Refusals =>
             /\ This(w) \notin effects
             /\ \A q \in wire : <<q.writer, q.call>> # This(w)
        /\ pc[w] = "writing" /\ Valid(reply[w].answer) => This(w) \in effects

Told ==
    /\ HonestOutcome
    /\ \A w \in Writers, n \in Nat : <<w, n>> \in effects \cup rejected => n <= call[w]
    /\ \A q \in wire : <<q.writer, q.call>> \notin effects

IInv == TypeOK /\ Snapshots /\ Requests /\ Answers /\ Told

Changed(w) == \E n \in Nat : <<w, n>> \in effects

(* Whose change the resource contains, and who may not know of its own. *)
Marks ==
    /\ resource.definition # NoDefinition =>
         \A w \in Writers : w \in resource.definition <=> Changed(w)
    /\ \A w \in Writers : pc[w] \in {"ready", "previewing", "writing"} =>
         w \notin base[w].definition
    /\ \A w \in Writers : pc[w] = "reading" /\ reply[w] # NoReply /\ Valid(reply[w].answer) =>
         (w \in reply[w].snapshot.definition => Changed(w))
    /\ \A q \in wire : IsWrite(q) =>
         /\ q.seen # NoDefinition /\ q.writer \notin q.seen
         /\ q.body = NoDefinition \/ q.body = q.seen \cup {q.writer}
         /\ q.writer \in unsure \/ (pc[q.writer] = "writing" /\ q.call = call[q.writer])
    /\ \A w \in Writers, n \in Nat : <<w, n>> \in effects =>
         w \in unsure \/ (pc[w] = "writing" /\ n = call[w]) \/ pc[w] = "done"
    /\ AppliedOnce

------------------------------------------------------------------------------
(* Answers: what they are, and what the client may conclude. *)

LEMMA AnswersAreResponses ==
    /\ Successes \subseteq Response
    /\ Refusals \subseteq Response
    /\ Unclear \subseteq Response
BY DEF Successes, Refusals, Unclear, CatalogErrors, Malformed, Response,
       ErrorResponses, ErrorStatuses, ErrorBodies, ReadableBodies, CodedBodies, Flags

(* Only the service's own refusal counts as one. *)
LEMMA OnlyRefusalsReject ==
    \A r \in Successes \cup Refusals \cup Unclear :
        /\ Rejects(r) => r \in Refusals
        /\ Valid(r) <=> r \in Successes
        /\ r \in Refusals => ~Valid(r)
        /\ r \in Unclear => ~Valid(r) /\ r \notin Refusals
        /\ r \in Successes => r \notin Refusals
BY DEF Rejects, Valid, HasCode, CodedBodies, Successes, Refusals, Unclear,
       CatalogErrors, Malformed, ErrorStatuses

LEMMA InitIInv == Init => IInv
BY DEF Init, New, IInv, TypeOK, Snapshots, Consistent, Requests, Answers, Told,
       HonestOutcome, Snapshot, Definitions, Awaits

------------------------------------------------------------------------------
(* What one action does, in the terms of the invariant. *)

LEMMA SendKeeps ==
    ASSUME IInv, NEW w \in Writers, NEW where \in {"reading", "previewing", "writing"},
           NEW method \in {"GET", "PUT", "DELETE"}, NEW body \in Definitions,
           pc[w] \in {"idle", "ready"},
           (where = "reading") <=> (method = "GET"),
           where # "reading" => base[w].definition # NoDefinition,
           Send(w, where, method, body)
    PROVE  IInv'
PROOF
<1> DEFINE request ==
      [writer |-> w, call |-> call[w] + 1, method |-> method,
       dryRun |-> where = "previewing", ifMatch |-> IfMatch(w, method),
       body |-> body, seen |-> base[w].definition]
<1>1. /\ wire' = wire \cup {request}
      /\ pc' = [pc EXCEPT ![w] = where]
      /\ call' = [call EXCEPT ![w] = @ + 1]
      /\ resource' = resource /\ base' = base /\ unsure' = unsure
      /\ reply' = reply /\ effects' = effects
      /\ rejected' = rejected /\ confirmed' = confirmed
  BY DEF Send, told
<1>2. TypeOK /\ Snapshots /\ Requests /\ Answers /\ Told
  BY DEF IInv
<1>3. reply[w] = NoReply
  BY <1>2 DEF Answers, Awaits
<1>4. /\ base[w] \in Snapshot
      /\ base[w].definition \in Definitions /\ base[w].version \in Nat
      /\ call[w] \in Nat /\ call[w] + 1 \in Nat
  BY <1>2 DEF TypeOK, Snapshot
<1>5. /\ request \in Request
      /\ request.writer = w /\ request.call = call[w] + 1
      /\ request.method = method /\ request.seen = base[w].definition
      /\ request.dryRun <=> where = "previewing"
      /\ method # "GET" => request.ifMatch = base[w].version
  BY <1>4 DEF Request, IfMatch
<1>6. TypeOK'
  BY <1>1, <1>2, <1>4, <1>5 DEF TypeOK
<1>7. Snapshots'
  BY <1>1, <1>2, <1>3, <1>5 DEF Snapshots, Consistent, TypeOK
<1>8. Requests'
  BY <1>1, <1>2, <1>4, <1>5 DEF Requests, Current, Awaits, IsWrite, TypeOK, Request
<1>9. Answers'
  BY <1>1, <1>2, <1>3, <1>5 DEF Answers, Awaits, This, TypeOK
<1>10. Told'
  BY <1>1, <1>2, <1>4, <1>5 DEF Told, HonestOutcome, TypeOK, Request
<1> QED BY <1>6, <1>7, <1>8, <1>9, <1>10 DEF IInv

(* An answer changes the reply of the writer it reaches, and no other. *)
LEMMA AnswerEffect ==
    ASSUME TypeOK, NEW q \in wire, NEW answer \in Response, NEW snapshot \in Snapshot,
           Answer(q, answer, snapshot)
    PROVE  /\ reply' \in [Writers -> Reply \cup {NoReply}]
           /\ \A w \in Writers :
                \/ reply'[w] = reply[w]
                \/ /\ w = q.writer /\ Reaches(q) /\ Current(q)
                   /\ reply'[w].answer = answer
                   /\ reply'[w].snapshot = snapshot
BY DEF TypeOK, Request, Answer, Reaches, Current, Reply

LEMMA NewIsSnapshot == New \in Snapshot
BY DEF New, Snapshot, Definitions

LEMMA ReadKeeps ==
    ASSUME IInv, NEW q \in wire, Read(q)
    PROVE  IInv'
PROOF
<1>1. /\ q.method = "GET" /\ wire' = wire \ {q}
      /\ resource' = resource /\ pc' = pc /\ call' = call /\ base' = base
      /\ unsure' = unsure /\ effects' = effects
      /\ rejected' = rejected /\ confirmed' = confirmed
  BY DEF Read, program, told
<1>2. TypeOK /\ Snapshots /\ Requests /\ Answers /\ Told
  BY DEF IInv
<1>3. PICK answer \in Successes \cup Refusals, snapshot \in Snapshot :
        /\ Answer(q, answer, snapshot)
        /\ answer \in Successes =>
             snapshot = resource /\ resource.definition # NoDefinition
  <2>1. CASE resource.definition = NoDefinition
    BY <2>1, NewIsSnapshot, OnlyRefusalsReject DEF Read
  <2>2. CASE resource.definition # NoDefinition
    BY <2>2, <1>2 DEF Read, TypeOK
  <2> QED BY <2>1, <2>2
<1>4. /\ reply' \in [Writers -> Reply \cup {NoReply}]
      /\ \A w \in Writers :
           \/ reply'[w] = reply[w]
           \/ /\ w = q.writer /\ Current(q)
              /\ reply'[w].answer = answer
              /\ reply'[w].snapshot = snapshot
  BY <1>2, <1>3, AnswerEffect, AnswersAreResponses
<1>5. /\ Valid(answer) => answer \in Successes
      /\ answer \in Successes \cup Refusals \cup Unclear
  BY OnlyRefusalsReject
<1>6. q \in Request /\ q.writer \in Writers
  BY <1>2 DEF TypeOK, Request
<1>7. Current(q) => pc[q.writer] = "reading"
  BY <1>1, <1>2 DEF Requests
<1>8. TypeOK'
  BY <1>1, <1>2, <1>4 DEF TypeOK
<1>9. Snapshots'
  <2>1. resource.version \in Nat
    BY <1>2 DEF TypeOK, Snapshot
  <2> QED BY <1>1, <1>2, <1>3, <1>4, <1>5, <1>7, <2>1 DEF Snapshots, Consistent
<1>10. Requests'
  BY <1>1, <1>2 DEF Requests, Current, Awaits, IsWrite
<1>11. Answers'
  <2> SUFFICES ASSUME NEW w \in Writers, reply'[w] # NoReply
               PROVE  Answers!(w)'
    BY DEF Answers
  <2> QED BY <1>1, <1>2, <1>4, <1>5, <1>7 DEF Answers, Awaits, This, Told, Requests, Current
<1>12. Told'
  BY <1>1, <1>2 DEF Told, HonestOutcome
<1> QED BY <1>8, <1>9, <1>10, <1>11, <1>12 DEF IInv

LEMMA RefuseKeeps ==
    ASSUME IInv, NEW q \in wire, Refuse(q)
    PROVE  IInv'
PROOF
<1>1. /\ q.method # "GET" /\ wire' = wire \ {q}
      /\ resource' = resource /\ pc' = pc /\ call' = call /\ base' = base
      /\ unsure' = unsure /\ effects' = effects
      /\ rejected' = rejected /\ confirmed' = confirmed
  BY DEF Refuse, program, told
<1>2. TypeOK /\ Snapshots /\ Requests /\ Answers /\ Told
  BY DEF IInv
<1>3. PICK answer \in Refusals : Answer(q, answer, New)
  BY DEF Refuse
<1>4. /\ reply' \in [Writers -> Reply \cup {NoReply}]
      /\ \A w \in Writers :
           \/ reply'[w] = reply[w]
           \/ w = q.writer /\ Current(q) /\ reply'[w].answer = answer
  BY <1>2, <1>3, NewIsSnapshot, AnswerEffect, AnswersAreResponses
<1>5. ~Valid(answer) /\ answer \in Successes \cup Refusals \cup Unclear
  BY OnlyRefusalsReject
<1>6. TypeOK'
  BY <1>1, <1>2, <1>4 DEF TypeOK
<1>7. Snapshots'
  BY <1>1, <1>2, <1>4, <1>5 DEF Snapshots, Consistent
<1>8. Requests'
  BY <1>1, <1>2 DEF Requests, Current, Awaits, IsWrite
<1>9. Answers'
  <2> SUFFICES ASSUME NEW w \in Writers, reply'[w] # NoReply
               PROVE  Answers!(w)'
    BY DEF Answers
  <2> QED BY <1>1, <1>2, <1>4, <1>5 DEF Answers, Awaits, This, Told, Requests, Current
<1>10. Told'
  BY <1>1, <1>2 DEF Told, HonestOutcome
<1> QED BY <1>6, <1>7, <1>8, <1>9, <1>10 DEF IInv

(* A request takes effect only on the definition its writer started from. *)
LEMMA PerformReplaces ==
    ASSUME IInv, NEW q \in wire, Perform(q)
    PROVE  q.seen = resource.definition /\ q.ifMatch = resource.version
PROOF
<1>1. q.method # "GET" /\ q.ifMatch \in {NoVersion, resource.version}
  BY DEF Perform, Matches
<1>2. Consistent(q.ifMatch, q.seen)
  BY <1>1 DEF IInv, Snapshots
<1> QED BY <1>1, <1>2, CatalogAssumption DEF Consistent

LEMMA PerformKeeps ==
    ASSUME IInv, NEW q \in wire, Perform(q)
    PROVE  IInv'
PROOF
<1>1. /\ q.method # "GET" /\ wire' = wire \ {q}
      /\ pc' = pc /\ call' = call /\ base' = base /\ unsure' = unsure
      /\ rejected' = rejected /\ confirmed' = confirmed
      /\ resource' = IF q.dryRun THEN resource
                     ELSE [definition |-> q.body, version |-> resource.version + 1]
      /\ effects' = IF q.dryRun THEN effects
                    ELSE effects \cup {<<q.writer, q.call>>}
  BY DEF Perform, program, told
<1>2. TypeOK /\ Snapshots /\ Requests /\ Answers /\ Told
  BY DEF IInv
<1>3. q \in Request /\ q.writer \in Writers /\ q.call \in Nat /\ q.body \in Definitions
  BY <1>2 DEF TypeOK, Request
<1>4. /\ resource \in Snapshot /\ resource' \in Snapshot
      /\ resource.version \in Nat /\ resource.version <= resource'.version
      /\ \/ resource' = resource
         \/ resource'.version = resource.version + 1
  BY <1>1, <1>2, <1>3 DEF TypeOK, Snapshot
<1>5. PICK answer \in Successes \cup Unclear, snapshot \in Snapshot :
        /\ Answer(q, answer, snapshot)
        /\ answer \in Successes => snapshot = resource'
  <2>1. CASE \E r \in Successes : Answer(q, r, resource')
    BY <2>1, <1>4
  <2>2. CASE \E r \in Unclear : Answer(q, r, New)
    <3>1. Unclear \cap Successes = {}
      BY OnlyRefusalsReject
    <3> QED BY <2>2, <3>1, NewIsSnapshot
  <2> QED BY <2>1, <2>2 DEF Perform
<1>6. /\ reply' \in [Writers -> Reply \cup {NoReply}]
      /\ \A w \in Writers :
           \/ reply'[w] = reply[w]
           \/ /\ w = q.writer /\ Current(q)
              /\ reply'[w].answer = answer
              /\ reply'[w].snapshot = snapshot
  BY <1>2, <1>5, AnswerEffect, AnswersAreResponses
<1>7. /\ Valid(answer) => answer \in Successes
      /\ answer \in Successes \cup Refusals \cup Unclear
      /\ answer \notin Refusals
  BY OnlyRefusalsReject
<1>8. q.seen = resource.definition /\ q.ifMatch = resource.version
  BY PerformReplaces
<1>9. TypeOK'
  BY <1>1, <1>2, <1>3, <1>4, <1>6 DEF TypeOK
<1>10. ASSUME NEW v, NEW d, Consistent(v, d) PROVE Consistent(v, d)'
  BY <1>4, <1>10 DEF Consistent
<1>11. Snapshots'
  <2>1. \A w \in Writers : Consistent(base[w].version, base[w].definition)'
    BY <1>1, <1>2, <1>10 DEF Snapshots
  <2>2. ASSUME NEW p \in wire', p.method # "GET"
        PROVE  Consistent(p.ifMatch, p.seen)'
    BY <1>1, <1>2, <1>10, <2>2 DEF Snapshots
  <2>3. ASSUME NEW w \in Writers, reply'[w] # NoReply, Valid(reply'[w].answer)
        PROVE  /\ pc'[w] \in {"reading", "previewing"} =>
                    Consistent(reply[w].snapshot.version, reply[w].snapshot.definition)'
               /\ pc'[w] = "reading" => reply'[w].snapshot.definition # NoDefinition
               /\ pc'[w] = "previewing" =>
                    reply'[w].snapshot.definition = base'[w].definition
    <3>1. CASE reply'[w] = reply[w]
      BY <1>1, <1>2, <1>10, <2>3, <3>1 DEF Snapshots
    <3>2. CASE reply'[w] # reply[w]
      <4>1. w = q.writer /\ Current(q) /\ Valid(answer) /\ reply'[w].snapshot = resource'
        BY <1>5, <1>6, <1>7, <2>3, <3>2
      <4>2. Consistent(resource.version, resource.definition)'
        BY <1>4 DEF Consistent, Snapshot
      <4>3. pc[w] = "previewing" => resource' = resource
        BY <1>1, <1>2, <4>1 DEF Requests, IsWrite
      <4>4. q.seen = base[w].definition /\ pc[w] # "reading"
        BY <1>1, <1>2, <4>1 DEF Requests
      <4> QED BY <1>1, <1>8, <4>1, <4>2, <4>3, <4>4
    <3> QED BY <3>1, <3>2
  <2>4. \A w \in Writers : pc'[w] \in {"ready", "previewing", "writing"} =>
          base'[w].definition # NoDefinition
    BY <1>1, <1>2 DEF Snapshots
  <2> QED BY <2>1, <2>2, <2>3, <2>4 DEF Snapshots, Consistent
<1>12. Requests'
  BY <1>1, <1>2 DEF Requests, Current, Awaits, IsWrite
<1>13. Answers'
  <2> SUFFICES ASSUME NEW w \in Writers, reply'[w] # NoReply
               PROVE  Answers!(w)'
    BY DEF Answers
  <2>1. CASE reply'[w] = reply[w]
    BY <1>1, <1>2, <2>1 DEF Answers, Awaits, This
  <2>2. CASE reply'[w] # reply[w]
    <3>1. w = q.writer /\ Current(q) /\ reply'[w].answer = answer
      BY <1>6, <2>2
    <3>2. pc[w] = "writing" => This(w) \in effects'
      BY <1>1, <1>2, <3>1 DEF Requests, IsWrite, Current, This
    <3> QED BY <1>1, <1>7, <3>1, <3>2 DEF Awaits, This, Current
  <2> QED BY <2>1, <2>2
<1>14. Told'
  <2>1. <<q.writer, q.call>> \notin rejected /\ q.call <= call[q.writer]
    BY <1>2 DEF Told, HonestOutcome, Requests
  <2>2. \A p \in wire' : <<p.writer, p.call>> # <<q.writer, q.call>>
    BY <1>1, <1>2 DEF Requests
  <2> QED BY <1>1, <1>2, <2>1, <2>2 DEF Told, HonestOutcome
<1> QED BY <1>9, <1>11, <1>12, <1>13, <1>14 DEF IInv

LEMMA AnswerInsteadKeeps ==
    ASSUME IInv, NEW q \in wire, AnswerInstead(q)
    PROVE  IInv'
PROOF
<1>1. /\ wire' = wire /\ resource' = resource
      /\ pc' = pc /\ call' = call /\ base' = base
      /\ unsure' = unsure /\ effects' = effects
      /\ rejected' = rejected /\ confirmed' = confirmed
  BY DEF AnswerInstead, service, program, told
<1>2. TypeOK /\ Snapshots /\ Requests /\ Answers /\ Told
  BY DEF IInv
<1>3. PICK answer \in Unclear : Answer(q, answer, New)
  BY DEF AnswerInstead
<1>4. /\ reply' \in [Writers -> Reply \cup {NoReply}]
      /\ \A w \in Writers :
           \/ reply'[w] = reply[w]
           \/ w = q.writer /\ Current(q) /\ reply'[w].answer = answer
  BY <1>2, <1>3, NewIsSnapshot, AnswerEffect, AnswersAreResponses
<1>5. ~Valid(answer) /\ answer \notin Refusals /\ answer \in Successes \cup Refusals \cup Unclear
  BY OnlyRefusalsReject
<1>6. TypeOK'
  BY <1>1, <1>2, <1>4 DEF TypeOK
<1>7. Snapshots'
  BY <1>1, <1>2, <1>4, <1>5 DEF Snapshots, Consistent
<1>8. Requests'
  BY <1>1, <1>2 DEF Requests, Current, Awaits, IsWrite
<1>9. Answers'
  BY <1>1, <1>2, <1>4, <1>5 DEF Answers, Awaits, This, Current
<1>10. Told'
  BY <1>1, <1>2 DEF Told, HonestOutcome
<1> QED BY <1>6, <1>7, <1>8, <1>9, <1>10 DEF IInv

LEMMA ChangeElsewhereKeeps ==
    ASSUME IInv, ChangeElsewhere
    PROVE  IInv'
PROOF
<1>1. /\ wire' = wire /\ resource' = [resource EXCEPT !.version = @ + 1]
      /\ pc' = pc /\ call' = call /\ base' = base /\ reply' = reply
      /\ unsure' = unsure /\ effects' = effects
      /\ rejected' = rejected /\ confirmed' = confirmed
  BY DEF ChangeElsewhere, program, told
<1>2. TypeOK /\ Snapshots /\ Requests /\ Answers /\ Told
  BY DEF IInv
<1>3. /\ resource' \in Snapshot /\ resource.version \in Nat
      /\ resource'.version = resource.version + 1
  BY <1>1, <1>2 DEF TypeOK, Snapshot
<1>4. TypeOK'
  BY <1>1, <1>2, <1>3 DEF TypeOK
<1>5. Snapshots'
  BY <1>1, <1>2, <1>3 DEF Snapshots, Consistent
<1>6. Requests' /\ Answers' /\ Told'
  BY <1>1, <1>2 DEF Requests, Answers, Told, HonestOutcome, Current, Awaits, IsWrite, This
<1> QED BY <1>4, <1>5, <1>6 DEF IInv

LEMMA FailKeeps ==
    ASSUME IInv, NEW w \in Writers, NEW refused \in BOOLEAN, Awaits(w), Fail(w, refused),
           refused => reply[w] # NoReply /\ reply[w].answer \in Refusals
    PROVE  IInv'
PROOF
<1>1. /\ wire' \subseteq wire /\ resource' = resource
      /\ pc' = [pc EXCEPT ![w] = "idle"]
      /\ reply' = [reply EXCEPT ![w] = NoReply]
      /\ call' = call /\ base' = base /\ effects' = effects /\ confirmed' = confirmed
      /\ unsure' \subseteq unsure \cup {w}
      /\ \/ rejected' = rejected
         \/ refused /\ rejected' = rejected \cup {This(w)}
  BY DEF Fail
<1>2. TypeOK /\ Snapshots /\ Requests /\ Answers /\ Told
  BY DEF IInv
<1>3. call[w] \in Nat
  BY <1>2 DEF TypeOK
<1>4. TypeOK'
  BY <1>1, <1>2, <1>3 DEF TypeOK, This
<1>5. Snapshots'
  BY <1>1, <1>2 DEF Snapshots, Consistent, TypeOK
<1>6. Requests'
  BY <1>1, <1>2 DEF Requests, Current, Awaits, IsWrite, TypeOK
<1>7. Answers'
  BY <1>1, <1>2 DEF Answers, Awaits, This, TypeOK
<1>8. Told'
  <2>1. refused => /\ This(w) \notin effects
                  /\ \A q \in wire : <<q.writer, q.call>> # This(w)
    BY <1>2 DEF Answers
  <2> QED BY <1>1, <1>2, <1>3, <2>1 DEF Told, HonestOutcome, This
<1> QED BY <1>4, <1>5, <1>6, <1>7, <1>8 DEF IInv

(* An answer is taken, and the writer goes on with a snapshot or is done. *)
LEMMA ReceiveKeeps ==
    ASSUME IInv, NEW w \in Writers, reply[w] # NoReply,
           NEW where \in {"done", "ready"},
           pc' = [pc EXCEPT ![w] = where],
           reply' = [reply EXCEPT ![w] = NoReply],
           NEW snapshot \in Snapshot,
           base' = [base EXCEPT ![w] = snapshot],
           Consistent(snapshot.version, snapshot.definition),
           where = "ready" => snapshot.definition # NoDefinition,
           \/ confirmed' = confirmed
           \/ This(w) \in effects /\ confirmed' = confirmed \cup {This(w)},
           UNCHANGED <<service, call, unsure, effects, rejected>>
    PROVE  IInv'
PROOF
<1>1. /\ wire' = wire /\ resource' = resource /\ call' = call
      /\ unsure' = unsure /\ effects' = effects /\ rejected' = rejected
  BY DEF service
<1>2. TypeOK /\ Snapshots /\ Requests /\ Answers /\ Told
  BY DEF IInv
<1>3. TypeOK'
  BY <1>1, <1>2 DEF TypeOK, This
<1>4. Snapshots'
  BY <1>1, <1>2 DEF Snapshots, Consistent, TypeOK
<1>5. Requests'
  BY <1>1, <1>2 DEF Requests, Current, Awaits, IsWrite, TypeOK
<1>6. Answers'
  BY <1>1, <1>2 DEF Answers, Awaits, This, TypeOK
<1>7. Told'
  BY <1>1, <1>2 DEF Told, HonestOutcome
<1> QED BY <1>3, <1>4, <1>5, <1>6, <1>7 DEF IInv

(* A writer's own steps. *)
LEMMA WriterKeeps ==
    ASSUME IInv, NEW w \in Writers, Writer(w)
    PROVE  IInv'
PROOF
<1>1. TypeOK /\ Snapshots /\ Answers
  BY DEF IInv
<1>2. /\ base[w] \in Snapshot /\ base[w].definition \in Definitions
      /\ base = [base EXCEPT ![w] = base[w]]
      /\ Consistent(base[w].version, base[w].definition)
  BY <1>1 DEF TypeOK, Snapshot, Snapshots
<1>3. reply[w] # NoReply => reply[w] \in Reply /\ reply[w].snapshot \in Snapshot
  BY <1>1 DEF TypeOK, Reply
<1>4. CASE Get(w)
  BY <1>4, SendKeeps DEF Get, Definitions
<1>5. CASE Mutate(w)
  <2>1. base[w].definition # NoDefinition /\ base[w].definition \cup {w} \in Definitions
    BY <1>1, <1>2, <1>5 DEF Mutate, Snapshots, Definitions
  <2>2. PICK where \in {"previewing", "writing"} :
          \/ Send(w, where, "PUT", base[w].definition \cup {w})
          \/ Send(w, where, "DELETE", NoDefinition)
    BY <1>5 DEF Mutate
  <2>3. CASE Send(w, where, "DELETE", NoDefinition)
    BY <1>5, <2>3, <2>1, SendKeeps DEF Mutate, Definitions
  <2>4. CASE Send(w, where, "PUT", base[w].definition \cup {w})
    BY <1>5, <2>4, <2>1, SendKeeps DEF Mutate
  <2> QED BY <2>2, <2>3, <2>4
<1>6. CASE ReceiveError(w)
  <2>1. Rejects(reply[w].answer) => reply[w].answer \in Refusals
    BY <1>1, <1>6, OnlyRefusalsReject DEF Answers, ReceiveError
  <2>2. Rejects(reply[w].answer) \in BOOLEAN
    BY DEF Rejects
  <2> QED BY <1>6, <2>1, <2>2, FailKeeps DEF ReceiveError
<1>7. CASE GiveUp(w)
  BY <1>7, FailKeeps DEF GiveUp
<1>8. CASE NotFound(w)
  <2>1. /\ reply[w] # NoReply /\ base' = base /\ confirmed' = confirmed
        /\ UNCHANGED <<service, call, unsure, effects, rejected>>
        /\ pc' = [pc EXCEPT ![w] = "done"] /\ reply' = [reply EXCEPT ![w] = NoReply]
    BY <1>8 DEF NotFound, Receives, told
  <2> QED BY <1>2, <2>1, ReceiveKeeps
<1>9. CASE ReceiveConfirmation(w)
  <2>1. /\ reply[w] # NoReply /\ base' = base /\ confirmed' = confirmed \cup {This(w)}
        /\ UNCHANGED <<service, call, unsure, effects, rejected>>
        /\ pc' = [pc EXCEPT ![w] = "done"] /\ reply' = [reply EXCEPT ![w] = NoReply]
        /\ pc[w] = "writing" /\ Valid(reply[w].answer)
    BY <1>9 DEF ReceiveConfirmation, Receives
  <2>2. This(w) \in effects
    BY <1>1, <2>1 DEF Answers
  <2> QED BY <1>2, <2>1, <2>2, ReceiveKeeps
<1>10. CASE ReceiveSnapshot(w)
  <2> DEFINE s == reply[w].snapshot
  <2>1. /\ reply[w] # NoReply /\ base' = [base EXCEPT ![w] = s]
        /\ confirmed' = confirmed
        /\ UNCHANGED <<service, call, unsure, effects, rejected>>
        /\ reply' = [reply EXCEPT ![w] = NoReply]
        /\ pc[w] = "reading" /\ Valid(reply[w].answer)
    BY <1>10 DEF ReceiveSnapshot, Receives, told
  <2>2. PICK where \in {"done", "ready"} : pc' = [pc EXCEPT ![w] = where]
    BY <1>10 DEF ReceiveSnapshot
  <2>3. Consistent(s.version, s.definition) /\ s.definition # NoDefinition
    BY <1>1, <2>1 DEF Snapshots
  <2>4. s \in Snapshot
    BY <1>3, <2>1
  <2> HIDE DEF s
  <2>5. \/ confirmed' = confirmed
        \/ This(w) \in effects /\ confirmed' = confirmed \cup {This(w)}
    BY <2>1
  <2> QED BY <2>1, <2>2, <2>3, <2>4, <2>5, ReceiveKeeps
<1>11. CASE ReceivePreview(w)
  <2> DEFINE s == reply[w].snapshot
  <2>1. /\ reply[w] # NoReply /\ base' = [base EXCEPT ![w].version = s.version]
        /\ confirmed' = confirmed
        /\ UNCHANGED <<service, call, unsure, effects, rejected>>
        /\ reply' = [reply EXCEPT ![w] = NoReply]
        /\ pc' = [pc EXCEPT ![w] = "ready"]
        /\ pc[w] = "previewing" /\ Valid(reply[w].answer)
    BY <1>11 DEF ReceivePreview, Receives, told
  <2>2. /\ Consistent(s.version, s.definition)
        /\ s.definition = base[w].definition /\ s.definition # NoDefinition
    BY <1>1, <2>1 DEF Snapshots
  <2>3. base' = [base EXCEPT ![w] = s]
    <3>1. base[w] \in Snapshot /\ s \in Snapshot
      BY <1>1, <1>2, <1>3, <2>1 DEF TypeOK
    <3> HIDE DEF s
    <3>2. [base[w] EXCEPT !.version = s.version] = s
      BY <2>2, <3>1 DEF Snapshot
    <3> QED
      BY <2>1, <3>2
  <2> HIDE DEF s
  <2> QED BY <1>3, <2>1, <2>2, <2>3, ReceiveKeeps DEF s
<1> QED
  BY <1>4, <1>5, <1>6, <1>7, <1>8, <1>9, <1>10, <1>11 DEF Writer

LEMMA StepKeeps == IInv /\ [Next]_vars => IInv'
PROOF
<1> SUFFICES ASSUME IInv, [Next]_vars PROVE IInv'
  OBVIOUS
<1>1. CASE \E w \in Writers : Writer(w)
  BY <1>1, WriterKeeps
<1>2. CASE \E q \in wire : Service(q)
  BY <1>2, ReadKeeps, RefuseKeeps, PerformKeeps, AnswerInsteadKeeps DEF Service
<1>3. CASE ChangeElsewhere
  BY <1>3, ChangeElsewhereKeeps
<1>4. CASE UNCHANGED vars
  BY <1>4 DEF vars, service, program, told, IInv, TypeOK, Snapshots, Consistent,
     Requests, Current, Answers, Told, HonestOutcome, Awaits, This, IsWrite
<1> QED BY <1>1, <1>2, <1>3, <1>4 DEF Next

LEMMA Invariance == Spec => []IInv
BY InitIInv, StepKeeps, PTL DEF Spec

(* Every variable keeps its type, for any writers and bounds. *)
THEOREM TypeCorrect == Spec => []TypeOK
BY Invariance, PTL DEF IInv

(* What a writer is told of its change is true for ever. *)
THEOREM OutcomesAreHonest == Spec => []HonestOutcome
PROOF
<1>1. IInv => HonestOutcome
  BY DEF IInv, Told
<1> QED BY <1>1, Invariance, PTL

(* No change is lost to one that was made without knowing it. *)
THEOREM NoUpdateIsLost == Spec => ReplacesWhatWasRead
PROOF
<1> DEFINE Replaces ==
      resource'.definition # resource.definition =>
         \E q \in wire : q.seen = resource.definition /\ q.body = resource'.definition
<1>1. IInv /\ [Next]_vars => [Replaces]_vars
  <2> SUFFICES ASSUME IInv, Next, resource'.definition # resource.definition
               PROVE  \E q \in wire : q.seen = resource.definition /\ q.body = resource'.definition
    OBVIOUS
  <2>1. CASE \E w \in Writers : Writer(w)
    BY <2>1 DEF Writer, Get, Mutate, Send, ReceiveError, GiveUp, Fail, NotFound,
       ReceiveSnapshot, ReceivePreview, ReceiveConfirmation, service
  <2>2. CASE \E q \in wire : Service(q)
    <3>1. PICK q \in wire : Perform(q)
      BY <2>2 DEF Service, Read, Refuse, AnswerInstead, service
    <3>2. q.seen = resource.definition
      BY <3>1, PerformReplaces
    <3>3. q.body = resource'.definition
      BY <3>1 DEF Perform
    <3> QED BY <3>2, <3>3
  <2>3. CASE ChangeElsewhere
    BY <2>3 DEF ChangeElsewhere, IInv, TypeOK, Snapshot
  <2> QED BY <2>1, <2>2, <2>3 DEF Next
<1> QED BY <1>1, Invariance, PTL DEF Spec, ReplacesWhatWasRead

------------------------------------------------------------------------------
LEMMA InitMarks == Init => Marks
BY DEF Init, New, Marks, Changed, AppliedOnce

LEMMA SendMarks ==
    ASSUME IInv, Marks, NEW w \in Writers,
           NEW where \in {"reading", "previewing", "writing"},
           NEW method \in {"GET", "PUT", "DELETE"}, NEW body \in Definitions,
           \/ pc[w] = "idle" /\ where = "reading" /\ method = "GET"
           \/ /\ pc[w] = "ready" /\ where # "reading"
              /\ body \in {NoDefinition, base[w].definition \cup {w}},
           Send(w, where, method, body)
    PROVE  Marks'
PROOF
<1> DEFINE request ==
      [writer |-> w, call |-> call[w] + 1, method |-> method,
       dryRun |-> where = "previewing", ifMatch |-> IfMatch(w, method),
       body |-> body, seen |-> base[w].definition]
<1>1. /\ wire' = wire \cup {request}
      /\ pc' = [pc EXCEPT ![w] = where]
      /\ call' = [call EXCEPT ![w] = @ + 1]
      /\ resource' = resource /\ base' = base /\ unsure' = unsure
      /\ reply' = reply /\ effects' = effects
  BY DEF Send
<1>2. /\ pc \in [Writers -> {"idle", "reading", "ready", "previewing", "writing", "done"}]
      /\ call \in [Writers -> Nat]
      /\ \A q \in wire : q.writer \in Writers
  BY DEF IInv, TypeOK, Request
<1>3. reply[w] = NoReply
  BY DEF IInv, Answers, Awaits
<1>4. pc[w] = "ready" => base[w].definition # NoDefinition /\ w \notin base[w].definition
  BY DEF IInv, Snapshots, Marks
<1>5. /\ request.writer = w /\ request.call = call'[w] /\ request.body = body
      /\ request.seen = base[w].definition
      /\ IsWrite(request) => where = "writing"
  BY <1>1, <1>2 DEF IsWrite
<1>6. \A q \in wire' : IsWrite(q) =>
        /\ q.seen # NoDefinition /\ q.writer \notin q.seen
        /\ q.body = NoDefinition \/ q.body = q.seen \cup {q.writer}
        /\ q.writer \in unsure \/ (pc'[q.writer] = "writing" /\ q.call = call'[q.writer])
  <2>1. ASSUME NEW q \in wire, IsWrite(q)
        PROVE  q.writer \in unsure \/ (pc'[q.writer] = "writing" /\ q.call = call'[q.writer])
    BY <1>1, <1>2, <2>1 DEF Marks
  <2>2. ASSUME NEW q \in wire, IsWrite(q)
        PROVE  /\ q.seen # NoDefinition /\ q.writer \notin q.seen
               /\ q.body = NoDefinition \/ q.body = q.seen \cup {q.writer}
    BY <2>2 DEF Marks
  <2>3. IsWrite(request) => pc'[w] = "writing" /\ pc[w] = "ready"
    BY <1>1, <1>2, <1>5
  <2> HIDE DEF request
  <2> QED BY <1>1, <1>4, <1>5, <2>1, <2>2, <2>3
<1> HIDE DEF request
<1>7. \A v \in Writers : pc'[v] \in {"ready", "previewing", "writing"} =>
        v \notin base[v].definition
  BY <1>1, <1>2, <1>4 DEF Marks
<1>8. \A v \in Writers, n \in Nat : <<v, n>> \in effects =>
        v \in unsure \/ (pc'[v] = "writing" /\ n = call'[v]) \/ pc'[v] = "done"
  BY <1>1, <1>2 DEF Marks
<1>9. \A v \in Writers : pc'[v] = "reading" /\ reply[v] # NoReply /\ Valid(reply[v].answer) =>
        (v \in reply[v].snapshot.definition => Changed(v))
  BY <1>1, <1>2, <1>3 DEF Marks
<1> QED BY <1>1, <1>6, <1>7, <1>8, <1>9 DEF Marks, Changed, AppliedOnce

LEMMA PerformMarks ==
    ASSUME IInv, Marks, NEW q \in wire, Perform(q)
    PROVE  Marks'
PROOF
<1>1. /\ q.method # "GET" /\ wire' = wire \ {q}
      /\ pc' = pc /\ call' = call /\ base' = base /\ unsure' = unsure
      /\ resource' = IF q.dryRun THEN resource
                     ELSE [definition |-> q.body, version |-> resource.version + 1]
      /\ effects' = IF q.dryRun THEN effects
                    ELSE effects \cup {<<q.writer, q.call>>}
      /\ resource.definition # NoDefinition
  BY DEF Perform, program
<1>2. /\ q.seen = resource.definition
      /\ q \in Request /\ q.writer \in Writers /\ q.call \in Nat /\ effects \subseteq Writers \X Nat
  BY PerformReplaces DEF IInv, TypeOK, Request
<1>3. \A w \in Writers : pc[w] = "reading" => reply'[w] = reply[w]
  <2>1. PICK answer, snapshot : answer \in Response /\ Answer(q, answer, snapshot)
    BY AnswersAreResponses DEF Perform
  <2>2. Reaches(q) => pc[q.writer] # "reading"
    BY <1>1 DEF IInv, Requests, Current, Reaches
  <2> QED BY <2>1, <2>2 DEF Answer, IInv, TypeOK
<1>4. CASE q.dryRun
  BY <1>1, <1>3, <1>4 DEF Marks, Changed, AppliedOnce
<1>5. CASE ~q.dryRun
  <2>1. /\ effects' = effects \cup {<<q.writer, q.call>>}
        /\ resource'.definition = q.body /\ IsWrite(q)
    BY <1>1, <1>5 DEF IsWrite
  <2>2. ~Changed(q.writer)
    BY <1>1, <1>2, <2>1 DEF Marks
  <2>3. \A w \in Writers : Changed(w)' <=> Changed(w) \/ w = q.writer
    BY <1>2, <2>1 DEF Changed
  <2>4. q.body # NoDefinition =>
          \A w \in Writers : w \in q.body <=> w \in resource.definition \/ w = q.writer
    BY <1>2, <2>1 DEF Marks
  <2>5. resource'.definition # NoDefinition =>
          \A w \in Writers : w \in resource'.definition <=> Changed(w)'
    BY <1>1, <2>1, <2>3, <2>4 DEF Marks
  <2>6. AppliedOnce'
    <3> SUFFICES ASSUME NEW d \in effects', NEW e \in effects', d[1] = e[1] PROVE d = e
      BY DEF AppliedOnce
    <3>1. \A c \in effects : c[1] # q.writer
      BY <1>2, <2>2 DEF Changed
    <3> QED BY <1>2, <2>1, <3>1 DEF Marks, AppliedOnce
  <2>7. \A w \in Writers, n \in Nat : <<w, n>> \in effects' =>
          w \in unsure \/ (pc[w] = "writing" /\ n = call[w]) \/ pc[w] = "done"
    BY <1>2, <2>1 DEF Marks
  <2>8. \A w \in Writers : pc[w] = "reading" /\ reply'[w] # NoReply /\ Valid(reply'[w].answer) =>
          (w \in reply'[w].snapshot.definition => Changed(w)')
    BY <1>3, <2>3 DEF Marks
  <2> QED BY <1>1, <2>5, <2>6, <2>7, <2>8 DEF Marks
<1> QED BY <1>4, <1>5

LEMMA OtherAnswersMark ==
    ASSUME IInv, Marks, NEW q \in wire, Read(q) \/ Refuse(q) \/ AnswerInstead(q)
    PROVE  Marks'
PROOF
<1>1. /\ wire' \subseteq wire /\ resource' = resource
      /\ pc' = pc /\ call' = call /\ base' = base
      /\ unsure' = unsure /\ effects' = effects
  BY DEF Read, Refuse, AnswerInstead, service, program
<1>2. ASSUME NEW w \in Writers, pc[w] = "reading", reply'[w] # NoReply,
             Valid(reply'[w].answer), w \in reply'[w].snapshot.definition
      PROVE  Changed(w)
  <2>1. CASE reply'[w] = reply[w]
    BY <1>2, <2>1 DEF Marks
  <2>2. CASE reply'[w] # reply[w]
    <3>1. PICK answer \in Successes \cup Refusals \cup Unclear, snapshot \in Snapshot :
            /\ Answer(q, answer, snapshot)
            /\ answer \in Successes =>
                 snapshot = resource /\ resource.definition # NoDefinition
      <4>1. resource \in Snapshot
        BY DEF IInv, TypeOK
      <4> QED BY <4>1, NewIsSnapshot, OnlyRefusalsReject DEF Read, Refuse, AnswerInstead
    <3>2. reply'[w].answer = answer /\ reply'[w].snapshot = snapshot
      BY <2>2, <3>1, AnswerEffect, AnswersAreResponses DEF IInv
    <3> QED BY <1>2, <3>1, <3>2, OnlyRefusalsReject DEF Marks
  <2> QED BY <2>1, <2>2
<1> QED BY <1>1, <1>2 DEF Marks, Changed, AppliedOnce

LEMMA WriterMarks ==
    ASSUME IInv, Marks, NEW w \in Writers, Writer(w)
    PROVE  Marks'
PROOF
<1>1. /\ pc \in [Writers -> {"idle", "reading", "ready", "previewing", "writing", "done"}]
      /\ reply \in [Writers -> Reply \cup {NoReply}]
      /\ base \in [Writers -> Snapshot]
      /\ \A q \in wire : q.writer \in Writers
  BY DEF IInv, TypeOK, Request
<1>2. CASE Get(w)
  BY <1>2, SendMarks DEF Get, Definitions
<1>3. CASE Mutate(w)
  <2>1. pc[w] = "ready" /\ base[w].definition \cup {w} \in Definitions
    BY <1>1, <1>3 DEF Mutate, IInv, Snapshots, Snapshot, Definitions
  <2> QED BY <1>3, <2>1, SendMarks DEF Mutate, Definitions
<1>4. ASSUME NEW refused \in BOOLEAN, Awaits(w), Fail(w, refused),
             refused => reply[w] # NoReply /\ reply[w].answer \in Refusals
      PROVE  Marks'
  <2>1. /\ wire' \subseteq wire /\ resource' = resource
        /\ pc' = [pc EXCEPT ![w] = "idle"]
        /\ reply' = [reply EXCEPT ![w] = NoReply]
        /\ call' = call /\ base' = base /\ effects' = effects
        /\ unsure \subseteq unsure'
        /\ pc[w] = "writing" /\ ~refused => w \in unsure'
    BY <1>4 DEF Fail
  <2>2. refused => /\ This(w) \notin effects
                  /\ \A q \in wire : <<q.writer, q.call>> # This(w)
    BY <1>4 DEF IInv, Answers
  <2>3. /\ \A v \in Writers \ {w} : pc'[v] = pc[v] /\ reply'[v] = reply[v]
        /\ pc'[w] = "idle" /\ pc[w] # "done"
    BY <1>1, <1>4, <2>1 DEF Awaits
  <2>4. \A q \in wire' : q.writer = w /\ q.call = call[w] /\ pc[w] = "writing" => w \in unsure'
    BY <2>1, <2>2 DEF This
  <2>5. \A n \in Nat : <<w, n>> \in effects /\ n = call[w] /\ pc[w] = "writing" => w \in unsure'
    BY <2>1, <2>2 DEF This
  <2>6. \A q \in wire' : IsWrite(q) =>
          /\ q.seen # NoDefinition /\ q.writer \notin q.seen
          /\ q.body = NoDefinition \/ q.body = q.seen \cup {q.writer}
          /\ q.writer \in unsure' \/ (pc'[q.writer] = "writing" /\ q.call = call'[q.writer])
    BY <1>1, <2>1, <2>3, <2>4 DEF Marks
  <2>7. \A v \in Writers, n \in Nat : <<v, n>> \in effects' =>
          v \in unsure' \/ (pc'[v] = "writing" /\ n = call'[v]) \/ pc'[v] = "done"
    BY <2>1, <2>3, <2>5 DEF Marks
  <2>8. \A v \in Writers : Changed(v)' <=> Changed(v)
    BY <2>1 DEF Changed
  <2>9. \A v \in Writers :
          /\ pc'[v] \in {"ready", "previewing", "writing"} => v \notin base'[v].definition
          /\ pc'[v] = "reading" /\ reply'[v] # NoReply /\ Valid(reply'[v].answer) =>
               (v \in reply'[v].snapshot.definition => Changed(v))
    BY <2>1, <2>3 DEF Marks
  <2>10. AppliedOnce'
    BY <2>1 DEF Marks, AppliedOnce
  <2>11. resource'.definition # NoDefinition =>
           (\A v \in Writers : v \in resource'.definition <=> Changed(v))
    BY <2>1 DEF Marks
  <2> QED BY <2>6, <2>7, <2>8, <2>9, <2>10, <2>11 DEF Marks
<1>5. CASE ReceiveError(w)
  <2>1. Rejects(reply[w].answer) => reply[w].answer \in Refusals
    BY <1>5, OnlyRefusalsReject DEF IInv, Answers, ReceiveError
  <2>2. Rejects(reply[w].answer) \in BOOLEAN
    BY DEF Rejects
  <2> QED BY <1>4, <1>5, <2>1, <2>2 DEF ReceiveError
<1>6. CASE GiveUp(w)
  BY <1>4, <1>6 DEF GiveUp
<1>7. CASE NotFound(w)
  BY <1>1, <1>7 DEF NotFound, Receives, service, Marks, Changed, AppliedOnce
<1>8. CASE ReceiveConfirmation(w)
  <2>1. /\ resource' = resource /\ wire' = wire /\ call' = call /\ base' = base
        /\ unsure' = unsure /\ effects' = effects
        /\ pc[w] = "writing" /\ pc' = [pc EXCEPT ![w] = "done"]
        /\ reply' = [reply EXCEPT ![w] = NoReply]
    BY <1>8 DEF ReceiveConfirmation, Receives, service
  <2>2. \A q \in wire : <<q.writer, q.call>> # This(w)
    BY <1>8 DEF ReceiveConfirmation, Receives, IInv, Answers, Told
  <2>3. \A q \in wire' : IsWrite(q) =>
          /\ q.seen # NoDefinition /\ q.writer \notin q.seen
          /\ q.body = NoDefinition \/ q.body = q.seen \cup {q.writer}
          /\ q.writer \in unsure' \/ (pc'[q.writer] = "writing" /\ q.call = call'[q.writer])
    BY <1>1, <2>1, <2>2 DEF Marks, This
  <2>4. \A v \in Writers, n \in Nat : <<v, n>> \in effects' =>
          v \in unsure' \/ (pc'[v] = "writing" /\ n = call'[v]) \/ pc'[v] = "done"
    BY <1>1, <2>1 DEF Marks
  <2>5. \A v \in Writers :
          /\ pc'[v] \in {"ready", "previewing", "writing"} => v \notin base'[v].definition
          /\ pc'[v] = "reading" /\ reply'[v] # NoReply /\ Valid(reply'[v].answer) =>
               (v \in reply'[v].snapshot.definition => Changed(v))
    BY <1>1, <2>1 DEF Marks
  <2>6. (\A v \in Writers : Changed(v)' <=> Changed(v)) /\ AppliedOnce'
    BY <2>1 DEF Changed, AppliedOnce, Marks
  <2>7. resource'.definition # NoDefinition =>
           (\A v \in Writers : v \in resource'.definition <=> Changed(v))
    BY <2>1 DEF Marks
  <2> QED BY <2>3, <2>4, <2>5, <2>6, <2>7 DEF Marks
<1>9. CASE ReceivePreview(w)
  <2>1. base'[w].definition = base[w].definition /\ \A v \in Writers \ {w} : base'[v] = base[v]
    BY <1>1, <1>9 DEF ReceivePreview, Snapshot
  <2>2. /\ resource' = resource /\ wire' = wire /\ call' = call
        /\ unsure' = unsure /\ effects' = effects
        /\ pc[w] = "previewing" /\ pc' = [pc EXCEPT ![w] = "ready"]
        /\ reply' = [reply EXCEPT ![w] = NoReply]
    BY <1>9 DEF ReceivePreview, Receives, service
  <2>3. \A v \in Writers :
          /\ pc'[v] \in {"ready", "previewing", "writing"} => v \notin base'[v].definition
          /\ pc'[v] = "reading" /\ reply'[v] # NoReply /\ Valid(reply'[v].answer) =>
               (v \in reply'[v].snapshot.definition => Changed(v))
    BY <1>1, <2>1, <2>2 DEF Marks
  <2>5. \A q \in wire' : IsWrite(q) =>
          /\ q.seen # NoDefinition /\ q.writer \notin q.seen
          /\ q.body = NoDefinition \/ q.body = q.seen \cup {q.writer}
          /\ q.writer \in unsure' \/ (pc'[q.writer] = "writing" /\ q.call = call'[q.writer])
    BY <1>1, <2>2 DEF Marks
  <2>6. \A v \in Writers, n \in Nat : <<v, n>> \in effects' =>
          v \in unsure' \/ (pc'[v] = "writing" /\ n = call'[v]) \/ pc'[v] = "done"
    BY <1>1, <2>2 DEF Marks
  <2>7. (\A v \in Writers : Changed(v)' <=> Changed(v)) /\ AppliedOnce'
    BY <2>2 DEF Changed, AppliedOnce, Marks
  <2>8. resource'.definition # NoDefinition =>
           (\A v \in Writers : v \in resource'.definition <=> Changed(v))
    BY <2>2 DEF Marks
  <2> QED BY <2>3, <2>5, <2>6, <2>7, <2>8 DEF Marks
<1>10. CASE ReceiveSnapshot(w)
  <2>1. w \in reply[w].snapshot.definition => w \in unsure
    <3>1. pc[w] = "reading" /\ reply[w] # NoReply /\ Valid(reply[w].answer)
      BY <1>10 DEF ReceiveSnapshot, Receives
    <3>2. w \in reply[w].snapshot.definition => Changed(w)
      BY <3>1 DEF Marks
    <3> QED BY <3>1, <3>2 DEF Marks, Changed
  <2> QED
    BY <1>1, <1>10, <2>1 DEF ReceiveSnapshot, Receives, service, Marks, Changed, AppliedOnce
<1> QED
  BY <1>2, <1>3, <1>5, <1>6, <1>7, <1>8, <1>9, <1>10 DEF Writer

LEMMA StepMarks == IInv /\ Marks /\ [Next]_vars => Marks'
PROOF
<1> SUFFICES ASSUME IInv, Marks, [Next]_vars PROVE Marks'
  OBVIOUS
<1>1. CASE \E w \in Writers : Writer(w)
  BY <1>1, WriterMarks
<1>2. CASE \E q \in wire : Service(q)
  BY <1>2, PerformMarks, OtherAnswersMark DEF Service
<1>3. CASE ChangeElsewhere
  <2>1. resource'.definition = resource.definition
    BY <1>3 DEF ChangeElsewhere, IInv, TypeOK, Snapshot
  <2> QED BY <1>3, <2>1 DEF ChangeElsewhere, program, Marks, Changed, AppliedOnce
<1>4. CASE UNCHANGED vars
  BY <1>4 DEF vars, service, program, Marks, Changed, AppliedOnce
<1> QED BY <1>1, <1>2, <1>3, <1>4 DEF Next

(* Giving up, reading again and trying again changes nothing twice. *)
THEOREM ChangesOnce == Spec => []AppliedOnce
PROOF
<1>1. Marks => AppliedOnce
  BY DEF Marks
<1> QED BY <1>1, Invariance, InitMarks, StepMarks, PTL DEF Spec
==============================================================================
