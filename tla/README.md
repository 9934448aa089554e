# A TLA+ development of scopedb-js

scopedb-js is the TypeScript client of ScopeDB. Most of it is a typed HTTP client; its own
logic is the **append stream**: many callers hand over rows, one worker batches them, several
append requests are in flight at once, and `flush()` and `shutdown()` promise to tell what
became of every row, also when requests fail, callers cancel and a circuit breaker is open.
Beneath it, the **delivery of one batch** retries against a service that may write rows and not
get to say so; beside it, a **statement handle** is refreshed, awaited and cancelled by callers
whose answers overtake each other, and **catalog resources** are changed by programs that do not
know of each other. Two of the repository's examples are programs with a protocol of their own: an
**outbox worker** that crashes and replays, and a **tail worker** that stores values it did not
make. These are modelled, as TLA+ modules that TLC checks on small instances and about which TLAPS
proves theorems for all values of the constants.

## 1. Inventory of the system

| Component (`src/src/...`) | State it keeps | Operations | Interacts by |
|---|---|---|---|
| `AsyncBoundedQueue` (`stream-internals.ts`) | buffer, parked senders, waiting receiver, closed | `send`, `trySend`, `receive`, `close`, `drain`, abort listener, timer | promises of the stream's callers and of its worker |
| `PendingBytesBudget`, `PendingBytesReservation` (`stream-internals.ts`) | permits available, waiters, closed, released flags | `acquire`, `tryAcquire`, `release`, `close`, abort listener | reservations travel with the rows; whoever ends a row releases it |
| `AppendStream` (`append-stream.ts`) | buffer and its deadline, requests in flight, counters, unobserved barriers, breaker, failure | `send`, `sendAll`, `trySend`, `flush`, `shutdown`, `stats`, the worker, the settlement of a batch | queue and budget; `appendBatch` |
| `AppendStream.appendBatch` (`append-stream.ts`) | attempt number, backoff, deadline, whether an earlier attempt is ambiguous | attempts, pauses, the delivery budget | `Client.appendRows`, the response classification of `client.ts` |
| `AppendStreamBuilder` (`append-stream.ts`) | options | one setter each, `start` | validates what the models assume of their constants |
| `Client` (`client.ts`) | none between calls | requests, timeouts, cancellation, classification of failures | everything above and below |
| `Statement`, `StatementHandle` (`statement.ts`) | newest snapshot, numbers of the last and the applied observation | `submit`, `execute`, `refresh`, `wait`, `cancel` | `Client.submitStatement`, `fetchStatement`, `cancelStatement` |
| Catalog (`catalog.ts`, `Client.catalogRequest`) | none: the service keeps the resource and a version of the tenant's catalog, programs keep the version they read | `get`, `apply`, `delete`, each with dry run, signal, timeout | `If-Match`; an error's `catalogOutcome` |
| Result parsing (`result.ts`) | none | `toValues`, `toObjects`, `first` | statements; programs that append what they read |
| Append encoding (`append-encoding.ts`) | none | `encodeAppendRecord` | `send()` of a strict stream |
| `examples/templates/audit-outbox.ts` | the source's cursor | `deliverAuditInterval` | one stream for each interval; `readUnconfirmed`, `checkpoint` |
| `examples/frameworks/cloudflare-worker/tail-worker.ts` | none | `tail` | `sendAll()` and `shutdown()` of a strict stream |
| Table helpers, errors, wire types | none | pure | |

What is hard here is never parallelism inside a step: JavaScript runs a turn to its next
`await` without interruption. It is what other turns do between two steps of one: a request that
fails while the worker sleeps in `receive()`, a shutdown while a `send()` waits for bytes, a
row that is sent and settled before the `send()` that brought it has resumed, a cancelled
`flush()` whose barrier goes on, a late result of a request older than the breaker's probe, an
attempt that is written after its timer gave it up, a poll answered after a younger one, a
catalog change performed after its caller has read again, a crash between delivery and checkpoint.
`PROJECT.json` lists these hazards by line, with the property that would notice each.

What makes each component correct:

* *queue*: it is a FIFO channel; it loses no wake-up; who is parked is parked behind a full
  buffer; an aborted sender's command is nowhere.
* *budget*: permits are conserved, the head of the line is served as soon as it fits, nobody
  overtakes.
* *stream*: every accepted row gets exactly one outcome; reports add up to the totals and repeat
  nothing; a barrier covers all rows offered before it; after a failure nothing more is sent and
  the error told is right for all rows; one probe at a time; bytes are held for rows on their way
  and only for them; every call returns.
* *append batch*: no retry after an attempt that may have committed unless the caller accepts
  duplicates; an ambiguous attempt is never forgotten; retries keep their distance; it settles.
* *statement*: reads never go back; an error invites another submission only if there was none;
  every call returns.
* *catalog*: no program's change is lost; a change told "rejected" never takes effect, one that
  returned has; who reads again after "unknown" and tries again changes nothing twice.
* *outbox*: every row of a checkpointed interval was written; a second copy is owed to a failure or
  a crash; no request outlives the delivery that made it; in the end everything is delivered up to the
  first interval with a row that `send()` refuses.
* *values*: non-finite, unsafe, sparse, Error and circular values never reject a batch, and what
  could be stored is stored as it was; only something that has no string, or a row beyond the size
  limit, rejects one; no integer changes on its way from a result into a table.

## 2. Modules

| Module | Models | State and actions |
|---|---|---|
| `AsyncBoundedQueue` | class of that name | one variable per field; `ack[c]` and `delivered` are the promises of `send` and `receive` while they are not read. `Send`, `TrySend`, `Receive`, `Timeout`, `Abort`, `Close`, `CloseAndDrain` are the methods and callbacks; `Consume` is the worker reading its answer |
| `FifoChannel` | what the queue promises | a sequence that accepts at one end, delivers at the other, may drop on close; `Channel` in `AsyncBoundedQueue` is the refinement mapping |
| `PendingBytesBudget` | budget and reservations | `Acquire`, `TryAcquire`, `ReleaseAll`, `Abort`, `Close`, `ReleaseAndClose` |
| `AppendStream` | `AppendStream` | composes `Q` and `B`, instances of the two above, whose actions its own actions conjoin |
| `Responses` | what `client.ts` makes of an answer | operators only: `ConfirmsRejection`, `TemporaryRejection`, `TemporaryError`, `SubmissionUnknown` over records of status, body and retry flag |
| `AppendBatch` | `appendBatch()`, `appendRows()`, `appendRequest()` | `Compressed`, `NeverSent`, `Succeeds`, `Answered`, `Disconnected`, `AttemptTimesOut`, `ElapsedFires`, `PauseEnds`; the service (`Decide`), the rest of the stream (`StreamFails`), time (`Tick`) |
| `StreamPromise` | what a stream of either policy promises the program that shuts it down | `Accept`, `HandOver`, `Settle`, `GiveUp`, `BeginShutdown`, `Finish` over four variables; `Promise` in `AppendStream` is the refinement mapping, `KeepsPromise` the property |
| `BatchPromise` | what the delivery of one batch comes to for its owner | `Write`, `Tell` over how often the batch was written and the verdict; `Batch` in `AppendBatch` is the refinement mapping, `KeepsBatchPromise` the property |
| `Outbox` | `deliverAuditInterval()` with its source and the service | extends `StreamPromise`; one action per await of the function, `Crash`, `CheckpointThrows`, and the service that writes late (`WrittenLate`) |
| `Catalog` | `catalogRequest()`, `CatalogResource`, programs that use them | `Get`, `Mutate`, `ReceiveError`, `ReceiveSnapshot`, `ReceivePreview`, `ReceiveConfirmation`, `GiveUp`; the service (`Read`, `Refuse`, `Perform`), what stands before it (`AnswerInstead`), others (`ChangeElsewhere`) |
| `AppendValues`, `AppendEncoding`, `ResultCells`, `TailWorker` | the cases of `encode()`, its recursion and `prepareRecord()`, `parseRow()`, `toEventRows()` | operators only; values are tagged, objects live in a heap |
| `TailDelivery` | the tail worker and its stream | `ReadTrace`, `SendRow`, `Finish` |
| `ResultCopy` | a program that copies a row of a result into a table | `ReadRow`, `SendObject` |
| `StatementHandle` | `Statement` and `StatementHandle` | `Submit`, `Submitted`, `SubmitFails`, `Attach`; per call `Call`, `Receive`, `Poll`, `Fail`, `Abort`; the service (`Accept`, `Advance`, `End`, `Serve`) |
| `AsyncBoundedQueueProofs`, `PendingBytesBudgetProofs`, `AppendStreamProofs`, `AppendBatchProofs`, `StatementHandleProofs`, `CatalogProofs` | (proofs) | one per component |
| `ProgramProofs` | (proofs) | programs on top of the library: `Outbox`, `ResultCopy` |
| `AppendStreamRowsProofs` | (proofs) | more about `AppendStream`: where every row is, and what follows from it |
| `MC...` | (instances) | the small sets and the symmetry TLC uses |

`PROJECT.json` maps each definition to the lines it models.

### How the append stream is cut into actions

An action is the code between two awaits. For `send()`: `SendCall` up to `acquire()`;
`SendGranted` or `SendRefused` when that resumes, up to `commands.send()`; `SendReturns` or
`SendBounced` when that resumes. For the worker: `WorkerTop` (`checkFatal`, expired batch,
`receive`), `WorkerReceived` (dispatch on the command, up to the next await), `WorkerCapacity`
(`waitForCapacity`), `PassCircuit` and `StartProbe` (`waitForCircuit`), `WorkerSend` (the rest of
`dispatchBuffered` and what its caller does until it awaits again), `WorkerSettle`
(`completeBarrier` after `waitForInFlight`), `WorkerUnwind` (the `finally` block). `pc` says
where the worker awaits, `after` where it continues when `dispatchBuffered()` returns. A request is
an element of `inFlight`; `BatchCommits` and `BatchFails` are the handlers of its promise,
`BatchFinally` its `finally`. For barriers: `FlushCall`, `ShutdownCall`, `FlushAbort`,
`BarrierRefused`, `TaskAwaited` (the wait for the worker's task that precedes every
failure a barrier reports).

Where several awaits that nothing can come between were merged, the reason is one of these:

* Awaiting a promise that is already settled yields to other microtasks only. Those are the
  continuations of the steps before; each commutes with what was merged, or is a step of its own.
* A flush that was cancelled adds its output to `unobservedBarriers` in a microtask of the step
  that resolved the barrier; the worker takes the next barrier's output in a later turn. So
  `ResolveBarrier` does it at once.
* Releasing reservations one by one serves the same waiters as releasing all and then serving the
  longest prefix that fits: the line is served in order, and what fits early fits late.
* `drainSenders()` tests for a waiting receiver, but the only receiver is the one that called it
  or none waits (that is `NoLostWakeup`), so `ReceiveBuffered` has no such branch.
  `receive()` from a parked sender with an empty buffer (`ReceiveParked`) is kept as the code has
  it; `ParkedBehindFullBuffer` says that it is never needed, as the capacity is positive.
* `setFatal()` also resolves the promise of a probe; errors reach it in stop mode only, where the
  breaker is not used, so there is none.

Abstracted: rows are identities with a size; errors are `failed` (nothing written) or
`ambiguous`, and whether they count against the service's availability is arbitrary where the code
asks the error; time is what has passed (`deadline = "due"`, `cooled`); one append with its
retries is one step with an arbitrary outcome. `fate`, `covers` and `reported` are history no
action reads.

`prepareRecord()` may refuse any row: a `send()` that throws before it has taken anything
(invalid or too large, its signal aborted, the stream closed) is the second disjunct of `SendCall`, and
a `trySend()` that drops it needs no other reason (`TrySendDropped`). A signal may also abort
between the grant of the bytes and the turn in which `send()` goes on: the queue refuses, and
`SendGranted` gives the bytes back. The signal of `shutdown()` ends that caller's wait and changes
nothing in the stream, so it is no action; another call gets the report.

### How a delivery and a statement are cut

*Delivery.* Time is a clock. A timer may fire at any time after it is due, so the clock can pass
the deadline before `elapsed` is set, as `performance.now()` can. An answer is a record; who may
give it is the assumption about the outside: only the service confirms a rejection (a 4xx with a
code that belongs to it), only of an attempt it will never write, and only a written attempt is
answered by its result. Everything else (a gateway's 503, a 200 without a result, a body that
breaks off) anybody may answer at any time, and the service may write an attempt long after the
client gave it up. `copy` is what the service did with each attempt; no client action reads it
except through an answer. `abandoned` and `notBefore` are history. The check at the
top of the loop follows the one after the pause without an await, so `PauseEnds` has both.
`lastError` keeps what `isRetryable()` and `Retry-After` look at. Jitter is any integer from half
the backoff (rounded up) to all of it.

*Statement.* The service reads the statement when it serves a call (`Serve`), the handle when the
answer arrives (`Receive`); in between, others are asked, served and answered. `submit()` has no
concurrent reader, so its answer is read when it arrives. Snapshots are the status and
`progress.nanos_from_submitted`, which is all `remember()` compares; the service never takes a
status back and its nanos never decrease, which is why "older" can be told at all. Errors leave the
cache alone, so they need no state on their way. Anybody may answer a submission with an error that
carries no code. The code would take `"retryable": true` in such an answer at its word; that only the
service sets this flag is assumed (`UncodedErrors`), and `RetryIsSafe` rests on it. `lastReturned` and `replayInvited` are history. Forgetting a
finished call's answer and number only joins states that nothing tells apart.

### How a catalog change, a delivery of the outbox and a record are cut

*Catalog.* `catalogRequest()` runs up to its await (`Send`) and from there on (`Receive...`,
`GiveUp`); the service acts at any time in between, or after the caller has gone. A definition is
the set of programs whose change it contains: that is all a lost update can show. The version is a
number that grows with every change in the tenant, of this resource or of another
(`ChangeElsewhere`), and `If-Match` is compared with it. Programs do what `docs/usage.md` asks of
them: read, perhaps preview, write with the version they hold, and after "unknown" read again and
look for their change before they try again. A preview gives its caller the version it was made
for. `Refusals` are the service's own errors with a code; `Unclear` is what anybody may answer in
its place while the request goes on its way. The timer of a mutation, the caller's signal and a
broken connection are one action (`GiveUp`): the code tells them apart in `writeDetails` only. `rejected`,
`effects` and `confirmed` are history. A resource that was deleted is not made again: nothing in the
code depends on it, and a program that finds none is done.

*Outbox.* The worker awaits `send()`, `shutdown()` and `checkpoint()`; it may crash at each, and
`checkpoint()` may throw whether or not it took effect. Its stream is `StreamPromise` and nothing
more (with `Stops`, as it takes the default policy), which `stop_failure` shows `AppendStream` to keep: `accepted`, the rows in flight, their
outcomes and how far `shutdown()` is. An ambiguous request, and one whose client crashed, may be
written at any later time (`late`); `BatchPromise` says why it is written once at most, as the worker
does not set `retryAmbiguous`. A crashed worker's stream is gone, so the next one starts from
`NewStream`. One worker owns the source, as the comment in the code says. `send()` throws
when the stream was stopped and for a row it cannot encode or that is too large (`Invalid`), however
often the row is replayed: its interval is never checkpointed and those behind it never begun.
`EverythingDelivered` promises the intervals before it (`Deliverable`), which is all of them if no row is invalid.

*Values.* The arithmetic is that of 64-bit integers and 53-bit numbers, scaled down: five
bits and three. An object is a kind and its items, found by reference, so that the same object can
be shared, nested in itself, or reached twice; a text, a date or a fraction is a tag. `Nearest`
is what `Number()` makes of an integer, ties either way. `String()` of a logged value throws
where an object or a function has lost its `toString`, and `getTime()` where an object only inherits
from `Date` (kinds `stringless`, `forged`); what throws makes everything around it `Unreadable`, and
`tail()` throws with nothing sent. `PrepareRecord` refuses what is larger than `MaxAppendBodyBytes`, each
object and each other value counting as one byte. The program that copies a row meets no nested
object, so `EncodeFlat` is `Encode` unfolded once, which keeps recursion out of what is proved. Left out: proxies, getters in arrays, an own
property called `__proto__`, an error's name, message or stack that is a getter or not a string,
fractions in result cells, and the size limit in the program that copies a row (it is told, as of any refusal). The
state of the tail worker is its place and the rows still to send: the encoding of a row is one step,
as it is in the code, and a row that is refused ends `sendAll()`.

### Slips

A definition `SlipX` before `X` is a plausible mistake in `X`: a dropped guard, a forgotten reset, a
stale value. Nothing uses it. Putting it in the place of `X` must make TLC refute a
property, one for each property of each run; `PROJECT.json` pairs them under "mutants". It is the
evidence that a property can fail and that the bounds of its run are wide enough to show it.

## 3. Runs

| Run | Question | Bounds, and why they are enough |
|---|---|---|
| `queue` | Is the queue a FIFO channel that loses nobody? | 4 commands, buffer of 2: two senders parked at once, with one behind the other, before and after a take, an abort and a close |
| `budget` | Is the budget conserved, fair and live? | 5 holders of sizes 1, 1, 2, 2, 4 of 4 permits: a release that serves several, a large head before small ones, an abort of head or middle |
| `stop_failure` | Do counters, errors, barriers and bytes stay right wherever a request fails, and does the stream keep its promise? | 3 rows, batches of 2 rows and 2 bytes, 2 requests in flight, a place for one command in the queue, a flush that may be cancelled and shutdown: a failure of each certainty before and after a barrier, a row parked before a barrier, a row in the worker's hand when the full buffer cannot be dispatched. `TwoSends` leaves the third row to `trySend()`: two callers that wait are enough to be parked, granted and bounced in either order |
| `stop_liveness` | Does every call return and every row settle, with no row behind the shutdown, in steps that queue and budget allow? | a large and a small row that fit neither the budget nor one batch together, 1 flush, shutdown: `bufferRecord` dispatches first, `send` waits for bytes, someone always waits |
| `continue` | Is every row, drop and outcome reported once; do late results and probes mix; is a claim on the probe given back; does the last report leave anything out? | 3 rows offered in order by `trySend()`, a breaker opening at every failure, a cancellable flush, shutdown: one row to open the breaker, one as its probe, one dropped or behind it. Two action constraints prune callers' steps only, which have no fairness: `OffersInOrder` (rows of one size are alike) and `TrySendOnly` (only `trySend()` meets the breaker; `send()` is in the other runs) |
| `delivery` | Is a batch told the truth, retried only if allowed, written no oftener than its owner was promised, and settled? | 3 attempts, backoff 1 and 2, a pause of 3 the service asks for, attempts of at most 2 in a budget of 5: every timer can end every attempt and pause, the pause can outlast backoff and budget. The clock stops at `Horizon` = 6, past the deadline; nothing is due later |
| `statement` | Do reads stay in order, and do errors invite a second execution? | a refresh, a cancellation and an execution with its polls; one step of progress; three numbered requests while the statement runs (`MaxObservations`), so that two answers can pass each other and a third follow. `MaxPolls` bounds polls after the end and is never reached |
| `catalog` | Is an update lost, an outcome told wrong, a change made twice? | 2 programs, 4 calls each: read, preview, write, and one more after "unknown" or "rejected"; one change elsewhere, so that a version moves while the definition stays. Both programs are alike (`SYMMETRY`) |
| `outbox` | Is every row written, and again only for a fault? | intervals of 2 rows, of 1, and of a good row before an invalid one; 3 failed or crashed deliveries, so that one interval is tried again after two kinds of failure and the second one after the first |
| `values` | Which logged value rejects a batch, does any change; does an integer change? | one of the two programs at a time. Every heap of three objects with two, one and one items of all kinds, those without a string included: sharing, cycles, nesting beyond the limit of 2, rows below and beyond 8 bytes; all integers from one below the smallest to one above the largest, in every type of column and every integer mode, alone, with another column, and with one of the same name |
| `cancelled_flush` | Is what a cancelled flush covered still told when the stream then fails? (violated) | 2 rows, 1 flush, shutdown |
| `unsent_ambiguous` | Does "ambiguous" mean that something was sent? (violated) | as `delivery` |

Counters are bounded because every row is offered once and every barrier is called once; no other
bound is imposed on the stream. `MaxCalls`, `MaxVersion` and `MaxFaults` bound the catalog and the
outbox as said above; the theorems hold for all of their values. Rows of one size and flushes are symmetric and `SYMMETRY` is used in the runs without liveness.
`CHECK_DEADLOCK FALSE` is set for the stream because it may really stop: callers owe nothing, and a
stream that was shut down does nothing more. That no *call* hangs is stated by the liveness properties.

**Fairness.** `FairSpec` assumes weak fairness of the worker, of the settlement of requests, of
timers and of each pending call's continuation. The event loop runs every ready continuation;
timers fire; a request settles because `maxElapsedTimeMs` bounds it with its retries. Nothing is
assumed of callers: they may never call, flush, shut down or abort. Fairness of `Worker` as a whole
is enough because at most one of its actions is enabled at a time.

For a delivery, time passes, compression ends, and the timers of the budget and of the pause
fire; nothing is assumed of the service, the network or the attempt's timer, which may be switched off. That
`Settles` holds nevertheless is what lets `AppendStream` assume that requests settle. For a
statement, timers fire, and the service or an error answers every request and ends the statement:
the client sets no deadline for statements, so `CallsReturn` says that *it* adds no way to hang.
`CHECK_DEADLOCK FALSE` there: a settled batch and an ended statement do nothing more; nor do
programs at the bound of their calls, a worker with nothing left to deliver, and a program that ended.

For the outbox, the worker goes on or is started again, and its stream goes on: that is what
`BarriersReturn` and `AcceptedRowsSettle` show of `AppendStream`. Nothing makes a late request
be written, and nothing makes a worker crash. `EverythingDelivered` rests on `MaxFaults`: failures stop,
but for those of an invalid row, which end the attempts at its interval in the model when the bound is reached.

**Findings.** `cancelled_flush` (a documentation divergence): `docs/usage.md` line 145 says that a
cancelled flush is carried into the next report, so its outcomes are not lost. In stop mode, when
the stream fails after a flush was cancelled but resolved, the error's context counts the
current interval only (`addCommittedContextToFatal`), and no barrier resolves after it: the rows
the cancelled flush covered appear in no result and no error; `stats()` alone still counts them.

`unsent_ambiguous` (a documentation divergence): `errors.ts` line 198 says that an ambiguous
request reached the transport boundary. `appendBatch()` calls every error ambiguous that is not an
`AppendRowsError`, also one thrown before anything was sent: a body that cannot be compressed,
or a budget that ends while it is. The answer errs on the safe side.

## 4. Proofs

Every theorem holds for all rows, sizes, capacities, limits, both policies and all thresholds, for
any programs and versions, and for every source of intervals.
The assumptions are the named `ASSUME`s of the component modules: positive limits (the
builder validates them), a finite set of rows, answers distinct from commands, and intervals that
share no row.

* **Queue** (`AsyncBoundedQueueProofs`). The inductive invariant is `Shape` (who waits and what
  is buffered: `NoLostWakeup` and `ParkedBehindFullBuffer` need each other across a `receive`)
  and `Place` (no command twice, and its sender's `ack` agrees). Theorems `NoWakeupIsLost`,
  `ParkedOnlyBehindFullBuffer`, `SendersKnow`; and `FifoKept`, the refinement of `FifoChannel`: one
  lemma per method says what it does to `Pending` (the concatenation of what was handed over,
  buffered and parked), which makes each a step of the channel or none.
* **Budget** (`PendingBytesBudgetProofs`). The sum of permits is the cardinality of a set
  of pairs, so that it can be reasoned about without recursion. `ServedSplits` shows that the
  prefix `drainWaiters` serves exists, fits, and stops at a head that does not; it needs
  the least-number principle, taken from well-foundedness of finite subsets. The invariant
  adds that nobody is in two places. Theorems `Conservation`, `HeadWaitsOnlyForRoom`,
  `FirstComeFirstServed`.
* **Stream** (`AppendStreamProofs`). `Base` joins the invariants of the two instances, the types,
  and `Untouched`: what a caller has not asked for, queue and budget know nothing of. `StreamSteps` shows
  that each action is a step the queue and the budget allow, which is what lets
  their lemmas be used: `QP` and `BP` are instances of the proof modules.
  Theorems: `TypeCorrect`; `ComponentsUsed` (the stream implements the
  specifications of both components); `DeadlineArmed`; `FailureIsFinal`; `OneProbeAtATime`, whose
  invariant adds that an unused breaker stays closed, that a stream that continues never fails, and
  that the batch about to be sent knows if it is the probe; `ReportsComplete`, whose invariant adds
  that an interval counts no drops and that a barrier's snapshot is never ahead of the total.
* **Rows of the stream** (`AppendStreamRowsProofs`). None of these properties is inductive: what a
  counter, a report or an error may say depends on where every row is. The invariant is built in
  layers, each proved from those below; the first five are used by all the others.
  1. `WorkerPlace`: the worker listens only in `"received"`, dispatches only a buffer that holds
     something, and leaves nothing behind when it is done.
  2. `LastInvited`: no command follows the shutdown command, so that nothing is pending while the
     worker completes it.
  3. `RowsPlaced`: what was taken from the queue is held, buffered, in one open request or has its
     outcome, and only one of these. `RowMoves` reduces every action to one of five things that
     happen to rows (`Stay`, `Take`, `Leave`, `Fail`, `SettleRows`); later layers argue about
     those five instead of the actions.
  4. `CallsPlaced`: how far a call is agrees with what the queue answered it and with the counters.
  5. `Ending`: why the queue and the budget are closed, and what is true once `shutdown()` resolved.
  6. On these rest `Errors` (a definite error means that no row is ambiguous), `Tallied` (the
     counters are cardinalities of sets of rows), `BytesPlaced` (every reservation has a place, each
     row on its way a reservation), `Covering` (rows offered before a barrier are not behind it),
     `Balance` (an interval lacks just the rows still with the worker) and `Claim` (who claimed the
     probe has a row that will be in it).

  Theorems: `ShutdownComesLast`, `FailureIsHonest`, `EveryRowCounted`, `BytesFollowRows`,
  `NothingIsLeft`, `BarriersCover`, `ReportsBalance`, `ClaimIsHonoured`; `ShutdownIsComplete`, which
  adds `LastReport`: once `shutdown()` has resolved nothing is held, buffered or in flight, the interval and the unobserved
  barriers are empty, and the drops it took are those it had seen when it was called; and
  `PromiseIsKept`: under either policy the stream implements `StreamPromise`. `Leave` is `HandOver`,
  `SettleRows` is `Settle`, `Fail` is `GiveUp`, a call that returns is `Accept`. With `ProgramProofs` this makes a chain: what is proved of the outbox over
  the promise holds over the stream that keeps it.
* **Delivery** (`AppendBatchProofs`). `HonestVerdict` is not inductive: the invariant adds what is
  known of past attempts (each was refused, or is remembered as ambiguous), of attempts to come
  (unsent), of the last error (if it is definite, its attempt was refused), and that a
  pause has a retry left and an excused attempt before it. Theorems `TypeCorrect`, `VerdictIsHonest`,
  `ReplaysAreAllowed`, `RetriesAreApart`; and `BatchPromiseIsKept`, the refinement of `BatchPromise`:
  an attempt that waits for the service was preceded by refused ones only, unless `retryAmbiguous`
  excused them, so without it the batch is written at most once, however late.
* **Statement** (`StatementHandleProofs`). The invariant `CacheIsNewest` relates two things the code
  keeps apart: what was returned is never newer than what is cached. `AtLeastAsNew` is a
  preorder and `remember()` only climbs it (`RememberAdvances`), so by transitivity nothing returned
  later is older. Theorems `TypeCorrect`, `ReadsNeverRegress`, `RetriesAreSafe`.
* **Catalog** (`CatalogProofs`). The invariant says of everything that carries a version (a program's
  snapshot, an answer, a request) that it is not newer than the catalog and, if it is as new, right
  about the resource (`Consistent`), and that a call has one request. That makes a performed write
  start from what is there: `NoUpdateIsLost`. `OutcomesAreHonest` adds that a refusal on its way
  belongs to a request that is gone and has done nothing. `ChangesOnce` needs a second invariant on
  top (`Marks`): as long as the resource exists it contains exactly the changes made, and whoever may
  have made one without knowing looks for it. With `TypeCorrect`.
* **Outbox** (`ProgramProofs`). `OneAttempt` counts: a row that the delivery has not settled has at
  most one copy for each fault, and only a fault or a checkpoint ends a delivery. Theorems
  `TypeCorrect`, `AtLeastOnce`, `SettledFirst`, `DuplicatesBounded`.
* **Copied results** (`ProgramProofs`). `IntegersAreExact`: every integer the encoder takes is itself a
  number (`SafeIsNumber`), and so is the first one beyond on either side (`FirstUnsafe`, for which the
  largest safe integer must be odd, as 2^53 - 1 is). So a number that is nearest to an integer and safe
  is that integer (`NearestIsExact`), and what was rounded is refused. Columns of different names are
  all kept (`NoColumnLost`).

Every safety and action property that a run checks is also a theorem, except `TailDelivers`, which
is about operators that recurse over data: its sanitizer and encoder walk objects of any depth. Only
model-checked besides: liveness (`BarriersReturn`, `SendsReturn`, `AcceptedRowsSettle`, `Settles`,
`CallsReturn`, `EverythingDelivered`), which would need `ENABLED` and fairness. No run states
`FailureIsFinal` and `VerdictIsHonest` on its own: what they forbid, `KeepsPromise` and
`KeepsBatchPromise` forbid too (the slips of `DispatchForbidden` and `Told` break these). TLC checks
`KeepsPromise` in stop mode, the theorem covers both policies. That
`AppendStream` may take a batch as one step with one outcome rests on `BatchPromiseIsKept` (one
verdict, true of what was written) and on `Settles` (there is one); that step is not itself a
refinement TLC or TLAPS has checked.

## 5. Not modelled

In the stream: `stats()` (reads), failure listeners (they may not act on the stream's state),
`lastFailure`, `lastReport` and the retry counter (no other state depends on them); `sendAll()` is a
loop of `send()` and appears as such in `TailDelivery`. Option validation of the builder: its limits are the
assumptions on the constants. In the client: URLs, headers, authentication, compression itself, and
the text of errors. In the catalog: names, children and the shape of definitions, which are data to
it. Quoting and formatting; types and exports; the examples that call the library once.
`PROJECT.json` gives the reason for each component.

## 6. What could follow

A composition of `AppendStream` with one `BatchPromise` for each request in flight; a promise that
also tells the content of delivery reports, of which `ShutdownTellsAll` is the last word; an
invariant of `AppendStream` from which its liveness properties could be argued step by step on paper.
