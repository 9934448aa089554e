-------------------------- MODULE PendingBytesBudget --------------------------
(***************************************************************************)
(* The byte budget that bounds what an append stream holds in memory:      *)
(* classes PendingBytesBudget and PendingBytesReservation of               *)
(* src/stream-internals.ts.  As in AsyncBoundedQueue, one method call is   *)
(* one action.  A holder (a row of the stream) asks for permits, and gives *)
(* its reservation back once; a reservation remembers that it was released.*)
(*                                                                         *)
(* A holder that asked is parked (in byteWaiters), served (in reserved) or *)
(* refused (in neither), so nothing else records the answer it awaits.     *)
(***************************************************************************)
EXTENDS Integers, Sequences, FiniteSets, SequencesExt

CONSTANTS
    Holder,         \* who may hold a reservation
    Permits,        \* Permits[h]: what h asks for
    MaxPermits      \* the capacity of the budget

ASSUME PermitsAssumption ==
    /\ IsFiniteSet(Holder)
    /\ MaxPermits \in Nat
    /\ Permits \in [Holder -> Nat \ {0}]

VARIABLES
    available,      \* permits nobody holds
    reserved,       \* holders whose reservation is not released
    byteWaiters,    \* holders that wait for permits, oldest first
    budgetClosed    \* no permit is given any more

budgetVars == <<available, reserved, byteWaiters, budgetClosed>>

Init ==
    /\ available = MaxPermits
    /\ reserved = {}
    /\ byteWaiters = <<>>
    /\ budgetClosed = FALSE

TypeOK ==
    /\ available \in Int
    /\ reserved \subseteq Holder
    /\ byteWaiters \in Seq(Holder)
    /\ budgetClosed \in BOOLEAN

-----------------------------------------------------------------------------
(* How many permits the holders in S ask for, each of them a pair. *)
PermitsOf(S) == UNION {{h} \X (1 .. Permits[h]) : h \in S}
Total(S) == Cardinality(PermitsOf(S))

(* The first k of a sequence of waiters. *)
FirstOf(waiters, k) == SubSeq(waiters, 1, k)

(* Whom drainWaiters() serves of waiters when `free' permits are free: the *)
(* longest prefix that fits.  The head is never passed over.               *)
Served(free, waiters) ==
    LET Fits(n) == Total(ToSet(FirstOf(waiters, n))) <= free
        k == CHOOSE n \in 0 .. Len(waiters) :
                Fits(n) /\ (n < Len(waiters) => ~Fits(n + 1))
    IN  IF budgetClosed THEN <<>> ELSE FirstOf(waiters, k)

DrainWaiters(free, waiters, held) ==
    LET served == Served(free, waiters)
    IN  /\ available' = free - Total(ToSet(served))
        /\ reserved' = held \cup ToSet(served)
        /\ byteWaiters' = SubSeq(waiters, Len(served) + 1, Len(waiters))

(* A definition named Slip... is a mistake the next one could plausibly *)
(* contain; nothing uses it.  See README, "Slips".                      *)

(* Both ways to ask succeed at once only when nobody waits. *)
SlipCanAcquire(h) == Permits[h] <= available

CanAcquire(h) == byteWaiters = <<>> /\ Permits[h] <= available

Grant(h) ==
    /\ available' = available - Permits[h]
    /\ reserved' = reserved \cup {h}
    /\ UNCHANGED <<byteWaiters, budgetClosed>>

(* acquire() of an amount the budget could ever hold, while it is open. *)
Acquire(h) ==
    /\ Permits[h] <= MaxPermits
    /\ ~budgetClosed
    /\ IF CanAcquire(h) THEN Grant(h)
       ELSE /\ byteWaiters' = Append(byteWaiters, h)
            /\ UNCHANGED <<available, reserved, budgetClosed>>

(* tryAcquire() that returns a reservation. *)
CanTryAcquire(h) ==
    ~budgetClosed /\ Permits[h] <= MaxPermits /\ CanAcquire(h)

TryAcquire(h) == CanTryAcquire(h) /\ Grant(h)

(* A reservation gives its permits back once, however often it is released. *)
SlipUnreleased(S) == S

Unreleased(S) == S \cap reserved

SlipReleaseAll(S) ==
    LET held == Unreleased(S)
    IN  /\ available' = available + Total(held)
        /\ reserved' = reserved \ held
        /\ UNCHANGED <<byteWaiters, budgetClosed>>

(* release() of the reservations of S, one after the other.  Draining      *)
(* after each serves whom draining after the last would: a prefix that     *)
(* fits earlier still fits, and the head blocks the rest throughout.       *)
ReleaseAll(S) ==
    LET held == Unreleased(S)
    IN  /\ DrainWaiters(available + Total(held), byteWaiters, reserved \ held)
        /\ UNCHANGED budgetClosed

(* The abort listener of a waiter: those behind it may fit now. *)
SlipAbort(h) ==
    /\ \E i \in DOMAIN byteWaiters :
        byteWaiters[i] = h /\ byteWaiters' = RemoveAt(byteWaiters, i)
    /\ UNCHANGED <<available, reserved, budgetClosed>>

Abort(h) ==
    /\ \E i \in DOMAIN byteWaiters :
        /\ byteWaiters[i] = h
        /\ DrainWaiters(available, RemoveAt(byteWaiters, i), reserved)
    /\ UNCHANGED budgetClosed

(* close(): waiters are refused; reservations remain to be released. *)
Close ==
    /\ budgetClosed' = TRUE
    /\ byteWaiters' = IF budgetClosed THEN byteWaiters ELSE <<>>
    /\ UNCHANGED <<available, reserved>>

(* The worker's last use of the budget: it releases what it still holds, *)
(* then closes.                                                          *)
ReleaseAndClose(S) ==
    LET held == Unreleased(S)
        free == available + Total(held)
        served == ToSet(Served(free, byteWaiters))
    IN  /\ available' = free - Total(served)
        /\ reserved' = (reserved \ held) \cup served
        /\ byteWaiters' = <<>>
        /\ budgetClosed' = TRUE

-----------------------------------------------------------------------------
(* The budget among holders that ask, hold and release, in any order. *)
Idle(h) == h \notin reserved /\ h \notin ToSet(byteWaiters)

Release(h) == h \in reserved /\ ReleaseAll({h})

Next ==
    \/ \E h \in Holder : Idle(h) /\ (Acquire(h) \/ TryAcquire(h))
    \/ \E h \in Holder : Release(h) \/ Abort(h)
    \/ \E S \in SUBSET Holder : ReleaseAll(S) \/ ReleaseAndClose(S)
    \/ Close

Spec == Init /\ [][Next]_budgetVars

-----------------------------------------------------------------------------
(* Permits are conserved and never overdrawn: no release is counted twice  *)
(* and no grant, immediate or by draining, is forgotten.                   *)
PermitsConserved ==
    /\ available + Total(reserved) = MaxPermits
    /\ available >= 0

(* No lost wake-up: if anyone waits, the budget is open and the head does  *)
(* not fit, after a release, an abort of the head, or an abort further on. *)
HeadDoesNotFit ==
    byteWaiters # <<>> => ~budgetClosed /\ Permits[Head(byteWaiters)] > available

(* No overtaking: a step that serves h leaves nobody waiting who was       *)
(* waiting before h, or before h asked.                                    *)
Ahead(h) ==
    IF h \in ToSet(byteWaiters)
    THEN {g \in Holder : \E i, j \in DOMAIN byteWaiters :
            i < j /\ byteWaiters[i] = g /\ byteWaiters[j] = h}
    ELSE ToSet(byteWaiters)

NoOvertaking ==
    [][\A h \in reserved' \ reserved :
         ToSet(byteWaiters') \cap Ahead(h) = {}]_budgetVars
=============================================================================
