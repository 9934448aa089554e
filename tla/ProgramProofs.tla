---------------------------- MODULE ProgramProofs ---------------------------
(***************************************************************************)
(* Proofs about the programs on top of the library.  Outbox, for every     *)
(* source, crash and fault: OneAttempt is why copies are bounded, as a     *)
(* stream settles each row once, so a delivery adds at most one copy of    *)
(* it, and only a checkpoint or a counted fault ends a delivery.           *)
(* ResultCopy, for every result and width of numbers: a number that was    *)
(* rounded is beyond those the encoder takes.                              *)
(***************************************************************************)
EXTENDS Outbox, ResultCopy, SequenceTheorems, TLAPS

(* The stream of the delivery, which stops at every other outcome. *)
Committed == {r \in Row : fate[r] = "committed"}
StreamInv ==
    /\ \A r \in open : fate[r] = "none"
    /\ closing \in {"ok", "failed"} => open = {}
    /\ closing = "ok" => accepted \subseteq Committed

(* What the delivery has taken, and how far it is. *)
Progress ==
    /\ pc = "idle" => open = {}
    /\ pc # "idle" =>
         /\ taken \in Intervals
         /\ taken = cursor \/ taken = cursor + 1
         /\ open \subseteq RowsOf(taken)
         /\ next >= 1
    /\ pc \in {"sending", "stopping", "checkpointing"} =>
         /\ taken = cursor + 1
         /\ \A k \in 1 .. Len(Interval[taken]) : k < next => Interval[taken][k] \in accepted
    /\ pc \in {"stopping", "checkpointing"} => next > Len(Interval[taken])
    /\ pc = "sending" => closing = "no"
    /\ pc = "checkpointing" => closing = "ok"

Written ==
    /\ \A r \in Row : fate[r] = "committed" => copies[r] >= 1
    /\ NothingSkipped

(* Rows that this delivery, or none yet, has written. *)
OneAttempt ==
    /\ \A r \in Row : copies[r] + late[r] <= faults + 1
    /\ pc # "idle" =>
         \A r \in RowsOf(taken) :
             fate[r] \notin {"committed", "ambiguous"} => copies[r] + late[r] <= faults
    /\ \A i \in Intervals : i > cursor /\ (pc # "idle" => i # taken) =>
         \A r \in RowsOf(i) : copies[r] + late[r] <= faults

IInv == TypeOK /\ StreamInv /\ Progress /\ Written /\ OneAttempt

-----------------------------------------------------------------------------
LEMMA RowsAreRows ==
    ASSUME NEW i \in Intervals
    PROVE  /\ Interval[i] \in Seq(Row) /\ Len(Interval[i]) \in Nat
           /\ \A k \in 1 .. Len(Interval[i]) :
                Interval[i][k] \in Row /\ Interval[i][k] \in RowsOf(i)
           /\ RowsOf(i) \subseteq Row
PROOF
<1>1. Interval[i] \in Seq(Row)
  BY OutboxAssumption, ElementOfSeq DEF Intervals
<1>2. \A k \in 1 .. Len(Interval[i]) : Interval[i][k] \in Row
  BY <1>1, ElementOfSeq
<1> QED BY <1>1, <1>2, LenProperties DEF RowsOf

LEMMA OfferedRows ==
    ASSUME IInv, NEW S \in SUBSET Offered
    PROVE  /\ pc = "idle" => S = {}
           /\ pc # "idle" => S \subseteq RowsOf(taken)
PROOF
<1>1. CASE pc = "idle"
  BY <1>1 DEF Offered
<1>2. CASE pc # "idle"
  <2>1. taken \in Intervals /\ next \in Nat
    BY <1>2 DEF IInv, Progress, TypeOK
  <2> QED BY <1>2, <2>1, RowsAreRows DEF Offered
<1> QED BY <1>1, <1>2

LEMMA PlusOneAdds ==
    ASSUME NEW f \in [Row -> Nat], NEW S
    PROVE  /\ PlusOne(f, S) \in [Row -> Nat]
           /\ \A r \in Row : r \in S => PlusOne(f, S)[r] = f[r] + 1
           /\ \A r \in Row : r \notin S => PlusOne(f, S)[r] = f[r]
PROOF
  BY DEF PlusOne

LEMMA InitIInv == Init => IInv
PROOF
<1> SUFFICES ASSUME Init PROVE IInv
  OBVIOUS
<1>1. Len(Interval) \in Nat
  BY OutboxAssumption, LenProperties
<1>2. TypeOK
  BY <1>1 DEF Init, StreamInit, TypeOK, StreamTypeOK
<1>3. StreamInv /\ Progress /\ Written
  BY DEF Init, StreamInit, StreamInv, Progress, Written, NothingSkipped
<1>4. OneAttempt
  BY RowsAreRows DEF Init, OneAttempt
<1> QED BY <1>2, <1>3, <1>4 DEF IInv

-----------------------------------------------------------------------------
(* The stream and the service. *)

LEMMA DispatchStep == ASSUME IInv, NEW S, Dispatch(S) PROVE IInv'
PROOF
<1>1. /\ S \subseteq Offered /\ S # {} /\ Unsent(S) /\ closing \in {"no", "called"}
      /\ open' = open \cup S
      /\ accepted' = accepted /\ fate' = fate /\ closing' = closing
      /\ cursor' = cursor /\ pc' = pc /\ taken' = taken /\ next' = next
      /\ copies' = copies /\ late' = late /\ faults' = faults
  BY DEF Dispatch, HandOver, worker, service
<1>2. pc # "idle" /\ taken \in Intervals /\ S \subseteq RowsOf(taken) /\ S \subseteq Row
  BY <1>1, OfferedRows, RowsAreRows DEF IInv, Progress
<1>3. TypeOK'
  BY <1>1, <1>2 DEF IInv, TypeOK, StreamTypeOK
<1>4. StreamInv'
  BY <1>1 DEF IInv, StreamInv, Unsent, Settled, Committed
<1>5. Progress'
  BY <1>1, <1>2 DEF IInv, Progress
<1>6. Written' /\ OneAttempt'
  BY <1>1 DEF IInv, Written, NothingSkipped, OneAttempt
<1> QED BY <1>3, <1>4, <1>5, <1>6 DEF IInv

LEMMA OutcomeStep == ASSUME IInv, NEW S, NEW o, Outcome(S, o) PROVE IInv'
PROOF
<1>1. /\ S # {} /\ S \subseteq open /\ o \in {"committed", "failed", "ambiguous"}
      /\ open' = open \ S
      /\ fate' = [r \in Row |-> IF r \in S THEN o ELSE fate[r]]
      /\ copies' = IF o = "committed" THEN PlusOne(copies, S) ELSE copies
      /\ late' = IF o = "ambiguous" THEN PlusOne(late, S) ELSE late
      /\ accepted' = accepted /\ closing' = closing
      /\ cursor' = cursor /\ pc' = pc /\ taken' = taken /\ next' = next
      /\ faults' = faults
  BY DEF Outcome, Settle, worker
<1>2. /\ pc # "idle" /\ taken \in Intervals /\ S \subseteq RowsOf(taken) /\ S \subseteq Row
      /\ closing \notin {"ok", "failed"}
  BY <1>1, RowsAreRows DEF IInv, Progress, StreamInv
<1>3. /\ copies \in [Row -> Nat] /\ late \in [Row -> Nat] /\ faults \in Nat
      /\ cursor \in Nat /\ cursor <= Len(Interval) /\ Len(Interval) \in Nat
      /\ fate \in [Row -> {"none", "committed", "failed", "ambiguous"}]
  BY OutboxAssumption, LenProperties DEF IInv, TypeOK, StreamTypeOK
<1>4. copies' \in [Row -> Nat] /\ late' \in [Row -> Nat]
  BY <1>1, <1>3, PlusOneAdds
<1>5. \A r \in Row : r \notin S =>
        copies'[r] = copies[r] /\ late'[r] = late[r] /\ fate'[r] = fate[r]
  BY <1>1, <1>3, PlusOneAdds
<1>6. \A r \in S :
        /\ fate[r] = "none" /\ fate'[r] = o
        /\ o = "committed" => copies'[r] = copies[r] + 1 /\ late'[r] = late[r]
        /\ o = "ambiguous" => copies'[r] = copies[r] /\ late'[r] = late[r] + 1
        /\ o = "failed" => copies'[r] = copies[r] /\ late'[r] = late[r]
  <2> SUFFICES ASSUME NEW r \in S
               PROVE  /\ fate[r] = "none" /\ fate'[r] = o
                      /\ o = "committed" => copies'[r] = copies[r] + 1 /\ late'[r] = late[r]
                      /\ o = "ambiguous" => copies'[r] = copies[r] /\ late'[r] = late[r] + 1
                      /\ o = "failed" => copies'[r] = copies[r] /\ late'[r] = late[r]
    OBVIOUS
  <2>1. r \in Row /\ fate[r] = "none" /\ fate'[r] = o
    BY <1>1, <1>2 DEF IInv, StreamInv
  <2>2. /\ PlusOne(copies, S)[r] = copies[r] + 1
        /\ PlusOne(late, S)[r] = late[r] + 1
    BY <1>3, <2>1, PlusOneAdds
  <2> QED BY <1>1, <2>1, <2>2
<1>7. TypeOK'
  BY <1>1, <1>2, <1>4 DEF IInv, TypeOK, StreamTypeOK
<1>8. StreamInv'
  <2>1. open \subseteq Row
    BY DEF IInv, TypeOK, StreamTypeOK
  <2>2. \A r \in open' : fate'[r] = "none"
    BY <1>1, <1>5, <2>1 DEF IInv, StreamInv
  <2> QED BY <1>1, <1>2, <2>2 DEF StreamInv
<1>9. Progress'
  BY <1>1, <1>2 DEF IInv, Progress
<1>10. Written'
  <2>1. \A r \in Row : copies'[r] >= copies[r]
    <3> SUFFICES ASSUME NEW r \in Row PROVE copies'[r] >= copies[r]
      OBVIOUS
    <3>1. copies[r] \in Nat
      BY <1>3
    <3> QED BY <1>1, <1>5, <1>6, <3>1
  <2>2. \A i \in 1 .. cursor : RowsOf(i) \subseteq Row
    BY <1>3, RowsAreRows DEF Intervals
  <2>3. NothingSkipped'
    <3> SUFFICES ASSUME NEW i \in 1 .. cursor, NEW r \in RowsOf(i) PROVE copies'[r] >= 1
      BY <1>1 DEF NothingSkipped, RowsOf
    <3>1. r \in Row /\ copies[r] >= 1
      BY <2>2 DEF IInv, Written, NothingSkipped
    <3> QED BY <1>3, <1>4, <2>1, <3>1
  <2>4. \A r \in Row : fate'[r] = "committed" => copies'[r] >= 1
    BY <1>3, <1>5, <1>6 DEF IInv, Written
  <2> QED BY <2>3, <2>4 DEF Written
<1>11. OneAttempt'
  <2>1. \A r \in S : copies[r] + late[r] <= faults
    BY <1>2, <1>6 DEF IInv, OneAttempt
  <2>2. \A r \in Row : copies'[r] + late'[r] <= faults' + 1
    <3> SUFFICES ASSUME NEW r \in Row PROVE copies'[r] + late'[r] <= faults' + 1
      OBVIOUS
    <3>1. CASE r \in S
      <4>1. copies'[r] + late'[r] <= (copies[r] + late[r]) + 1
        <5>1. copies[r] \in Nat /\ late[r] \in Nat
          BY <1>3
        <5> QED BY <1>1, <1>6, <3>1, <5>1
      <4> QED BY <1>1, <1>3, <1>4, <2>1, <3>1, <4>1
    <3>2. CASE r \notin S
      BY <1>1, <1>5, <3>2 DEF IInv, OneAttempt
    <3> QED BY <3>1, <3>2
  <2>3. \A r \in RowsOf(taken) :
          fate'[r] \notin {"committed", "ambiguous"} => copies'[r] + late'[r] <= faults
    <3> SUFFICES ASSUME NEW r \in RowsOf(taken), fate'[r] \notin {"committed", "ambiguous"}
                 PROVE  copies'[r] + late'[r] <= faults
      OBVIOUS
    <3>1. CASE r \in S
      BY <1>1, <1>6, <2>1, <3>1
    <3>2. CASE r \notin S
      BY <1>2, <1>5, <3>2, RowsAreRows DEF IInv, OneAttempt
    <3> QED BY <3>1, <3>2
  <2>4. \A i \in Intervals : i > cursor /\ i # taken =>
          \A r \in RowsOf(i) : copies'[r] + late'[r] <= faults
    <3> SUFFICES ASSUME NEW i \in Intervals, i > cursor, i # taken, NEW r \in RowsOf(i)
                 PROVE  copies'[r] + late'[r] <= faults
      OBVIOUS
    <3>1. RowsOf(i) \cap RowsOf(taken) = {}
      BY <1>2, OutboxAssumption
    <3>2. r \in Row /\ r \notin S
      BY <1>2, <3>1, RowsAreRows
    <3> QED BY <1>2, <1>5, <3>2 DEF IInv, OneAttempt
  <2> QED BY <1>1, <1>2, <2>2, <2>3, <2>4 DEF OneAttempt
<1> QED BY <1>7, <1>8, <1>9, <1>10, <1>11 DEF IInv

LEMMA WrittenLateStep == ASSUME IInv, NEW r \in Row, WrittenLate(r) PROVE IInv'
PROOF
<1>1. /\ late[r] > 0
      /\ late' = [late EXCEPT ![r] = @ - 1]
      /\ copies' = [copies EXCEPT ![r] = @ + 1]
      /\ accepted' = accepted /\ open' = open /\ fate' = fate /\ closing' = closing
      /\ cursor' = cursor /\ pc' = pc /\ taken' = taken /\ next' = next
      /\ faults' = faults
  BY DEF WrittenLate, worker, streamVars
<1>2. /\ copies \in [Row -> Nat] /\ late \in [Row -> Nat]
      /\ cursor \in Nat /\ cursor <= Len(Interval) /\ Len(Interval) \in Nat
  BY OutboxAssumption, LenProperties DEF IInv, TypeOK
<1>3. copies' \in [Row -> Nat] /\ late' \in [Row -> Nat]
  BY <1>1, <1>2
<1>4. \A s \in Row : /\ copies'[s] + late'[s] = copies[s] + late[s]
                     /\ copies'[s] >= copies[s]
  BY <1>1, <1>2
<1>5. TypeOK' /\ StreamInv' /\ Progress'
  BY <1>1, <1>3 DEF IInv, TypeOK, StreamTypeOK, StreamInv, Committed, Progress
<1>6. Written'
  <2>1. \A i \in 1 .. cursor : RowsOf(i) \subseteq Row
    BY <1>2, RowsAreRows DEF Intervals
  <2>2. NothingSkipped'
    <3> SUFFICES ASSUME NEW i \in 1 .. cursor, NEW s \in RowsOf(i) PROVE copies'[s] >= 1
      BY <1>1 DEF NothingSkipped, RowsOf
    <3>1. s \in Row /\ copies[s] >= 1
      BY <2>1 DEF IInv, Written, NothingSkipped
    <3> QED BY <1>2, <1>3, <1>4, <3>1
  <2>3. \A s \in Row : fate'[s] = "committed" => copies'[s] >= 1
    BY <1>1, <1>2, <1>3, <1>4 DEF IInv, Written
  <2> QED BY <2>2, <2>3 DEF Written
<1>7. OneAttempt'
  <2>1. pc # "idle" => RowsOf(taken) \subseteq Row
    BY RowsAreRows DEF IInv, Progress
  <2> QED BY <1>1, <1>4, <2>1, RowsAreRows DEF IInv, OneAttempt
<1> QED BY <1>5, <1>6, <1>7 DEF IInv

LEMMA FailWaitingStep == ASSUME IInv, NEW S, FailWaiting(S) PROVE IInv'
PROOF
<1>1. /\ S \subseteq Offered /\ Unsent(S) /\ Broken
      /\ fate' = [r \in Row |-> IF r \in S THEN "failed" ELSE fate[r]]
      /\ accepted' = accepted /\ open' = open /\ closing' = closing
      /\ cursor' = cursor /\ pc' = pc /\ taken' = taken /\ next' = next
      /\ copies' = copies /\ late' = late /\ faults' = faults
  BY DEF FailWaiting, GiveUp, worker, service
<1>2. \A r \in S : fate[r] = "none" /\ r \notin open
  BY <1>1 DEF Unsent, Settled
<1>3. /\ fate \in [Row -> {"none", "committed", "failed", "ambiguous"}]
      /\ open \subseteq Row /\ accepted \subseteq Row
  BY DEF IInv, TypeOK, StreamTypeOK
<1>4. \A r \in Row : fate'[r] = IF r \in S THEN "failed" ELSE fate[r]
  BY <1>1
<1>5. TypeOK'
  BY <1>1, <1>3 DEF IInv, TypeOK, StreamTypeOK
<1>6. StreamInv'
  <2>1. \A r \in Row : fate'[r] = "committed" <=> fate[r] = "committed"
    BY <1>2, <1>4
  <2>2. Committed' = Committed
    BY <2>1 DEF Committed
  <2>3. \A r \in open : fate'[r] = "none"
    BY <1>2, <1>3, <1>4 DEF IInv, StreamInv
  <2> QED BY <1>1, <2>2, <2>3 DEF IInv, StreamInv
<1>7. Progress'
  BY <1>1 DEF IInv, Progress
<1>8. Written'
  BY <1>1, <1>4 DEF IInv, Written, NothingSkipped
<1>9. OneAttempt'
  <2>1. pc # "idle" => RowsOf(taken) \subseteq Row
    BY RowsAreRows DEF IInv, Progress
  <2>2. pc # "idle" =>
          \A r \in RowsOf(taken) :
             fate'[r] \notin {"committed", "ambiguous"} => copies[r] + late[r] <= faults
    BY <1>2, <1>4, <2>1 DEF IInv, OneAttempt
  <2> QED BY <1>1, <2>2 DEF IInv, OneAttempt
<1> QED BY <1>5, <1>6, <1>7, <1>8, <1>9 DEF IInv

LEMMA StoppedStep == ASSUME IInv, Stopped PROVE IInv'
PROOF
<1>1. /\ pc \in {"stopping", "cleaning"} /\ open = {} /\ closing = "called"
      /\ closing' \in {"ok", "failed"}
      /\ closing' = "ok" => ~Broken /\ \A r \in accepted : Settled(r)
      /\ accepted' = accepted /\ open' = open /\ fate' = fate
      /\ cursor' = cursor /\ pc' = pc /\ taken' = taken /\ next' = next
      /\ copies' = copies /\ late' = late /\ faults' = faults
  BY DEF Stopped, Finish, worker, service
<1>2. closing' = "ok" => accepted \subseteq Committed
  BY <1>1, OutboxAssumption DEF IInv, TypeOK, StreamTypeOK, Broken, Settled, Committed
<1>3. TypeOK' /\ StreamInv' /\ Progress'
  BY <1>1, <1>2 DEF IInv, TypeOK, StreamTypeOK, StreamInv, Committed, Progress
<1>4. Written' /\ OneAttempt'
  BY <1>1 DEF IInv, Written, NothingSkipped, OneAttempt
<1> QED BY <1>3, <1>4 DEF IInv

-----------------------------------------------------------------------------
(* deliverAuditInterval(). *)

(* A step that leaves the rows alone and goes on with the same interval. *)
LEMMA SameDelivery ==
    ASSUME IInv, pc # "idle" => pc' # "idle", cursor' = cursor, taken' = taken,
           pc # "idle", fate' = fate, copies' = copies, late' = late, faults' = faults
    PROVE  Written' /\ OneAttempt'
PROOF
  BY DEF IInv, Written, NothingSkipped, OneAttempt

LEMMA ReadUnconfirmedStep == ASSUME IInv, ReadUnconfirmed PROVE IInv'
PROOF
<1>1. /\ pc = "idle" /\ cursor < Len(Interval)
      /\ pc' = "sending" /\ taken' = cursor + 1 /\ next' = 1
      /\ accepted' = {} /\ open' = {} /\ fate' = [r \in Row |-> "none"] /\ closing' = "no"
      /\ cursor' = cursor /\ copies' = copies /\ late' = late /\ faults' = faults
  BY DEF ReadUnconfirmed, NewStream, service
<1>2. cursor \in Nat /\ Len(Interval) \in Nat /\ taken' \in Intervals
  BY <1>1, OutboxAssumption, LenProperties DEF IInv, TypeOK, Intervals
<1>3. TypeOK'
  BY <1>1, <1>2 DEF IInv, TypeOK, StreamTypeOK
<1>4. StreamInv'
  BY <1>1 DEF StreamInv
<1>5. Progress'
  BY <1>1, <1>2 DEF Progress
<1>6. Written'
  BY <1>1 DEF IInv, Written, NothingSkipped
<1>7. OneAttempt'
  BY <1>1, <1>2 DEF IInv, OneAttempt
<1> QED BY <1>3, <1>4, <1>5, <1>6, <1>7 DEF IInv

LEMMA RowSentStep == ASSUME IInv, RowSent PROVE IInv'
PROOF
<1>1. /\ pc = "sending" /\ next <= Len(Interval[taken])
      /\ accepted' = accepted \cup {Interval[taken][next]}
      /\ next' = next + 1
      /\ open' = open /\ fate' = fate /\ closing' = closing
      /\ cursor' = cursor /\ pc' = pc /\ taken' = taken
      /\ copies' = copies /\ late' = late /\ faults' = faults
  BY DEF RowSent, Accept, Awaited, service
<1>2. /\ taken \in Intervals /\ next \in Nat /\ next >= 1 /\ closing = "no"
      /\ Len(Interval[taken]) \in Nat /\ Interval[taken][next] \in Row
  BY <1>1, RowsAreRows DEF IInv, Progress, TypeOK
<1>3. TypeOK'
  BY <1>1, <1>2, SMTT(20) DEF IInv, TypeOK, StreamTypeOK
<1>4. StreamInv'
  BY <1>1, <1>2 DEF IInv, StreamInv
<1>5. Progress'
  BY <1>1, <1>2 DEF IInv, Progress
<1>6. Written' /\ OneAttempt'
  BY <1>1, SameDelivery
<1> QED BY <1>3, <1>4, <1>5, <1>6 DEF IInv

LEMMA StopStep == ASSUME IInv, Stop PROVE IInv'
PROOF
<1>1. /\ pc = "sending" /\ next > Len(Interval[taken]) /\ pc' = "stopping"
      /\ closing' = "called" /\ accepted' = accepted /\ open' = open /\ fate' = fate
      /\ cursor' = cursor /\ taken' = taken /\ next' = next
      /\ copies' = copies /\ late' = late /\ faults' = faults
  BY DEF Stop, BeginShutdown, service
<1>2. TypeOK' /\ StreamInv' /\ Progress'
  BY <1>1 DEF IInv, TypeOK, StreamTypeOK, StreamInv, Progress
<1>3. Written' /\ OneAttempt'
  BY <1>1, SameDelivery
<1> QED BY <1>2, <1>3 DEF IInv

LEMMA CleanUpEffect ==
    ASSUME CleanUp
    PROVE  /\ pc' = "cleaning"
           /\ closing' = IF closing = "no" THEN "called" ELSE closing
           /\ accepted' = accepted /\ open' = open /\ fate' = fate
PROOF
  BY DEF CleanUp, BeginShutdown, streamVars

LEMMA SendThrowsStep == ASSUME IInv, SendThrows PROVE IInv'
PROOF
<1>1. /\ pc = "sending" /\ pc' = "cleaning"
      /\ closing' = IF closing = "no" THEN "called" ELSE closing
      /\ accepted' = accepted /\ open' = open /\ fate' = fate
      /\ cursor' = cursor /\ taken' = taken /\ next' = next
      /\ copies' = copies /\ late' = late /\ faults' = faults
  BY CleanUpEffect DEF SendThrows, service
<1>2. TypeOK' /\ StreamInv' /\ Progress'
  BY <1>1 DEF IInv, TypeOK, StreamTypeOK, StreamInv, Committed, Progress
<1>3. Written' /\ OneAttempt'
  BY <1>1, SameDelivery
<1> QED BY <1>2, <1>3 DEF IInv

LEMMA ShutdownReturnsStep == ASSUME IInv, ShutdownReturns PROVE IInv'
PROOF
<1>1. /\ pc = "stopping" /\ pc' \in {"checkpointing", "cleaning"}
      /\ pc' = "checkpointing" => closing = "ok"
      /\ closing' = closing /\ closing # "no"
      /\ accepted' = accepted /\ open' = open /\ fate' = fate
      /\ cursor' = cursor /\ taken' = taken /\ next' = next
      /\ copies' = copies /\ late' = late /\ faults' = faults
  BY CleanUpEffect DEF ShutdownReturns, AllDelivered, streamVars, service
<1>2. TypeOK' /\ StreamInv' /\ Progress'
  BY <1>1 DEF IInv, TypeOK, StreamTypeOK, StreamInv, Committed, Progress
<1>3. Written' /\ OneAttempt'
  BY <1>1, SameDelivery
<1> QED BY <1>2, <1>3 DEF IInv

(* All of the interval is written when the worker comes to checkpoint(). *)
LEMMA IntervalWritten ==
    ASSUME IInv, pc = "checkpointing"
    PROVE  \A r \in RowsOf(taken) : copies[r] >= 1
PROOF
<1>1. taken \in Intervals /\ next > Len(Interval[taken]) /\ next \in Nat
  BY DEF IInv, Progress, TypeOK
<1>2. RowsOf(taken) \subseteq accepted
  BY <1>1, RowsAreRows DEF IInv, Progress, RowsOf
<1>3. accepted \subseteq Committed
  BY DEF IInv, Progress, StreamInv
<1> QED BY <1>2, <1>3 DEF IInv, Written, Committed

LEMMA CursorMoves ==
    ASSUME IInv, pc = "checkpointing", cursor' \in {cursor, taken}, copies' = copies
    PROVE  NothingSkipped'
PROOF
<1>1. cursor \in Nat /\ taken = cursor + 1
  BY DEF IInv, TypeOK, Progress
<1> SUFFICES ASSUME NEW i \in 1 .. cursor', NEW r \in RowsOf(i) PROVE copies[r] >= 1
  BY DEF NothingSkipped, RowsOf
<1>2. CASE i \in 1 .. cursor
  BY <1>2 DEF IInv, Written, NothingSkipped
<1>3. CASE i = taken
  BY <1>3, IntervalWritten
<1> QED BY <1>1, <1>2, <1>3

LEMMA CheckpointStep == ASSUME IInv, Checkpoint PROVE IInv'
PROOF
<1>1. /\ pc = "checkpointing" /\ pc' = "idle" /\ cursor' = taken
      /\ accepted' = accepted /\ open' = open /\ fate' = fate /\ closing' = closing
      /\ taken' = taken /\ next' = next
      /\ copies' = copies /\ late' = late /\ faults' = faults
  BY DEF Checkpoint, Saved, streamVars, service
<1>2. /\ cursor \in Nat /\ taken = cursor + 1 /\ taken \in Intervals
      /\ open = {} /\ Len(Interval) \in Nat /\ taken <= Len(Interval)
  BY <1>1, OutboxAssumption, LenProperties DEF IInv, TypeOK, Progress, StreamInv, Intervals
<1>3. TypeOK' /\ StreamInv' /\ Progress'
  BY <1>1, <1>2 DEF IInv, TypeOK, StreamTypeOK, StreamInv, Committed, Progress
<1>4. Written'
  BY <1>1, CursorMoves DEF IInv, Written
<1>5. OneAttempt'
  BY <1>1, <1>2 DEF IInv, OneAttempt, Intervals
<1> QED BY <1>3, <1>4, <1>5 DEF IInv

LEMMA CheckpointThrowsStep == ASSUME IInv, CheckpointThrows PROVE IInv'
PROOF
<1>1. /\ pc = "checkpointing" /\ pc' = "cleaning" /\ cursor' \in {cursor, taken}
      /\ closing' = IF closing = "no" THEN "called" ELSE closing
      /\ accepted' = accepted /\ open' = open /\ fate' = fate
      /\ taken' = taken /\ next' = next
      /\ copies' = copies /\ late' = late /\ faults' = faults
  BY CleanUpEffect DEF CheckpointThrows, Saved, service
<1>2. /\ cursor \in Nat /\ taken = cursor + 1 /\ taken \in Intervals
      /\ closing = "ok" /\ Len(Interval) \in Nat /\ taken <= Len(Interval)
  BY <1>1, OutboxAssumption, LenProperties DEF IInv, TypeOK, Progress, Intervals
<1>3. TypeOK' /\ StreamInv' /\ Progress'
  <2>1. closing' = closing /\ cursor' \in Nat /\ cursor' <= Len(Interval)
    BY <1>1, <1>2
  <2>2. TypeOK' /\ StreamInv'
    BY <1>1, <2>1 DEF IInv, TypeOK, StreamTypeOK, StreamInv, Committed
  <2>3. Progress'
    BY <1>1, <1>2, <2>1 DEF IInv, Progress
  <2> QED BY <2>2, <2>3
<1>4. Written'
  BY <1>1, CursorMoves DEF IInv, Written
<1>5. OneAttempt'
  BY <1>1, <1>2 DEF IInv, OneAttempt, Intervals
<1> QED BY <1>3, <1>4, <1>5 DEF IInv

LEMMA ThrowStep == ASSUME IInv, Throw PROVE IInv'
PROOF
<1>1. /\ pc = "cleaning" /\ pc' = "idle" /\ faults' = faults + 1
      /\ closing \in {"ok", "failed"} /\ closing' = closing
      /\ accepted' = accepted /\ open' = open /\ fate' = fate
      /\ cursor' = cursor /\ taken' = taken /\ next' = next
      /\ copies' = copies /\ late' = late
  BY DEF Throw, streamVars, service
<1>2. /\ copies \in [Row -> Nat] /\ late \in [Row -> Nat] /\ faults \in Nat
      /\ open = {} /\ taken \in Intervals
  BY <1>1 DEF IInv, TypeOK, Progress, StreamInv
<1>3. TypeOK' /\ StreamInv' /\ Progress'
  BY <1>1, <1>2 DEF IInv, TypeOK, StreamTypeOK, StreamInv, Committed, Progress
<1>4. Written'
  BY <1>1 DEF IInv, Written, NothingSkipped
<1>5. OneAttempt'
  <2>1. \A r \in Row : copies[r] + late[r] <= faults'
    BY <1>1, <1>2 DEF IInv, OneAttempt
  <2>2. \A r \in Row : copies[r] + late[r] <= faults' + 1
    BY <1>1, <1>2, <2>1
  <2> QED BY <1>1, <2>1, <2>2, RowsAreRows DEF OneAttempt
<1> QED BY <1>3, <1>4, <1>5 DEF IInv

LEMMA CrashStep == ASSUME IInv, Crash PROVE IInv'
PROOF
<1>1. /\ pc # "idle" /\ pc' = "idle" /\ faults' = faults + 1
      /\ late' = PlusOne(late, open)
      /\ accepted' = {} /\ open' = {} /\ fate' = [r \in Row |-> "none"] /\ closing' = "no"
      /\ cursor' = cursor /\ taken' = taken /\ next' = next /\ copies' = copies
  BY DEF Crash, NewStream
<1>2. /\ copies \in [Row -> Nat] /\ late \in [Row -> Nat] /\ faults \in Nat
      /\ taken \in Intervals /\ open \subseteq RowsOf(taken)
  BY <1>1 DEF IInv, TypeOK, Progress
<1>3. /\ late' \in [Row -> Nat]
      /\ \A r \in Row : r \in open => late'[r] = late[r] + 1
      /\ \A r \in Row : r \notin open => late'[r] = late[r]
  BY <1>1, <1>2, PlusOneAdds
<1>4. TypeOK' /\ StreamInv' /\ Progress'
  BY <1>1, <1>2, <1>3 DEF IInv, TypeOK, StreamTypeOK, StreamInv, Progress
<1>5. Written'
  BY <1>1 DEF IInv, Written, NothingSkipped
<1>6. OneAttempt'
  <2>1. \A r \in Row : copies[r] + late'[r] <= faults'
    <3> SUFFICES ASSUME NEW r \in Row PROVE copies[r] + late'[r] <= faults'
      OBVIOUS
    <3>1. copies[r] \in Nat /\ late[r] \in Nat
      BY <1>2
    <3>2. CASE r \in open
      <4>1. fate[r] = "none"
        BY <3>2 DEF IInv, StreamInv
      <4>2. copies[r] + late[r] <= faults
        BY <1>1, <1>2, <3>2, <4>1 DEF IInv, OneAttempt
      <4> QED BY <1>1, <1>2, <1>3, <3>1, <3>2, <4>2
    <3>3. CASE r \notin open
      BY <1>1, <1>3, <3>3 DEF IInv, OneAttempt
    <3> QED BY <3>2, <3>3
  <2>2. \A r \in Row : copies[r] + late'[r] <= faults' + 1
    BY <1>1, <1>2, <1>3, <2>1
  <2> QED BY <1>1, <2>1, <2>2, RowsAreRows DEF OneAttempt
<1> QED BY <1>4, <1>5, <1>6 DEF IInv

-----------------------------------------------------------------------------
LEMMA StepIInv == IInv /\ [Next]_vars => IInv'
PROOF
<1> SUFFICES ASSUME IInv, [Next]_vars PROVE IInv'
  OBVIOUS
<1>1. CASE Worker
  BY <1>1, ReadUnconfirmedStep, RowSentStep, StopStep, SendThrowsStep,
     ShutdownReturnsStep, CheckpointStep, ThrowStep DEF Worker
<1>2. CASE Stream
  BY <1>2, DispatchStep, OutcomeStep, FailWaitingStep, StoppedStep DEF Stream
<1>3. CASE CheckpointThrows \/ Crash
  BY <1>3, CheckpointThrowsStep, CrashStep
<1>4. CASE \E r \in Row : WrittenLate(r)
  BY <1>4, WrittenLateStep
<1>5. CASE UNCHANGED vars
  <2>1. /\ accepted' = accepted /\ open' = open /\ fate' = fate /\ closing' = closing
        /\ cursor' = cursor /\ pc' = pc /\ taken' = taken /\ next' = next
        /\ copies' = copies /\ late' = late /\ faults' = faults
    BY <1>5 DEF vars, streamVars, worker, service
  <2> QED BY <2>1 DEF IInv, TypeOK, StreamTypeOK, StreamInv, Committed, Progress,
                      Written, NothingSkipped, OneAttempt
<1> QED BY <1>1, <1>2, <1>3, <1>4, <1>5 DEF Next

LEMMA Invariance == Spec => []IInv
PROOF
  BY InitIInv, StepIInv, PTL DEF Spec

(* The worker, its stream and the service keep to their states, for every *)
(* source of intervals (audit-outbox.ts).                                  *)
THEOREM TypeCorrect == Spec => []TypeOK
PROOF
<1>1. IInv => TypeOK
  BY DEF IInv
<1> QED BY <1>1, Invariance, PTL

(* At least once, whatever crashes and fails: every row of every interval *)
(* that was checkpointed has been written (deliverAuditInterval()).        *)
THEOREM AtLeastOnce == Spec => []NothingSkipped
PROOF
<1>1. IInv => NothingSkipped
  BY DEF IInv, Written
<1> QED BY <1>1, Invariance, PTL

(* No delivery is left behind with a request in flight (the catch clause  *)
(* of deliverAuditInterval()).                                             *)
THEOREM SettledFirst == Spec => []SettledBeforeReplay
PROOF
<1>1. IInv => SettledBeforeReplay
  BY DEF IInv, Progress, SettledBeforeReplay
<1> QED BY <1>1, Invariance, PTL

(* A row has at most one copy more than there were failed and crashed     *)
(* deliveries, however late their requests are written.                    *)
THEOREM DuplicatesBounded == Spec => []DuplicatesOnlyAfterFaults
PROOF
<1>1. IInv => DuplicatesOnlyAfterFaults
  BY DEF IInv, OneAttempt, TypeOK, DuplicatesOnlyAfterFaults
<1> QED BY <1>1, Invariance, PTL

------------------------------------------------------------------------------
(* ResultCopy. *)
LEMMA ProductIsNumber ==
    ASSUME NEW s \in {-1, 1}, NEW m \in 0 .. MaxSafeInteger, NEW p \in Powers, NEW n,
           n = s * m * p
    PROVE  n \in Numbers
BY DEF Numbers

(* Every integer the encoder takes is a number itself, and so its own      *)
(* nearest.                                                                *)
LEMMA SafeIsNumber ==
    ASSUME NEW n \in Int, IsSafe(n)
    PROVE  n \in Numbers
<1>1. MaxSafeInteger \in Nat /\ 1 \in Powers  BY EncodingAssumption, CellsAssumption
<1>2. CASE n >= 0
  <2>1. n \in 0 .. MaxSafeInteger /\ n = 1 * n * 1  BY <1>1, <1>2 DEF IsSafe
  <2>2. QED  BY <1>1, <2>1, ProductIsNumber
<1>3. CASE n < 0
  <2>1. -n \in 0 .. MaxSafeInteger /\ n = (-1) * (-n) * 1  BY <1>1, <1>3 DEF IsSafe
  <2>2. QED  BY <1>1, <2>1, ProductIsNumber
<1>4. QED  BY <1>2, <1>3

LEMMA NumbersAreIntegers == Numbers \subseteq Int
<1>1. ASSUME NEW m \in 0 .. MaxSafeInteger, NEW p \in Powers, NEW s \in {-1, 1}
      PROVE  s * m * p \in Int
  <2>1. m \in Int /\ p \in Int /\ s \in Int  BY CellsAssumption, EncodingAssumption
  <2>2. QED  BY <2>1
<1>2. QED  BY <1>1 DEF Numbers

(* The first integers that are not safe are numbers, too, so one that is   *)
(* beyond them is not rounded back.                                        *)
LEMMA FirstUnsafe ==
    /\ MaxSafeInteger + 1 \in Numbers
    /\ -(MaxSafeInteger + 1) \in Numbers
<1>1. PICK half \in 1 .. MaxSafeInteger : MaxSafeInteger + 1 = 2 * half
  BY CellsAssumption
<1>2. half \in 0 .. MaxSafeInteger /\ half \in Int /\ MaxSafeInteger \in Nat
  BY EncodingAssumption
<1>3. 2 \in Powers  BY CellsAssumption
<1>4. MaxSafeInteger + 1 = 1 * half * 2 /\ -(MaxSafeInteger + 1) = (-1) * half * 2
  BY <1>1, <1>2
<1>5. QED  BY <1>2, <1>3, <1>4, ProductIsNumber

LEMMA NearestIsExact ==
    ASSUME NEW n \in Int, NEW m \in Nearest(n), IsSafe(m)
    PROVE  m = n
<1>1. m \in Int /\ MaxSafeInteger \in Nat
  BY NumbersAreIntegers, EncodingAssumption DEF Nearest
<1>2. \A k \in Numbers : Distance(m, n) <= Distance(k, n)  BY DEF Nearest
<1>3. CASE IsSafe(n)
  <2>1. Distance(m, n) <= Distance(n, n)  BY <1>2, <1>3, SafeIsNumber
  <2>2. QED  BY <1>1, <2>1 DEF Distance
<1>4. CASE n > MaxSafeInteger
  <2>1. Distance(m, n) <= Distance(MaxSafeInteger + 1, n)  BY <1>2, FirstUnsafe
  <2>2. QED  BY <1>1, <1>4, <2>1 DEF Distance, IsSafe
<1>5. CASE n < -MaxSafeInteger
  <2>1. Distance(m, n) <= Distance(-(MaxSafeInteger + 1), n)  BY <1>2, FirstUnsafe
  <2>2. QED  BY <1>1, <1>5, <2>1 DEF Distance, IsSafe
<1>6. QED  BY <1>1, <1>3, <1>4, <1>5 DEF IsSafe

(* A cell is read, and its value encoded. *)
LEMMA NumberSurvives ==
    ASSUME NEW n \in Int, NEW m \in Nearest(n), EncodeLeaf(Number(m)) # Refused
    PROVE  EncodeLeaf(Number(m)) = <<"token", n>>
<1>1. EncodeLeaf(Number(m)) = IF EncodesInteger(m) THEN <<"token", m>> ELSE Refused
  BY DEF EncodeLeaf, Number
<1>2. IsSafe(m)  BY <1>1 DEF EncodesInteger
<1>3. QED  BY <1>1, <1>2, NearestIsExact DEF EncodesInteger

LEMMA CellSurvives ==
    ASSUME NEW type, NEW mode \in IntegerModes, NEW n \in Int,
           NEW v \in ParseCell(IntegerCell(n), type, mode), v # Thrown,
           EncodeLeaf(v) # Refused
    PROVE  EncodeLeaf(v) \in {<<"token", n>>, String(n)}
<1> DEFINE cell == IntegerCell(n)
<1>1. cell # NullCell /\ cell[1] = "integer" /\ cell[2] = n
  BY DEF IntegerCell, NullCell
<1>2. EncodeLeaf(String(n)) = String(n)  BY DEF EncodeLeaf, String
<1>3. CASE type = "string"
  <2>1. v = String(n)  BY <1>1, <1>3 DEF ParseCell
  <2>2. QED  BY <1>2, <2>1
<1>4. CASE type \in {"int", "uint"}
  <2>1. v \in ParseInteger(n, type, mode)  BY <1>1, <1>4 DEF ParseCell
  <2>2. CASE mode = "bigint"
    <3>1. v = BigInt(n)  BY <2>1, <2>2 DEF ParseInteger
    <3>2. QED  BY <3>1 DEF EncodeLeaf, BigInt
  <2>3. CASE mode = "number"
    <3>1. PICK m \in Nearest(n) : v = Number(m)  BY <2>1, <2>3 DEF ParseInteger
    <3>2. QED  BY <3>1, NumberSurvives
  <2>4. CASE mode = "string"
    <3>1. v = String(n)  BY <2>1, <2>4 DEF ParseInteger
    <3>2. QED  BY <1>2, <3>1
  <2>5. QED  BY <2>2, <2>3, <2>4 DEF IntegerModes
<1>5. CASE type = "float"
  <2>1. v \in ParseFloat(cell)  BY <1>1, <1>5 DEF ParseCell
  <2>2. PICK m \in Nearest(n) : v = Number(m)  BY <1>1, <2>1 DEF ParseFloat
  <2>3. QED  BY <2>2, NumberSurvives
<1>6. CASE type \notin {"string", "int", "uint", "float"}
  <2>1. v = Thrown  BY <1>1, <1>6 DEF ParseCell
  <2>2. QED  BY <2>1
<1>7. QED  BY <1>3, <1>4, <1>5, <1>6

(* Columns of different names are all kept. *)
LEMMA NoColumnLost ==
    ASSUME NEW fields \in Seq([name : STRING, type : STRING]), NEW values,
           UniqueFieldNames(fields)
    PROVE  RowObject(fields, values) = [k \in DOMAIN fields |-> values[k]]
<1>1. \A j, k \in DOMAIN fields : j > k => fields[j].name # fields[k].name
  <2>1. DOMAIN fields = 1 .. Len(fields) /\ Len(fields) \in Nat  OBVIOUS
  <2>2. QED  BY <2>1 DEF UniqueFieldNames
<1>2. {k \in DOMAIN fields : \A j \in DOMAIN fields : j > k => fields[j].name # fields[k].name}
        = DOMAIN fields
  BY <1>1
<1>3. QED  BY <1>2 DEF RowObject

(* What the program holds was read from its row. *)
CopyInv ==
    /\ result \in Results
    /\ stage \in {"reading", "sending", "done", "threw"}
    /\ stage = "sending" =>
         \E values \in ParseRow(result.fields, result.row, result.mode) :
             /\ UniqueFieldNames(result.fields)
             /\ \A k \in DOMAIN values : values[k] # Thrown
             /\ object = RowObject(result.fields, values)
    /\ IntegersSurvive

LEMMA SendKeepsIntegers ==
    ASSUME CopyInv, SendObject
    PROVE  IntegersSurvive'
<1> DEFINE row == result.row
           fields == result.fields
           codes == [k \in DOMAIN object |-> EncodeLeaf(object[k])]
<1>1. result' = result /\ stage = "sending"  BY DEF SendObject
<1>2. CASE EncodeFlat(object) = Refused
  BY <1>2 DEF SendObject, IntegersSurvive
<1>3. CASE EncodeFlat(object) # Refused
  <2>1. /\ fields \in Seq([name : STRING, type : STRING])
        /\ row \in Seq(STRING \X Int)
        /\ result.mode \in IntegerModes
    BY ResultsAssumption DEF CopyInv
  <2>2. PICK values \in ParseRow(fields, row, result.mode) :
           /\ UniqueFieldNames(fields)
           /\ \A k \in DOMAIN values : values[k] # Thrown
           /\ object = RowObject(fields, values)
    BY <1>1 DEF CopyInv
  <2>3. object = [k \in DOMAIN fields |-> values[k]]
    BY <2>1, <2>2, NoColumnLost
  <2>4. Len(row) = Len(fields)
    <3>1. SUFFICES ASSUME Len(row) # Len(fields) PROVE FALSE  OBVIOUS
    <3>2. values = <<Thrown>>  BY <2>2, <3>1 DEF ParseRow
    <3>3. 1 \in DOMAIN values /\ values[1] = Thrown  BY <3>2
    <3>4. QED  BY <2>2, <3>3
  <2>5. DOMAIN fields = DOMAIN row
    BY <2>1, <2>4
  <2>6. /\ DOMAIN values = DOMAIN row
        /\ \A k \in DOMAIN row : values[k] \in ParseCell(row[k], fields[k].type, result.mode)
    BY <2>2, <2>4 DEF ParseRow
  <2>7. \A k \in DOMAIN codes : codes[k] # Refused
    BY <1>3 DEF EncodeFlat, EncodeObject
  <2>8. document' = <<"plain", codes>>
    <3>1. document' = EncodeFlat(object)  BY <1>3 DEF SendObject
    <3>2. QED  BY <1>3, <3>1 DEF EncodeFlat, EncodeObject
  <2>9. document'[2] = codes /\ DOMAIN codes = DOMAIN row
    BY <2>3, <2>5, <2>8
  <2>10. ASSUME NEW k \in DOMAIN row, row[k][1] = "integer"
         PROVE  codes[k] \in {<<"token", row[k][2]>>, String(row[k][2])}
    <3>1. row[k][2] \in Int /\ row[k] = IntegerCell(row[k][2])
      <4>1. row[k] \in STRING \X Int  BY <2>1, <2>10
      <4>2. QED  BY <4>1, <2>10 DEF IntegerCell
    <3>2. codes[k] = EncodeLeaf(values[k])  BY <2>3, <2>5, <2>10
    <3>3. EncodeLeaf(values[k]) # Refused  BY <2>7, <2>9, <2>10, <3>2
    <3>4. values[k] # Thrown  BY <2>2, <2>6, <2>10
    <3>5. values[k] \in ParseCell(IntegerCell(row[k][2]), fields[k].type, result.mode)
      BY <2>6, <2>10, <3>1
    <3>6. QED  BY <2>1, <3>1, <3>2, <3>3, <3>4, <3>5, CellSurvives
  <2>11. QED  BY <1>1, <2>9, <2>10 DEF IntegersSurvive
<1>4. QED  BY <1>2, <1>3

LEMMA CopyInvInductive == CopySpec => []CopyInv
<1>1. CopyInit => CopyInv
  BY DEF CopyInit, CopyInv, IntegersSurvive
<1>2. CopyInv /\ [CopyNext]_copyVars => CopyInv'
  <2>1. ASSUME CopyInv, ReadRow PROVE CopyInv'
    <3>1. stage' \in {"sending", "threw"} /\ result' = result  BY <2>1 DEF ReadRow
    <3>2. stage' = "sending" =>
            \E values \in ParseRow(result.fields, result.row, result.mode) :
                /\ UniqueFieldNames(result.fields)
                /\ \A k \in DOMAIN values : values[k] # Thrown
                /\ object' = RowObject(result.fields, values)
      BY <2>1 DEF ReadRow
    <3>3. QED  BY <2>1, <3>1, <3>2 DEF CopyInv, IntegersSurvive
  <2>2. ASSUME CopyInv, SendObject PROVE CopyInv'
    <3>1. stage' \in {"done", "threw"} /\ result' = result  BY <2>2 DEF SendObject
    <3>2. QED  BY <2>2, <3>1, SendKeepsIntegers DEF CopyInv
  <2>3. ASSUME CopyInv, UNCHANGED copyVars PROVE CopyInv'
    BY <2>3 DEF CopyInv, IntegersSurvive, copyVars
  <2>4. QED  BY <2>1, <2>2, <2>3 DEF CopyNext
<1>3. QED  BY <1>1, <1>2, PTL DEF CopySpec

(* No integer changes between a result and a table, for every width of     *)
(* numbers and bigints, every type of column and every integer mode        *)
(* (parseInteger() and encode()).                                          *)
THEOREM IntegersAreExact == CopySpec => []IntegersSurvive
<1>1. CopyInv => IntegersSurvive  BY DEF CopyInv
<1>2. QED  BY <1>1, CopyInvInductive, PTL
=============================================================================
