--------------------------- MODULE WebhooksProofs ---------------------------
(***************************************************************************)
(* Theorems about Webhooks: type correctness with the bound on attempts,   *)
(* the serialisation of POSTs by the row lock, and that the death of       *)
(* workers strands no unfinished delivery.                                 *)
(***************************************************************************)
EXTENDS Webhooks, TLAPS

\* A row that may still be attempted has an attempt left, and one that waits to
\* be retried has a next_retry_at.
SoundRow(r) ==
  /\ r.status = "none" => r.attempts = 0
  /\ r.status \in {"pending", "retrying"} => r.attempts <= Backoffs
  /\ r.status = "retrying" => r.due # NULL

\* A worker past its read holds a row with an attempt left, and its lock from
\* the flush on; an operator's retry starts the count over and may hold none.
SoundWorker(x) ==
  /\ x.kind = "task" \/ x.pc \in {"read", "flush", "post", "commit"} => x.d \in Deliveries
  /\ x.pc \in {"flush", "post", "commit"} /\ x.kind # "manual" => x.seen.attempts <= Backoffs
  /\ x.pc \in {"post", "commit"} /\ x.kind # "manual" => x.locked
  /\ x.locked => x.pc \in {"post", "commit"}

Rows == \A d \in Deliveries : SoundRow(row[d])
Slots == \A w \in Workers : SoundWorker(worker[w])

\* A row lock has one holder.
OneHolder ==
  \A v, w \in Workers : v # w /\ worker[v].locked /\ worker[w].locked => worker[v].d # worker[w].d

IInv == TypeOK /\ Rows /\ Slots /\ OneHolder

\* What an attempt writes is a row, whose count has not passed the maximum.
LEMMA OutcomeSound ==
  ASSUME NEW r \in Row, NEW seen \in Row, NEW n \in 1 .. MaxAttempts, NEW ok \in BOOLEAN
  PROVE  Outcome(r, seen, n, ok) \in Row /\ SoundRow(Outcome(r, seen, n, ok))
  BY BackoffsAssumption, NullAssumption DEF Outcome, NextRetryAt, Row, SoundRow, Statuses, Terminal, MaxAttempts

LEMMA NoRowSound == NoRow \in Row /\ SoundRow(NoRow)
  BY BackoffsAssumption DEF NoRow, Row, SoundRow, Statuses, MaxAttempts

LEMMA IdleSound == Idle \in WorkerType /\ SoundWorker(Idle) /\ ~Idle.locked
  BY NoRowSound DEF Idle, WorkerType, SoundWorker

\* A worker that is done with its row holds no lock.
LEMMA FinishedSound ==
  ASSUME IInv, NEW w \in Workers
  PROVE  Finished(w) \in WorkerType /\ SoundWorker(Finished(w)) /\ ~Finished(w).locked
  <1>1. worker[w] \in WorkerType /\ SoundWorker(worker[w])  BY DEF IInv, TypeOK, Slots
  <1>2. CASE worker[w].kind = "sweep"
    BY <1>1, <1>2, NoRowSound DEF Finished, Idle, WorkerType, SoundWorker
  <1>3. CASE worker[w].kind = "task"
    BY <1>1, <1>3, NoRowSound DEF Finished, Idle, WorkerType, SoundWorker
  <1>4. CASE worker[w].kind \notin {"sweep", "task"}
    BY <1>4, IdleSound DEF Finished
  <1> QED  BY <1>2, <1>3, <1>4

\* A step that changes one worker keeps the slots sound, if it takes a lock only
\* when it is free or already its own.
LEMMA WorkerStep ==
  ASSUME IInv, NEW w \in Workers, NEW x \in WorkerType, SoundWorker(x), Set(w, x),
         x.locked => ~Locked(x.d) \/ (worker[w].locked /\ worker[w].d = x.d)
  PROVE  worker' \in [Workers -> WorkerType] /\ Slots' /\ OneHolder'
  <1>1. worker \in [Workers -> WorkerType]  BY DEF IInv, TypeOK
  <1>2. worker' = [worker EXCEPT ![w] = x]  BY DEF Set
  <1>3. worker' \in [Workers -> WorkerType]  BY <1>1, <1>2
  <1>4. Slots'  BY <1>1, <1>2 DEF IInv, Slots, SoundWorker
  <1>5. OneHolder'
    <2> SUFFICES ASSUME NEW u \in Workers, NEW v \in Workers, u # v, worker'[u].locked, worker'[v].locked
                 PROVE  worker'[u].d # worker'[v].d
      BY DEF OneHolder
    <2>1. CASE u # w /\ v # w  BY <1>1, <1>2, <2>1 DEF IInv, OneHolder
    <2>2. CASE u = w  BY <1>1, <1>2, <2>2 DEF IInv, OneHolder, Locked
    <2>3. CASE v = w  BY <1>1, <1>2, <2>3 DEF IInv, OneHolder, Locked
    <2> QED  BY <2>1, <2>2, <2>3
  <1> QED  BY <1>3, <1>4, <1>5

LEMMA RowStep ==
  ASSUME IInv, NEW d \in Deliveries, NEW r \in Row, SoundRow(r), row' = [row EXCEPT ![d] = r]
  PROVE  row' \in [Deliveries -> Row] /\ Rows'
  BY DEF IInv, TypeOK, Rows, SoundRow

LEMMA Initially == Init => IInv
  BY NoRowSound, IdleSound DEF Init, IInv, TypeOK, Rows, Slots, OneHolder

LEMMA Preserved == IInv /\ [Next]_vars => IInv'
  <1> SUFFICES ASSUME IInv, [Next]_vars PROVE IInv'  OBVIOUS
  <1>t. TypeOK /\ Rows /\ Slots /\ OneHolder  BY DEF IInv
  <1>b. ASSUME NEW k \in {"crash", "manual"}, Spend(k)
        PROVE  budget' \in [{"crash", "manual"} -> Nat]
    BY <1>t, <1>b DEF TypeOK, Spend
  <1>1. ASSUME NEW d \in Deliveries, FanOut(d) PROVE IInv'
    <2>1. [row[d] EXCEPT !.status = "pending"] \in Row /\ SoundRow([row[d] EXCEPT !.status = "pending"])
      BY <1>1, <1>t, BackoffsAssumption DEF FanOut, TypeOK, Rows, Row, Statuses, SoundRow
    <2>2. row' = [row EXCEPT ![d] = [row[d] EXCEPT !.status = "pending"]]
      BY <1>1, <1>t DEF FanOut, TypeOK
    <2>3. row' \in [Deliveries -> Row] /\ Rows'  BY <2>1, <2>2, RowStep
    <2> QED  BY <1>1, <1>t, <2>3 DEF FanOut, IInv, TypeOK, Slots, OneHolder
  <1>2. ASSUME NEW d \in Deliveries, Dispatch(d) PROVE IInv'
    BY <1>2, <1>t DEF Dispatch, IInv, TypeOK, Rows, Slots, OneHolder
  <1>3. ASSUME NEW d \in Deliveries, DispatchLost(d) PROVE IInv'
    BY <1>3, <1>t DEF DispatchLost, IInv, TypeOK, Rows, Slots, OneHolder
  <1>4. ASSUME NEW d \in Deliveries, DeleteEndpoint(d) PROVE IInv'
    <2>1. [NoRow EXCEPT !.status = "gone"] \in Row /\ SoundRow([NoRow EXCEPT !.status = "gone"])
      BY NoRowSound DEF NoRow, Row, Statuses, SoundRow
    <2>2. row' \in [Deliveries -> Row] /\ Rows'  BY <1>4, <2>1, RowStep DEF DeleteEndpoint
    <2> QED  BY <1>4, <1>t, <2>2 DEF DeleteEndpoint, IInv, TypeOK, Slots, OneHolder
  <1>5. ASSUME NEW d \in Deliveries, NEW ok \in BOOLEAN, TestEvent(d, ok) PROVE IInv'
    <2>1. 1 \in 1 .. MaxAttempts  BY BackoffsAssumption DEF MaxAttempts
    <2>2. Outcome(NoRow, NoRow, 1, ok) \in Row /\ SoundRow(Outcome(NoRow, NoRow, 1, ok))
      BY <2>1, NoRowSound, OutcomeSound
    <2>3. row' \in [Deliveries -> Row] /\ Rows'  BY <1>5, <2>2, RowStep DEF TestEvent
    <2> QED  BY <1>5, <1>t, <2>3 DEF TestEvent, IInv, TypeOK, Slots, OneHolder
  <1>6. ASSUME NEW d \in Deliveries, Elapse(d) PROVE IInv'
    <2>1. [row[d] EXCEPT !.due = "due"] \in Row /\ SoundRow([row[d] EXCEPT !.due = "due"])
      BY <1>6, <1>t, NullAssumption DEF Elapse, TypeOK, Rows, Row, SoundRow
    <2>2. row' = [row EXCEPT ![d] = [row[d] EXCEPT !.due = "due"]]  BY <1>6, <1>t DEF Elapse, TypeOK
    <2>3. row' \in [Deliveries -> Row] /\ Rows'  BY <2>1, <2>2, RowStep
    <2> QED  BY <1>6, <1>t, <2>3 DEF Elapse, IInv, TypeOK, Slots, OneHolder
  <1>7. ASSUME NEW w \in Workers, NEW d \in Deliveries, Take(w, d) PROVE IInv'
    <2> DEFINE x == [Idle EXCEPT !.kind = "task", !.pc = "read", !.d = d]
    <2>1. x \in WorkerType /\ SoundWorker(x) /\ ~x.locked
      BY IdleSound DEF Idle, WorkerType, SoundWorker
    <2>2. Set(w, x)  BY <1>7 DEF Take
    <2>3. worker' \in [Workers -> WorkerType] /\ Slots' /\ OneHolder'
      <3> HIDE DEF x
      <3> QED  BY <2>1, <2>2, WorkerStep
    <2>4. queue' \in [Deliveries -> Nat]  BY <1>7, <1>t DEF Take, TypeOK
    <2> QED  BY <1>7, <1>t, <2>3, <2>4 DEF Take, IInv, TypeOK, Rows
  <1>8. ASSUME NEW w \in Workers, Sweep(w) PROVE IInv'
    <2> DEFINE x == [Idle EXCEPT !.kind = "sweep", !.pc = "next", !.todo = DueRows]
    <2>1. x \in WorkerType /\ SoundWorker(x) /\ ~x.locked
      BY IdleSound DEF Idle, WorkerType, SoundWorker, DueRows
    <2>2. Set(w, x)  BY <1>8 DEF Sweep
    <2>3. worker' \in [Workers -> WorkerType] /\ Slots' /\ OneHolder'
      <3> HIDE DEF x
      <3> QED  BY <2>1, <2>2, WorkerStep
    <2> QED  BY <1>8, <1>t, <2>3 DEF Sweep, IInv, TypeOK, Rows
  <1>9. ASSUME NEW w \in Workers, NEW d \in Deliveries, ManualRetry(w, d) PROVE IInv'
    <2> DEFINE x == [Idle EXCEPT !.kind = "manual", !.pc = "flush", !.d = d, !.seen = row[d]]
    <2>1. x \in WorkerType /\ SoundWorker(x) /\ ~x.locked
      BY <1>t, IdleSound DEF TypeOK, Idle, WorkerType, SoundWorker
    <2>2. Set(w, x)  BY <1>9 DEF ManualRetry
    <2>3. worker' \in [Workers -> WorkerType] /\ Slots' /\ OneHolder'
      <3> HIDE DEF x
      <3> QED  BY <2>1, <2>2, WorkerStep
    <2> QED  BY <1>9, <1>t, <1>b, <2>3 DEF ManualRetry, IInv, TypeOK, Rows
  <1>10. ASSUME NEW w \in Workers, Crash(w) PROVE IInv'
    <2>1. worker' \in [Workers -> WorkerType] /\ Slots' /\ OneHolder'
      BY <1>10, IdleSound, WorkerStep DEF Crash
    <2>2. queue' \in [Deliveries -> Nat]  BY <1>10, <1>t DEF Crash, TypeOK, Slots, SoundWorker
    <2> QED  BY <1>10, <1>t, <1>b, <2>1, <2>2 DEF Crash, IInv, TypeOK, Rows
  <1>13. ASSUME NEW w \in Workers, Raise(w) PROVE IInv'
    <2>1. worker' \in [Workers -> WorkerType] /\ Slots' /\ OneHolder'
      BY <1>13, IdleSound, WorkerStep DEF Raise
    <2>2. lost' \subseteq Deliveries  BY <1>13, <1>t DEF Raise, TypeOK, Slots, SoundWorker
    <2> QED  BY <1>13, <1>t, <1>b, <2>1, <2>2 DEF Raise, IInv, TypeOK, Rows
  <1>11. ASSUME NEW w \in Workers, Working(w) PROVE IInv'
    <2>t. worker[w] \in WorkerType /\ SoundWorker(worker[w])  BY <1>t DEF TypeOK, Slots
    <2>f. Finished(w) \in WorkerType /\ SoundWorker(Finished(w)) /\ ~Finished(w).locked
      BY FinishedSound
    <2>1. CASE SweepNext(w)
      <3>1. CASE worker[w].todo = {} /\ Set(w, Idle)
        <4>1. worker' \in [Workers -> WorkerType] /\ Slots' /\ OneHolder'  BY <3>1, IdleSound, WorkerStep
        <4> QED  BY <2>1, <1>t, <4>1 DEF SweepNext, IInv, TypeOK, Rows
      <3>2. ASSUME NEW d \in worker[w].todo,
                   Set(w, [worker[w] EXCEPT !.todo = @ \ {d}, !.d = d, !.pc = "read"])
            PROVE  IInv'
        <4> DEFINE x == [worker[w] EXCEPT !.todo = @ \ {d}, !.d = d, !.pc = "read"]
        <4>1. d \in Deliveries  BY <2>t DEF WorkerType
        <4>2. worker[w].pc = "next" /\ ~worker[w].locked
          BY <2>1, <2>t DEF SweepNext, SoundWorker
        <4>3. x \in WorkerType /\ SoundWorker(x) /\ ~x.locked
          BY <2>t, <4>1, <4>2 DEF WorkerType, SoundWorker
        <4>4. Set(w, x)  BY <3>2
        <4>5. worker' \in [Workers -> WorkerType] /\ Slots' /\ OneHolder'
          <5> HIDE DEF x
          <5> QED  BY <4>3, <4>4, WorkerStep
        <4> QED  BY <2>1, <1>t, <4>5 DEF SweepNext, IInv, TypeOK, Rows
      <3> QED  BY <2>1, <3>1, <3>2 DEF SweepNext
    <2>2. CASE Read(w)
      <3> DEFINE x == [worker[w] EXCEPT !.seen = row[worker[w].d], !.pc = "flush"]
      <3>1. worker[w].d \in Deliveries /\ ~worker[w].locked  BY <2>2, <2>t DEF Read, SoundWorker
      <3>2. CASE Exists(worker[w].d) /\ row[worker[w].d].status \notin Terminal
        <4>1. row[worker[w].d] \in Row /\ row[worker[w].d].attempts <= Backoffs
          BY <3>1, <3>2, <1>t DEF TypeOK, Rows, SoundRow, Row, Exists, Statuses
        <4>2. x \in WorkerType /\ SoundWorker(x) /\ ~x.locked
          BY <2>t, <3>1, <4>1 DEF WorkerType, SoundWorker
        <4>3. Set(w, x)  BY <2>2, <3>2 DEF Read
        <4>4. worker' \in [Workers -> WorkerType] /\ Slots' /\ OneHolder'
          <5> HIDE DEF x
          <5> QED  BY <4>2, <4>3, WorkerStep
        <4> QED  BY <2>2, <1>t, <4>4 DEF Read, IInv, TypeOK, Rows
      <3>3. CASE ~(Exists(worker[w].d) /\ row[worker[w].d].status \notin Terminal)
        <4>1. Set(w, Finished(w))  BY <2>2, <3>3 DEF Read
        <4>2. worker' \in [Workers -> WorkerType] /\ Slots' /\ OneHolder'  BY <2>f, <4>1, WorkerStep
        <4> QED  BY <2>2, <1>t, <4>2 DEF Read, IInv, TypeOK, Rows
      <3> QED  BY <3>2, <3>3
    <2>3. CASE Flush(w)
      <3> DEFINE x(held) == [worker[w] EXCEPT !.pc = "post", !.locked = held]
      <3>1. worker[w].d \in Deliveries /\ ~worker[w].locked  BY <2>3, <2>t DEF Flush, SoundWorker
      <3>2. PICK held \in BOOLEAN : /\ Set(w, x(held))
                                    /\ held => ~Locked(worker[w].d)
                                    /\ worker[w].kind # "manual" => held
        <4>1. CASE NothingToFlush(w)
          <5>1. Set(w, [worker[w] EXCEPT !.pc = "post"])  BY <2>3, <4>1 DEF Flush
          <5>2. [worker[w] EXCEPT !.pc = "post"] = x(FALSE)  BY <2>t, <3>1 DEF WorkerType
          <5> QED  BY <4>1, <5>1, <5>2 DEF NothingToFlush
        <4>2. CASE ~NothingToFlush(w)
          BY <2>3, <4>2 DEF Flush
        <4> QED  BY <4>1, <4>2
      <3>3. x(held) \in WorkerType /\ SoundWorker(x(held)) /\ x(held).d = worker[w].d /\ x(held).locked = held
        BY <2>3, <2>t, <3>1, <3>2 DEF Flush, WorkerType, SoundWorker
      <3>4. worker' \in [Workers -> WorkerType] /\ Slots' /\ OneHolder'
        <4> HIDE DEF x
        <4> QED  BY <3>2, <3>3, WorkerStep
      <3> QED  BY <2>3, <1>t, <3>4 DEF Flush, IInv, TypeOK, Rows
    <2>4. ASSUME NEW ok \in BOOLEAN, Post(w, ok) PROVE IInv'
      <3> DEFINE x == [worker[w] EXCEPT !.pc = "commit", !.ok = ok]
      <3>1. worker[w].d \in Deliveries  BY <2>4, <2>t DEF Post, SoundWorker
      <3>2. x \in WorkerType /\ SoundWorker(x) /\ x.d = worker[w].d /\ x.locked = worker[w].locked
        BY <2>4, <2>t DEF Post, WorkerType, SoundWorker
      <3>3. Set(w, x)  BY <2>4 DEF Post
      <3>4. worker' \in [Workers -> WorkerType] /\ Slots' /\ OneHolder'
        <4> HIDE DEF x
        <4> QED  BY <3>2, <3>3, WorkerStep
      <3> QED  BY <2>4, <1>t, <3>1, <3>4 DEF Post, IInv, TypeOK, Rows
    <2>5. CASE Commit(w)
      <3> DEFINE d == worker[w].d
      <3>1. d \in Deliveries /\ worker[w].ok \in BOOLEAN /\ worker[w].seen \in Row /\ row[d] \in Row
        BY <2>5, <2>t, <1>t DEF Commit, SoundWorker, WorkerType, TypeOK
      <3>2. Attempts(w) \in 1 .. MaxAttempts
        BY <2>5, <2>t, <3>1, BackoffsAssumption DEF Commit, Attempts, SoundWorker, Row, MaxAttempts
      <3> DEFINE r == Outcome(row[d], worker[w].seen, Attempts(w), worker[w].ok)
      <3>3. r \in Row /\ SoundRow(r)  BY <3>1, <3>2, OutcomeSound
      <3>4. row' = [row EXCEPT ![d] = r]  BY <2>5, <3>1, <1>t DEF Commit, TypeOK
      <3>5. row' \in [Deliveries -> Row] /\ Rows'
        <4> HIDE DEF r, d
        <4> QED  BY <3>1, <3>3, <3>4, RowStep
      <3>6. worker' \in [Workers -> WorkerType] /\ Slots' /\ OneHolder'
        BY <2>5, <2>f, WorkerStep DEF Commit
      <3> QED  BY <2>5, <1>t, <3>5, <3>6 DEF Commit, IInv, TypeOK
    <2>6. CASE Ack(w) \/ Stale(w)
      <3>1. Set(w, Idle)  BY <2>6 DEF Ack, Stale
      <3>2. worker' \in [Workers -> WorkerType] /\ Slots' /\ OneHolder'  BY <3>1, IdleSound, WorkerStep
      <3> QED  BY <2>6, <1>t, <3>2 DEF Ack, Stale, IInv, TypeOK, Rows
    <2> QED  BY <1>11, <2>1, <2>2, <2>3, <2>4, <2>5, <2>6 DEF Working
  <1>12. CASE UNCHANGED vars
    BY <1>12, <1>t DEF vars, IInv, TypeOK, Rows, Slots, OneHolder
  <1> QED
    BY <1>1, <1>2, <1>3, <1>4, <1>5, <1>6, <1>7, <1>8, <1>9, <1>10, <1>11, <1>12, <1>13 DEF Next

THEOREM Invariant == Spec => []IInv
  BY Initially, Preserved, PTL DEF Spec

\* Type correctness: whatever workers, crashes and manual retries, no row counts
\* more attempts than RETRY_SCHEDULE allows (webhooks_service.MAX_ATTEMPTS).
THEOREM Typing == Spec => []TypeOK
  <1>1. IInv => TypeOK  BY DEF IInv
  <1> QED  BY <1>1, Invariant, PTL

\* The flush of "delivering" in _deliver serialises the POSTs of a delivery.
THEOREM PostsAreSerial == Spec => []SerialPosts
  <1>1. IInv => SerialPosts  BY DEF IInv, Slots, SoundWorker, OneHolder, SerialPosts, Posting
  <1> QED  BY <1>1, Invariant, PTL

-----------------------------------------------------------------------------
(* No death of a worker strands a delivery *)

\* What is dispatched, queued or held by a task has been inserted, and a task
\* whose message is about to be acknowledged left the row unpending.
Messages ==
  /\ \A d \in Deliveries : d \in dispatching \/ queue[d] > 0 => row[d].status # "none"
  /\ \A w \in Workers : worker[w].kind = "task" =>
       /\ worker[w].pc \notin {"idle", "next"}
       /\ row[worker[w].d].status # "none"
       /\ worker[w].pc = "ack" => row[worker[w].d].status # "pending"

PendingDriven ==
  \A d \in Deliveries : row[d].status = "pending" => d \in dispatching \/ queue[d] > 0 \/ Holds(d) \/ d \in lost

DInv == IInv /\ Messages /\ PendingDriven

\* A step that leaves rows and messages alone and either is no task's or keeps
\* its task holding the same row.
LEMMA KeepStep ==
  ASSUME DInv, NEW w \in Workers, NEW x, Set(w, x), UNCHANGED <<row, dispatching, queue, lost>>,
         \/ worker[w].kind # "task" /\ x.kind # "task"
         \/ /\ x.kind = worker[w].kind /\ x.d = worker[w].d
            /\ x.pc \notin {"idle", "next"}
            /\ x.pc = "ack" => row[x.d].status # "pending"
  PROVE  Messages' /\ PendingDriven'
  <1>1. worker \in [Workers -> WorkerType]  BY DEF DInv, IInv, TypeOK
  <1>2. worker' = [worker EXCEPT ![w] = x]  BY DEF Set
  <1>3. Messages'  BY <1>1, <1>2 DEF DInv, Messages
  <1>4. ASSUME NEW d \in Deliveries, Holds(d) PROVE Holds(d)'
    BY <1>1, <1>2, <1>4 DEF Holds
  <1>5. PendingDriven'  BY <1>4 DEF DInv, PendingDriven
  <1> QED  BY <1>3, <1>5

\* An attempt leaves the row neither pending nor uninserted.
LEMMA OutcomeStatus ==
  ASSUME NEW r, NEW seen, NEW n, NEW ok
  PROVE  Outcome(r, seen, n, ok).status \notin {"none", "pending"}
  BY DEF Outcome

\* A step that changes one row to one that is neither pending nor uninserted, and
\* no worker, message or dispatch.
LEMMA SettleStep ==
  ASSUME DInv, NEW d \in Deliveries, NEW r, r.status \notin {"none", "pending"},
         row' = [row EXCEPT ![d] = r], UNCHANGED <<dispatching, queue, worker, lost>>
  PROVE  Messages' /\ PendingDriven'
  <1>1. row \in [Deliveries -> Row]  BY DEF DInv, IInv, TypeOK
  <1>2. \A w \in Workers : worker[w].kind = "task" => worker[w].d \in Deliveries
    BY DEF DInv, IInv, Slots, SoundWorker
  <1>3. Messages'  BY <1>1, <1>2 DEF DInv, Messages
  <1>4. PendingDriven'  BY <1>1 DEF DInv, PendingDriven, Holds
  <1> QED  BY <1>3, <1>4

LEMMA DrivenInitially == Init => DInv
  <1>1. Init => Messages  BY DEF Init, Messages, Idle
  <1>2. Init => PendingDriven  BY DEF Init, PendingDriven, NoRow
  <1> QED  BY <1>1, <1>2, Initially DEF DInv

LEMMA DrivenPreserved == DInv /\ [Next]_vars => DInv'
  <1> SUFFICES ASSUME DInv, [Next]_vars PROVE Messages' /\ PendingDriven'
    BY Preserved DEF DInv
  <1>t. IInv /\ TypeOK /\ Messages /\ PendingDriven  BY DEF DInv, IInv
  <1>d. \A w \in Workers : worker[w].kind = "task" => worker[w].d \in Deliveries
    BY <1>t DEF IInv, Slots, SoundWorker
  <1>1. ASSUME NEW d \in Deliveries, FanOut(d) PROVE Messages' /\ PendingDriven'
    BY <1>1, <1>t, <1>d DEF FanOut, TypeOK, Messages, PendingDriven, Holds
  <1>2. ASSUME NEW d \in Deliveries, Dispatch(d) PROVE Messages' /\ PendingDriven'
    BY <1>2, <1>t DEF Dispatch, TypeOK, Messages, PendingDriven, Holds
  <1>3. ASSUME NEW d \in Deliveries, DispatchLost(d) PROVE Messages' /\ PendingDriven'
    BY <1>3, <1>t DEF DispatchLost, TypeOK, Messages, PendingDriven, Holds
  <1>4. ASSUME NEW d \in Deliveries, DeleteEndpoint(d) PROVE Messages' /\ PendingDriven'
    BY <1>4, SettleStep DEF DeleteEndpoint, NoRow
  <1>5. ASSUME NEW d \in Deliveries, NEW ok \in BOOLEAN, TestEvent(d, ok) PROVE Messages' /\ PendingDriven'
    BY <1>5, OutcomeStatus, SettleStep DEF TestEvent
  <1>6. ASSUME NEW d \in Deliveries, Elapse(d) PROVE Messages' /\ PendingDriven'
    <2>1. \A e \in Deliveries : row'[e].status = row[e].status
      BY <1>6, <1>t DEF Elapse, TypeOK, Row
    <2> QED  BY <1>6, <1>t, <1>d, <2>1 DEF Elapse, Messages, PendingDriven, Holds
  <1>7. ASSUME NEW w \in Workers, NEW d \in Deliveries, Take(w, d) PROVE Messages' /\ PendingDriven'
    <2> DEFINE x == [Idle EXCEPT !.kind = "task", !.pc = "read", !.d = d]
    <2>1. worker' = [worker EXCEPT ![w] = x] /\ worker \in [Workers -> WorkerType]
      BY <1>7, <1>t DEF Take, Set, TypeOK
    <2>2. x.kind = "task" /\ x.pc = "read" /\ x.d = d  BY DEF Idle
    <2>3. worker[w].kind # "task"  BY <1>7, <1>t DEF Take, Messages
    <2>4. queue \in [Deliveries -> Nat] /\ queue[d] > 0 /\ queue' = [queue EXCEPT ![d] = @ - 1]
          /\ UNCHANGED <<row, dispatching, lost>>
      BY <1>7, <1>t DEF Take, TypeOK
    <2> HIDE DEF x
    <2>5. Messages'  BY <1>t, <2>1, <2>2, <2>4 DEF Messages
    <2>6. Holds(d)'  BY <2>1, <2>2 DEF Holds
    <2>7. ASSUME NEW e \in Deliveries, Holds(e) PROVE Holds(e)'
      BY <2>1, <2>3, <2>7 DEF Holds
    <2>8. PendingDriven'  BY <1>t, <2>4, <2>6, <2>7 DEF PendingDriven
    <2> QED  BY <2>5, <2>8
  <1>8. ASSUME NEW w \in Workers, Sweep(w) PROVE Messages' /\ PendingDriven'
    <2> DEFINE x == [Idle EXCEPT !.kind = "sweep", !.pc = "next", !.todo = DueRows]
    <2>1. x.kind # "task" /\ worker[w].kind # "task"  BY <1>8, <1>t DEF Sweep, Messages, Idle
    <2>2. Set(w, x) /\ UNCHANGED <<row, dispatching, queue, lost>>  BY <1>8 DEF Sweep
    <2> HIDE DEF x
    <2> QED  BY <2>1, <2>2, KeepStep
  <1>9. ASSUME NEW w \in Workers, NEW d \in Deliveries, ManualRetry(w, d) PROVE Messages' /\ PendingDriven'
    <2> DEFINE x == [Idle EXCEPT !.kind = "manual", !.pc = "flush", !.d = d, !.seen = row[d]]
    <2>1. x.kind # "task" /\ worker[w].kind # "task"  BY <1>9, <1>t DEF ManualRetry, Messages, Idle
    <2>2. Set(w, x) /\ UNCHANGED <<row, dispatching, queue, lost>>  BY <1>9 DEF ManualRetry
    <2> HIDE DEF x
    <2> QED  BY <2>1, <2>2, KeepStep
  <1>10. ASSUME NEW w \in Workers, Crash(w) PROVE Messages' /\ PendingDriven'
    <2>1. worker' = [worker EXCEPT ![w] = Idle] /\ worker \in [Workers -> WorkerType]
      BY <1>10, <1>t DEF Crash, Set, TypeOK
    <2>2. Idle.kind # "task"  BY DEF Idle
    <2>3. UNCHANGED <<row, dispatching, lost>>  BY <1>10 DEF Crash
    <2>4. queue \in [Deliveries -> Nat]  BY <1>t DEF TypeOK
    <2>5. CASE worker[w].kind = "task"
      <3>1. queue' = [queue EXCEPT ![worker[w].d] = @ + 1] /\ worker[w].d \in Deliveries
        BY <1>10, <1>d, <2>5 DEF Crash
      <3>2. Messages'  BY <1>t, <2>1, <2>2, <2>3, <2>4, <2>5, <3>1 DEF Messages
      <3>3. ASSUME NEW e \in Deliveries, Holds(e) PROVE Holds(e)' \/ e = worker[w].d
        BY <2>1, <3>3 DEF Holds
      <3>4. PendingDriven'  BY <1>t, <2>3, <2>4, <3>1, <3>3 DEF PendingDriven
      <3> QED  BY <3>2, <3>4
    <2>6. CASE worker[w].kind # "task"
      BY <1>10, <2>2, <2>6, KeepStep DEF Crash
    <2> QED  BY <2>5, <2>6
  <1>13. ASSUME NEW w \in Workers, Raise(w) PROVE Messages' /\ PendingDriven'
    <2>1. worker' = [worker EXCEPT ![w] = Idle] /\ worker \in [Workers -> WorkerType]
      BY <1>13, <1>t DEF Raise, Set, TypeOK
    <2>2. Idle.kind # "task"  BY DEF Idle
    <2>3. UNCHANGED <<row, dispatching, queue>>  BY <1>13 DEF Raise
    <2>4. Messages'  BY <1>t, <2>1, <2>2, <2>3 DEF Messages
    <2>5. ASSUME NEW e \in Deliveries, Holds(e) \/ e \in lost PROVE Holds(e)' \/ e \in lost'
      BY <1>13, <2>1, <2>5 DEF Raise, Holds
    <2>6. PendingDriven'  BY <1>t, <2>3, <2>5 DEF PendingDriven
    <2> QED  BY <2>4, <2>6
  <1>11. ASSUME NEW w \in Workers, Working(w) PROVE Messages' /\ PendingDriven'
    <2>t. worker[w] \in WorkerType  BY <1>t DEF TypeOK
    <2>f. /\ worker[w].kind = "task" => /\ Finished(w).kind = "task"
                                        /\ Finished(w).d = worker[w].d
                                        /\ Finished(w).pc = "ack"
          /\ worker[w].kind # "task" => Finished(w).kind # "task"
      BY DEF Finished, Idle
    <2>1. CASE SweepNext(w)
      <3>1. worker[w].kind # "task"  BY <2>1, <1>t DEF SweepNext, Messages
      <3>2. Set(w, worker'[w]) /\ worker'[w].kind # "task"
        <4>1. CASE Set(w, Idle)
          BY <1>t, <4>1 DEF Set, Idle, TypeOK
        <4>2. ASSUME NEW e, Set(w, [worker[w] EXCEPT !.todo = @ \ {e}, !.d = e, !.pc = "read"])
              PROVE  Set(w, worker'[w]) /\ worker'[w].kind # "task"
          <5> DEFINE x == [worker[w] EXCEPT !.todo = @ \ {e}, !.d = e, !.pc = "read"]
          <5>1. Set(w, x) /\ x.kind # "task"  BY <2>t, <3>1, <4>2 DEF WorkerType
          <5> HIDE DEF x
          <5> QED  BY <1>t, <5>1 DEF Set, TypeOK
        <4> QED  BY <2>1, <4>1, <4>2 DEF SweepNext
      <3> QED  BY <2>1, <3>1, <3>2, KeepStep DEF SweepNext
    <2>2. CASE Read(w)
      <3>1. UNCHANGED <<row, dispatching, queue, lost>>  BY <2>2 DEF Read
      <3>2. CASE Exists(worker[w].d) /\ row[worker[w].d].status \notin Terminal
        <4> DEFINE x == [worker[w] EXCEPT !.seen = row[worker[w].d], !.pc = "flush"]
        <4>1. Set(w, x) /\ x.kind = worker[w].kind /\ x.d = worker[w].d /\ x.pc = "flush"
          BY <2>2, <2>t, <3>2 DEF Read, WorkerType
        <4> HIDE DEF x
        <4> QED  BY <3>1, <4>1, KeepStep
      <3>3. CASE ~(Exists(worker[w].d) /\ row[worker[w].d].status \notin Terminal)
        <4>1. Set(w, Finished(w))  BY <2>2, <3>3 DEF Read
        <4>2. row[worker[w].d].status # "pending"  BY <3>3 DEF Exists, Terminal
        <4> QED  BY <2>f, <3>1, <4>1, <4>2, KeepStep
      <3> QED  BY <3>2, <3>3
    <2>3. CASE Flush(w)
      <3>1. /\ Set(w, worker'[w]) /\ worker'[w].pc = "post"
            /\ worker'[w].kind = worker[w].kind /\ worker'[w].d = worker[w].d
        <4>1. CASE Set(w, [worker[w] EXCEPT !.pc = "post"])
          BY <2>t, <1>t, <4>1 DEF Set, WorkerType, TypeOK
        <4>2. CASE Set(w, [worker[w] EXCEPT !.pc = "post", !.locked = TRUE])
          BY <2>t, <1>t, <4>2 DEF Set, WorkerType, TypeOK
        <4> QED  BY <2>3, <4>1, <4>2 DEF Flush
      <3> QED  BY <2>3, <3>1, KeepStep DEF Flush
    <2>4. ASSUME NEW ok \in BOOLEAN, Post(w, ok) PROVE Messages' /\ PendingDriven'
      <3>1. /\ Set(w, worker'[w]) /\ worker'[w].pc = "commit"
            /\ worker'[w].kind = worker[w].kind /\ worker'[w].d = worker[w].d
        BY <2>4, <2>t, <1>t DEF Post, Set, WorkerType, TypeOK
      <3> QED  BY <2>4, <3>1, KeepStep DEF Post
    <2>5. CASE Commit(w)
      <3> DEFINE d == worker[w].d
                 r == Outcome(row[d], worker[w].seen, Attempts(w), worker[w].ok)
      <3>1. d \in Deliveries  BY <2>5, <1>t DEF Commit, IInv, Slots, SoundWorker
      <3>2. r.status \notin {"none", "pending"}  BY OutcomeStatus
      <3>3. row' = [row EXCEPT ![d] = r] /\ row \in [Deliveries -> Row]
        BY <2>5, <3>1, <1>t DEF Commit, TypeOK
      <3>4. worker' = [worker EXCEPT ![w] = Finished(w)] /\ worker \in [Workers -> WorkerType]
            /\ UNCHANGED <<dispatching, queue, lost>>
        BY <2>5, <1>t DEF Commit, Set, TypeOK
      <3>5. d = worker[w].d  OBVIOUS
      <3> HIDE DEF d, r
      <3>6. Messages'  BY <1>t, <1>d, <2>f, <3>1, <3>2, <3>3, <3>4, <3>5 DEF Messages
      <3>7. ASSUME NEW e \in Deliveries, Holds(e) PROVE Holds(e)'
        BY <2>f, <3>4, <3>7 DEF Holds
      <3>8. PendingDriven'  BY <1>t, <3>2, <3>3, <3>4, <3>7 DEF PendingDriven
      <3> QED  BY <3>6, <3>8
    <2>6. CASE Ack(w) \/ Stale(w)
      <3>1. worker' = [worker EXCEPT ![w] = Idle] /\ worker \in [Workers -> WorkerType]
            /\ UNCHANGED <<row, dispatching, queue, lost>>
        BY <2>6, <1>t DEF Ack, Stale, Set, TypeOK
      <3>2. worker[w].kind = "task" => row[worker[w].d].status # "pending"
        BY <2>6, <1>t DEF Ack, Stale, Messages, Exists
      <3>3. Idle.kind # "task"  BY DEF Idle
      <3>4. Messages'  BY <1>t, <3>1, <3>3 DEF Messages
      <3>5. ASSUME NEW e \in Deliveries, Holds(e), row[e].status = "pending" PROVE Holds(e)'
        BY <3>1, <3>2, <3>5 DEF Holds
      <3>6. PendingDriven'  BY <1>t, <3>1, <3>5 DEF PendingDriven
      <3> QED  BY <3>4, <3>6
    <2> QED  BY <1>11, <2>1, <2>2, <2>3, <2>4, <2>5, <2>6 DEF Working
  <1>12. CASE UNCHANGED vars
    BY <1>12, <1>t DEF vars, Messages, PendingDriven, Holds
  <1> QED
    BY <1>1, <1>2, <1>3, <1>4, <1>5, <1>6, <1>7, <1>8, <1>9, <1>10, <1>11, <1>12, <1>13 DEF Next

\* webhooks_service.py's "a worker restart cannot lose a pending delivery": however
\* many workers die and whatever races they run, every unfinished delivery keeps a
\* dispatch, a message, a task or a next_retry_at.  A dispatch that failed and a task
\* that raised are the two exceptions, as AlwaysDriven says; a retrying row has none.
THEOREM DeathsStrandNothing == Spec => []AlwaysDriven
  <1>1. DInv => AlwaysDriven  BY DEF DInv, IInv, Rows, SoundRow, PendingDriven, AlwaysDriven
  <1> QED  BY <1>1, DrivenInitially, DrivenPreserved, PTL DEF Spec
=============================================================================
