--------------------------- MODULE IngestionProofs ---------------------------
(***************************************************************************)
(* Theorems about Ingestion: its state keeps its type, row locks have one  *)
(* holder, and runs that overlap, fail and are delivered again implement   *)
(* SearchIndex, whatever the number of workers, versions and retries.      *)
(***************************************************************************)
EXTENDS Ingestion, FiniteSetTheorems, WellFoundedInduction, TLAPS

\* Tables the run has still to rebuild.
Pending(t) == {t.todo[i] : i \in DOMAIN t.todo}

\* What the stage of a transaction says of its locks and of what is left to do.
Shape(t) ==
  /\ t.todo \in {<<>>, <<Entities>>} \cup {<<v, Entities>> : v \in Versions}
  /\ t.todo # <<>> /\ Head(t.todo) # Entities => Head(t.todo) = t.version
  /\ t.hasJob => t.pc \in {"send", "commit", "pages", "step", "deleting", "insert"}
  /\ t.pc \in {"deleting", "insert"} => t.todo # <<>>
  /\ t.kind # "run" \/ t.pc \in {"send", "commit"} => t.todo = <<>>
  /\ t.pc = "find" => t.version \in Versions
  /\ t.pc \in {"load", "find"} =>
       t.kind = "run" /\ t.todo = <<>> /\ \A x \in Tables : t.new[x] = {} /\ t.gone[x] = {}
  /\ IsFiniteSet(t.snap)

\* A run writes chunks of the version it has read and of no other.  A table is
\* untouched before its turn, and is given one new set of rows at most.
Progressed(t) ==
  \A x \in Tables :
    /\ x \in Versions /\ x # t.version => t.new[x] = {} /\ t.gone[x] = {}
    /\ t.new[x] # {} => \E g \in Nat : t.new[x] = {g}
    /\ x \in Pending(t) => t.new[x] = {} /\ (t.gone[x] = {} \/ (t.pc = "insert" /\ x = Head(t.todo)))

Good(t) == t \in ActType /\ Shape(t) /\ Progressed(t)

\* Whoever has inserted the chunks of a version takes all others of it away, ...
Replaces == \A a \in Actors, v \in Versions : act[a].new[v] # {} => rows[v] \subseteq act[a].gone[v]

\* ... and is the only one: the unique key lets one transaction in at a time.
OneWriter == \A a, b \in Actors, v \in Versions : a # b => act[a].new[v] = {} \/ act[b].new[v] = {}

DocHeldOnce == \A a, b \in Actors : a # b /\ act[a].hasDoc => ~act[b].hasDoc
JobHeldOnce == \A a, b \in Actors : a # b /\ act[a].hasJob /\ act[b].hasJob => act[a].job # act[b].job

\* Of each version one set of chunks is committed, or none.
OneSet == \A v \in Versions : rows[v] = {} \/ \E g \in Nat : rows[v] = {g}

RowsType ==
  /\ rows \in [Tables -> SUBSET Nat] /\ \A x \in Tables : IsFiniteSet(rows[x])
  /\ OneSet
ActsOK ==
  /\ act \in [Actors -> ActType] /\ \A a \in Actors : Good(act[a])
  /\ DocHeldOnce /\ JobHeldOnce /\ Replaces /\ OneWriter
RestOK ==
  /\ doc \in [status : DocStatuses, version : Versions, deleted : BOOLEAN]
  /\ uploaded \subseteq Versions
  /\ jobs \in [Jobs -> JobStatuses]
  /\ queue \in [Messages -> Nat]
  /\ budget \in [{"asked", "crash", "lost"} -> Nat]

IInv == RestOK /\ RowsType /\ ActsOK

LEMMA InvImpliesType == IInv => TypeOK
  BY DEF IInv, RestOK, RowsType, OneSet, ActsOK, DocHeldOnce, JobHeldOnce, TypeOK

-----------------------------------------------------------------------------
(* The helpers *)

\* A set of naturals has a least element.
LEMMA Least ==
  ASSUME NEW T \in SUBSET Nat, T # {}
  PROVE  \E x \in T : \A y \in T : x <= y
<1>1. PICK x \in T : \A y \in T : ~ (<<y, x>> \in OpToRel(<, Nat))
  BY NatLessThanWellFounded, WFMin
<1>2. \A y \in T : ~(y < x)
  BY <1>1 DEF OpToRel
<1>3. QED BY <1>2

\* The latest of the jobs that exist is one of them.
LEMMA MaxIsIn ==
  ASSUME NEW n \in Nat, NEW S \in SUBSET (1 .. n), S # {}
  PROVE  Max(S) \in S
<1> DEFINE T == {n - x : x \in S}
<1>1. \A y \in T : y \in Nat
  OBVIOUS
<1>2. T \in SUBSET Nat /\ T # {}
  BY <1>1
<1>3. PICK d \in T : \A y \in T : d <= y
  <2> HIDE DEF T
  <2>1. QED BY <1>2, Least
<1>4. PICK x \in S : d = n - x
  OBVIOUS
<1>5. \A y \in S : x >= y
  <2> TAKE y \in S
  <2>1. n - y \in T
    OBVIOUS
  <2>2. d <= n - y
    BY <1>3, <2>1
  <2> HIDE DEF T
  <2>3. QED BY <1>4, <2>2
<1>6. QED BY <1>5 DEF Max

LEMMA LatestType == RestOK => Latest = NULL \/ (Latest \in Jobs /\ jobs[Latest] \in JobStatuses)
<1> SUFFICES ASSUME RestOK, \E j \in Jobs : Exists(j)
             PROVE  Latest \in Jobs /\ jobs[Latest] \in JobStatuses
  BY DEF Latest
<1> DEFINE S == {j \in Jobs : Exists(j)}
<1>1. S # {} /\ S \in SUBSET (1 .. MaxAsked + 1) /\ MaxAsked + 1 \in Nat
  BY BoundsAssumption DEF Jobs
<1>2. Max(S) \in S
  <2> HIDE DEF S
  <2>1. QED BY <1>1, MaxIsIn
<1>3. QED BY <1>2 DEF Latest, RestOK

\* There is always an identity for new rows that no transaction has seen.
LEMMA FreshType ==
  ASSUME RowsType, ActsOK, NEW x \in Tables
  PROVE  Fresh(x) \in Nat
<1> DEFINE seen == [a \in Actors |-> act[a].new[x] \cup act[a].snap]
           all == {seen[a] : a \in Actors}
           used == rows[x] \cup UNION {act[a].new[x] \cup act[a].snap : a \in Actors}
           k == Cardinality(used)
<1>1. ASSUME NEW a \in Actors
      PROVE  IsFiniteSet(act[a].snap) /\ IsFiniteSet(act[a].new[x])
  <2>1. Shape(act[a]) /\ Progressed(act[a])
    BY DEF ActsOK, Good
  <2>2. act[a].new[x] = {} \/ \E g \in Nat : act[a].new[x] = {g}
    BY <2>1 DEF Progressed
  <2>3. IsFiniteSet(act[a].new[x])
    BY <2>2, FS_EmptySet, FS_Singleton, Zenon
  <2>4. QED BY <2>1, <2>3 DEF Shape
<1>2. ASSUME NEW s \in all PROVE IsFiniteSet(s)
  <2>1. PICK a \in Actors : s = act[a].new[x] \cup act[a].snap
    OBVIOUS
  <2>2. IsFiniteSet(act[a].new[x] \cup act[a].snap)
    BY <1>1, FS_Union
  <2>3. QED BY <2>1, <2>2
<1>3. seen \in Surjection(Actors, all)
  BY DEF Surjection
<1>4. IsFiniteSet(all)
  <2> HIDE DEF seen, all
  <2>1. QED BY <1>3, FS_Surjection, ActorsAssumption DEF Actors
<1>5. IsFiniteSet(UNION all)
  <2> HIDE DEF all
  <2>1. QED BY <1>2, <1>4, FS_UNION
<1>6. UNION all = UNION {act[a].new[x] \cup act[a].snap : a \in Actors}
  OBVIOUS
<1>7. IsFiniteSet(used)
  BY <1>5, <1>6, FS_Union DEF RowsType
<1>8. k \in Nat
  BY <1>7, FS_CardinalityType
<1>9. \E n \in 0 .. k : n \notin used
  <2> HIDE DEF used, k
  <2> SUFFICES ASSUME (0 .. k) \subseteq used PROVE FALSE
    OBVIOUS
  <2>1. Cardinality(0 .. k) = k + 1
    BY <1>8, FS_Interval
  <2>2. Cardinality(0 .. k) <= Cardinality(used)
    BY <1>7, FS_Subset
  <2>3. QED BY <1>8, <2>1, <2>2 DEF k
<1>10. (CHOOSE n \in 0 .. k : n \notin used) \in 0 .. k
  <2> HIDE DEF used, k
  <2>1. QED BY <1>9
<1>11. QED BY <1>8, <1>10 DEF Fresh

-----------------------------------------------------------------------------
(* What a step does to one transaction *)

\* No other transaction has what this one is about to take.
LEMMA ActStep ==
  ASSUME ActsOK, NEW a \in Actors, NEW t, Good(t), Set(a, t), UNCHANGED rows,
         t.hasDoc => act[a].hasDoc \/ DocFree(a),
         t.hasJob => t.job = act[a].job /\ (act[a].hasJob \/ JobFree(a)),
         \A v \in Versions : t.new[v] # {} =>
           \/ t.new[v] = act[a].new[v] /\ t.gone[v] = act[a].gone[v]
           \/ rows[v] \subseteq t.gone[v] /\ \A b \in Others(a) : act[b].new[v] = {}
  PROVE  ActsOK'
<1>1. act' \in [Actors -> ActType] /\ act'[a] = t /\ \A b \in Others(a) : act'[b] = act[b]
  BY DEF ActsOK, Set, Good, Others
<1>2. \A b \in Actors : b = a \/ b \in Others(a)
  BY DEF Others
<1>3. \A b \in Actors : Good(act'[b])
  BY <1>1, <1>2 DEF ActsOK
<1>4. DocHeldOnce'
  BY <1>1, <1>2 DEF ActsOK, DocHeldOnce, DocFree, Others
<1>5. JobHeldOnce'
  BY <1>1, <1>2 DEF ActsOK, JobHeldOnce, JobFree, Others
<1>6. Replaces'
  BY <1>1, <1>2 DEF ActsOK, Replaces
<1>7. OneWriter'
  BY <1>1, <1>2 DEF ActsOK, OneWriter, Others
<1>8. (\A b \in Actors : Good(act[b]))'
  BY <1>3 DEF Good, Shape, Progressed, Pending
<1>9. QED BY <1>1, <1>4, <1>5, <1>6, <1>7, <1>8 DEF ActsOK

\* A transaction that has rebuilt nothing and has nothing to rebuild.
LEMMA BlankIsGood ==
  ASSUME NEW t \in ActType, t.todo = <<>>, t.snap = {}, ~t.hasJob,
         t.pc \notin {"deleting", "insert", "find"}, t.pc = "load" => t.kind = "run",
         \A x \in Tables : t.new[x] = {} /\ t.gone[x] = {}
  PROVE  Good(t)
  BY FS_EmptySet DEF Good, Shape, Progressed, Pending

\* A step that leaves the tables of a transaction alone.
LEMMA SameTables ==
  ASSUME NEW b, Good(b), NEW t \in ActType,
         t.kind = b.kind, t.todo = b.todo, t.version = b.version, t.new = b.new, t.gone = b.gone,
         IsFiniteSet(t.snap), b.pc # "insert", t.pc \notin {"insert", "find", "load"},
         t.pc = "deleting" => t.todo # <<>>,
         t.pc \in {"send", "commit"} => t.todo = <<>>,
         t.hasJob => t.pc \in {"send", "commit", "pages", "step", "deleting", "insert"}
  PROVE  Good(t)
<1>1. Shape(t)
  BY DEF Good, Shape
<1>2. Progressed(t)
  BY DEF Good, Progressed, Pending
<1>3. QED BY <1>1, <1>2 DEF Good

LEMMA Blanks ==
  /\ <<>> \in Seq(Tables) /\ {} \in SUBSET Nat /\ 0 \in 0 .. MaxRetries
  /\ [x \in Tables |-> {}] \in [Tables -> SUBSET Nat]
  BY BoundsAssumption

\* A transaction that ends or begins anew disturbs nobody.
LEMMA Restart ==
  ASSUME ActsOK, NEW a \in Actors, UNCHANGED rows, NEW t, Set(a, t),
         Good(t), ~t.hasDoc, ~t.hasJob, \A x \in Tables : t.new[x] = {}
  PROVE  ActsOK'
  BY ActStep DEF Tables

LEMMA ToIdle ==
  ASSUME ActsOK, NEW a \in Actors, UNCHANGED rows, Set(a, Idle)
  PROVE  ActsOK'
<1>1. Idle \in ActType
  BY Blanks DEF Idle, ActType
<1>2. /\ Idle.todo = <<>> /\ Idle.snap = {} /\ ~Idle.hasJob /\ ~Idle.hasDoc
      /\ Idle.pc = "idle" /\ \A x \in Tables : Idle.new[x] = {} /\ Idle.gone[x] = {}
  BY DEF Idle
<1>3. QED BY <1>1, <1>2, BlankIsGood, Restart

LEMMA AckGood ==
  ASSUME NEW a \in Actors, act[a] \in ActType
  PROVE  /\ Good(Acking(a)) /\ ~Acking(a).hasDoc /\ ~Acking(a).hasJob
         /\ \A x \in Tables : Acking(a).new[x] = {}
<1>1. act[a].from \in Stages \cup {NULL} /\ act[a].tries \in 0 .. MaxRetries
  BY DEF ActType
<1>2. Acking(a) \in ActType
  BY <1>1, Blanks DEF Acking, Idle, ActType
<1>3. /\ Acking(a).todo = <<>> /\ Acking(a).snap = {} /\ ~Acking(a).hasJob /\ ~Acking(a).hasDoc
      /\ Acking(a).pc = "ack" /\ \A x \in Tables : Acking(a).new[x] = {} /\ Acking(a).gone[x] = {}
  BY DEF Acking, Idle
<1>4. QED BY <1>2, <1>3, BlankIsGood

-----------------------------------------------------------------------------
(* Every step keeps the invariant *)

LEMMA PutType ==
  ASSUME RestOK, NEW from, NEW tries, Put(from, tries)
  PROVE  queue' \in [Messages -> Nat]
<1> DEFINE m == [from |-> from, tries |-> tries]
<1>1. queue' = [queue EXCEPT ![m] = @ + 1] /\ queue \in [Messages -> Nat]
  BY DEF RestOK, Put
<1> HIDE DEF m
<1>2. queue' = [x \in Messages |-> IF x = m THEN queue[x] + 1 ELSE queue[x]]
  BY <1>1
<1>3. \A x \in Messages : (IF x = m THEN queue[x] + 1 ELSE queue[x]) \in Nat
  BY <1>1
<1>4. QED BY <1>2, <1>3

LEMMA AskType ==
  ASSUME RestOK, NEW k \in {"asked", "crash", "lost"}, Ask(k)
  PROVE  budget' \in [{"asked", "crash", "lost"} -> Nat]
  BY DEF RestOK, Ask

\* Each request has a created_at of its own.
LEMMA MoreType ==
  ASSUME RestOK, More
  PROVE  NewJob \in Jobs /\ budget' \in [{"asked", "crash", "lost"} -> Nat]
<1>1. NewJob \in Jobs
  BY BoundsAssumption DEF RestOK, More, NewJob, Jobs
<1>2. QED BY <1>1, AskType DEF More

LEMMA FailedKeeps ==
  ASSUME IInv, NEW a \in Actors, Failed(a), UNCHANGED <<doc, uploaded, jobs, rows>>
  PROVE  IInv'
<1>1. RestOK /\ RowsType /\ ActsOK /\ act[a] \in ActType
  BY DEF IInv, ActsOK
<1>2. queue' \in [Messages -> Nat] /\ budget' \in [{"asked", "crash", "lost"} -> Nat]
  BY <1>1, PutType, AskType DEF Failed, Lost, RestOK
<1>3. ActsOK'
  <2>1. CASE Set(a, Acking(a))
    BY <1>1, <2>1, AckGood, Restart
  <2>2. CASE Set(a, [Acking(a) EXCEPT !.kind = "fail", !.pc = "doc"])
    <3> DEFINE t == [Acking(a) EXCEPT !.kind = "fail", !.pc = "doc"]
    <3>1. t \in ActType
      <4>1. act[a].from \in Stages \cup {NULL} /\ act[a].tries \in 0 .. MaxRetries
        BY <1>1 DEF ActType
      <4>2. QED BY <4>1, Blanks DEF Acking, Idle, ActType
    <3>2. /\ t.todo = <<>> /\ t.snap = {} /\ ~t.hasJob /\ ~t.hasDoc
          /\ t.pc = "doc" /\ \A x \in Tables : t.new[x] = {} /\ t.gone[x] = {}
      BY DEF Acking, Idle
    <3> HIDE DEF t
    <3>3. QED BY <1>1, <2>2, <3>1, <3>2, BlankIsGood, Restart DEF t
  <2>3. QED BY <2>1, <2>2 DEF Failed, Lost
<1>4. QED BY <1>1, <1>2, <1>3 DEF IInv, RestOK, RowsType, OneSet

\* A request begins with nothing to rebuild and no lock.
LEMMA BeginKeeps ==
  ASSUME IInv, NEW r \in Requests, NEW t \in ActType, Begin(r, t),
         t.todo = <<>>, t.snap = {}, ~t.hasDoc, ~t.hasJob, t.pc \in {"doc", "job", "send"},
         \A x \in Tables : t.new[x] = {} /\ t.gone[x] = {}
  PROVE  IInv'
<1>1. RestOK /\ RowsType /\ ActsOK /\ r \in Actors
  BY DEF IInv, Actors
<1>2. ActsOK'
  BY <1>1, BlankIsGood, Restart DEF Begin
<1>3. budget' \in [{"asked", "crash", "lost"} -> Nat]
  BY <1>1, MoreType DEF Begin
<1>4. QED BY <1>1, <1>2, <1>3 DEF IInv, RestOK, RowsType, OneSet, Begin

LEMMA RequestsKeep ==
  ASSUME IInv, NEW r \in Requests,
         Confirm(r) \/ Reprocess(r) \/ \E j \in Jobs : Retry(r, j) \/ Cancel(r, j)
  PROVE  IInv'
<1>1. /\ doc.status \in DocStatuses /\ "ocr" \in Stages
      /\ \A j \in Jobs : jobs[j] \in JobStatuses
  BY StagesAssumption DEF IInv, RestOK
<1>2. CASE Confirm(r)
  <2>1. NewJob \in Jobs
    BY <1>2, MoreType DEF Confirm, Begin, IInv
  <2>2. PICK pc \in DocThen(doc.status, "send") :
          Begin(r, [Idle EXCEPT !.kind = "confirm", !.pc = pc, !.from = "ocr", !.job = NewJob,
                                !.seenDoc = doc.status])
    BY <1>2 DEF Confirm
  <2> DEFINE t == [Idle EXCEPT !.kind = "confirm", !.pc = pc, !.from = "ocr", !.job = NewJob,
                               !.seenDoc = doc.status]
  <2>3. pc \in {"doc", "send"}
    BY DEF DocThen
  <2>4. t \in ActType
    BY <1>1, <2>1, <2>3, Blanks DEF Idle, ActType
  <2>5. /\ t.todo = <<>> /\ t.snap = {} /\ ~t.hasDoc /\ ~t.hasJob /\ t.pc = pc
        /\ \A x \in Tables : t.new[x] = {} /\ t.gone[x] = {}
    BY DEF Idle
  <2> HIDE DEF t
  <2>6. QED BY <2>2, <2>3, <2>4, <2>5, BeginKeeps DEF t
<1>3. CASE Reprocess(r)
  <2>1. NewJob \in Jobs
    BY <1>3, MoreType DEF Reprocess, Begin, IInv
  <2>2. PICK pc \in DocThen(doc.status, "send"), from \in Stages :
          Begin(r, [Idle EXCEPT !.kind = "reprocess", !.pc = pc, !.from = from, !.job = NewJob,
                                !.seenDoc = doc.status])
    BY <1>3 DEF Reprocess
  <2> DEFINE t == [Idle EXCEPT !.kind = "reprocess", !.pc = pc, !.from = from, !.job = NewJob,
                               !.seenDoc = doc.status]
  <2>3. pc \in {"doc", "send"}
    BY DEF DocThen
  <2>4. t \in ActType
    BY <1>1, <2>1, <2>3, Blanks DEF Idle, ActType
  <2>5. /\ t.todo = <<>> /\ t.snap = {} /\ ~t.hasDoc /\ ~t.hasJob /\ t.pc = pc
        /\ \A x \in Tables : t.new[x] = {} /\ t.gone[x] = {}
    BY DEF Idle
  <2> HIDE DEF t
  <2>6. QED BY <2>2, <2>3, <2>4, <2>5, BeginKeeps DEF t
<1>4. ASSUME NEW j \in Jobs, Retry(r, j) PROVE IInv'
  <2>1. PICK pc \in DocThen(doc.status, "job") :
          Begin(r, [Idle EXCEPT !.kind = "retry", !.pc = pc, !.from = "ocr", !.job = j,
                                !.seenJob = jobs[j], !.seenDoc = doc.status])
    BY <1>4 DEF Retry
  <2> DEFINE t == [Idle EXCEPT !.kind = "retry", !.pc = pc, !.from = "ocr", !.job = j,
                               !.seenJob = jobs[j], !.seenDoc = doc.status]
  <2>2. pc \in {"doc", "job"}
    BY DEF DocThen
  <2>3. t \in ActType
    BY <1>1, <2>2, Blanks DEF Idle, ActType
  <2>4. /\ t.todo = <<>> /\ t.snap = {} /\ ~t.hasDoc /\ ~t.hasJob /\ t.pc = pc
        /\ \A x \in Tables : t.new[x] = {} /\ t.gone[x] = {}
    BY DEF Idle
  <2> HIDE DEF t
  <2>5. QED BY <2>1, <2>2, <2>3, <2>4, BeginKeeps DEF t
<1>5. ASSUME NEW j \in Jobs, Cancel(r, j) PROVE IInv'
  <2> DEFINE t == [Idle EXCEPT !.kind = "cancel", !.pc = "job", !.job = j, !.seenJob = jobs[j]]
  <2>1. t \in ActType
    BY <1>1, Blanks DEF Idle, ActType
  <2>2. /\ t.todo = <<>> /\ t.snap = {} /\ ~t.hasDoc /\ ~t.hasJob /\ t.pc = "job"
        /\ \A x \in Tables : t.new[x] = {} /\ t.gone[x] = {}
    BY DEF Idle
  <2>3. Begin(r, t)
    BY <1>5 DEF Cancel
  <2> HIDE DEF t
  <2>4. QED BY <2>1, <2>2, <2>3, BeginKeeps
<1>6. QED BY <1>2, <1>3, <1>4, <1>5

LEMMA OnlyActs ==
  ASSUME IInv, ActsOK', UNCHANGED <<doc, uploaded, jobs, rows, queue, budget>>
  PROVE  IInv'
  BY DEF IInv, RestOK, RowsType, OneSet

LEMMA SendKeeps ==
  ASSUME IInv, NEW r \in Actors, Send(r)
  PROVE  IInv'
<1> DEFINE b == act[r]
<1>1. RestOK /\ RowsType /\ ActsOK /\ Good(b) /\ b \in ActType /\ b.pc = "send"
  BY DEF IInv, ActsOK, Good, Send
<1>2. CASE Set(r, [b EXCEPT !.pc = "commit"])
  <2> DEFINE t == [b EXCEPT !.pc = "commit"]
  <2>1. t \in ActType
    BY <1>1 DEF ActType
  <2>2. /\ t.kind = b.kind /\ t.todo = b.todo /\ t.version = b.version /\ t.new = b.new
        /\ t.gone = b.gone /\ t.snap = b.snap /\ t.pc = "commit"
        /\ t.hasDoc = b.hasDoc /\ t.hasJob = b.hasJob /\ t.job = b.job
    BY <1>1 DEF ActType
  <2>3. b.todo = <<>> /\ IsFiniteSet(b.snap)
    BY <1>1 DEF Good, Shape
  <2> HIDE DEF t, b
  <2>4. Good(t)
    BY <1>1, <2>1, <2>2, <2>3, SameTables
  <2>5. ActsOK'
    BY <1>1, <1>2, <2>2, <2>4, ActStep DEF Send, t, b
  <2>6. QED BY <1>1, <2>5, PutType DEF Send, IInv, RestOK, RowsType, OneSet
<1>3. CASE Set(r, Idle) /\ UNCHANGED queue
  BY <1>1, <1>3, ToIdle, OnlyActs DEF Send
<1>4. QED BY <1>2, <1>3 DEF Send

\* A step that takes a lock, or goes on to another stage.
LEMMA Advance ==
  ASSUME ActsOK, NEW a \in Actors, NEW b, b = act[a], NEW t \in ActType, Set(a, t), UNCHANGED rows,
         t.kind = b.kind, t.todo = b.todo, t.version = b.version, t.new = b.new, t.gone = b.gone,
         IsFiniteSet(t.snap), b.pc # "insert", t.pc \notin {"insert", "find", "load"},
         t.pc = "deleting" => t.todo # <<>>,
         t.pc \in {"send", "commit"} => t.todo = <<>>,
         t.hasDoc => b.hasDoc \/ DocFree(a),
         t.hasJob => /\ t.pc \in {"send", "commit", "pages", "step", "deleting", "insert"}
                     /\ t.job = b.job /\ (b.hasJob \/ JobFree(a))
  PROVE  ActsOK'
<1>1. Good(b)
  BY DEF ActsOK
<1>2. Good(t)
  BY <1>1, SameTables
<1>3. QED BY <1>2, ActStep

LEMMA LockDocKeeps ==
  ASSUME IInv, NEW a \in Actors, LockDoc(a)
  PROVE  IInv'
<1> DEFINE b == act[a]
           free == [b EXCEPT !.hasDoc = TRUE, !.pc = "job"]
           sent == [b EXCEPT !.hasDoc = TRUE, !.pc = "send"]
           over == [b EXCEPT !.hasDoc = TRUE, !.pc = "commit"]
           last == [b EXCEPT !.hasDoc = TRUE, !.pc = "job", !.job = Latest, !.seenJob = jobs[Latest]]
<1>1. RestOK /\ ActsOK /\ Good(b) /\ b \in ActType /\ b.pc = "doc" /\ DocFree(a)
  BY DEF IInv, ActsOK, Good, LockDoc
<1>2. ~b.hasJob /\ IsFiniteSet(b.snap) /\ (b.kind # "run" => b.todo = <<>>)
  BY <1>1 DEF Good, Shape
<1>3. \/ Set(a, free) \/ (b.kind # "run" /\ (Set(a, sent) \/ Set(a, over)))
      \/ (Latest # NULL /\ Set(a, last))
  BY DEF LockDoc
<1>4. /\ free \in ActType /\ free.kind = b.kind /\ free.todo = b.todo /\ free.version = b.version
      /\ free.new = b.new /\ free.gone = b.gone /\ free.snap = b.snap /\ free.pc = "job" /\ ~free.hasJob
  BY <1>1, <1>2 DEF ActType
<1>5. /\ sent \in ActType /\ sent.kind = b.kind /\ sent.todo = b.todo /\ sent.version = b.version
      /\ sent.new = b.new /\ sent.gone = b.gone /\ sent.snap = b.snap /\ sent.pc = "send" /\ ~sent.hasJob
  BY <1>1, <1>2 DEF ActType
<1>6. /\ over \in ActType /\ over.kind = b.kind /\ over.todo = b.todo /\ over.version = b.version
      /\ over.new = b.new /\ over.gone = b.gone /\ over.snap = b.snap /\ over.pc = "commit" /\ ~over.hasJob
  BY <1>1, <1>2 DEF ActType
<1>7. Latest # NULL =>
      /\ last \in ActType /\ last.kind = b.kind /\ last.todo = b.todo /\ last.version = b.version
      /\ last.new = b.new /\ last.gone = b.gone /\ last.snap = b.snap /\ last.pc = "job" /\ ~last.hasJob
  BY <1>1, <1>2, LatestType DEF ActType
<1>8. ActsOK'
  <2> UNCHANGED rows
    BY DEF LockDoc
  <2> HIDE DEF free, sent, over, last
  <2>1. CASE Set(a, free)
    BY <1>1, <1>2, <1>4, <2>1, Advance
  <2>2. CASE b.kind # "run" /\ Set(a, sent)
    BY <1>1, <1>2, <1>5, <2>2, Advance
  <2>3. CASE b.kind # "run" /\ Set(a, over)
    BY <1>1, <1>2, <1>6, <2>3, Advance
  <2>4. CASE Latest # NULL /\ Set(a, last)
    BY <1>1, <1>2, <1>7, <2>4, Advance
  <2>5. QED BY <1>3, <2>1, <2>2, <2>3, <2>4
<1>9. QED BY <1>8, OnlyActs DEF LockDoc

LEMMA LocksKeep ==
  ASSUME IInv, NEW a \in Actors, LockJob(a) \/ LockPages(a)
  PROVE  IInv'
<1> DEFINE b == act[a]
<1>1. RestOK /\ ActsOK /\ Good(b) /\ b \in ActType
  BY DEF IInv, ActsOK, Good
<1>2. IsFiniteSet(b.snap) /\ (b.kind # "run" => b.todo = <<>>)
  BY <1>1 DEF Good, Shape
<1>3. CASE LockJob(a)
  <2>1. PICK pc \in AfterJob(b) : Set(a, [b EXCEPT !.hasJob = TRUE, !.pc = pc])
    BY <1>3 DEF LockJob
  <2> DEFINE t == [b EXCEPT !.hasJob = TRUE, !.pc = pc]
  <2>2. pc \in {"step", "pages", "send", "commit"} /\ (pc \in {"send", "commit"} => b.kind # "run")
    BY DEF AfterJob
  <2>3. /\ t \in ActType /\ t.kind = b.kind /\ t.todo = b.todo /\ t.version = b.version /\ t.job = b.job
        /\ t.new = b.new /\ t.gone = b.gone /\ t.snap = b.snap /\ t.pc = pc /\ t.hasDoc = b.hasDoc
    BY <1>1, <2>2 DEF ActType
  <2>4. JobFree(a) /\ UNCHANGED rows /\ b.pc = "job"
    BY <1>3 DEF LockJob
  <2> HIDE DEF t
  <2>5. ActsOK'
    BY <1>1, <1>2, <2>1, <2>2, <2>3, <2>4, Advance DEF t
  <2>6. QED BY <1>3, <2>5, OnlyActs DEF LockJob
<1>4. CASE LockPages(a)
  <2> DEFINE t == [b EXCEPT !.hasDoc = TRUE, !.pc = "step"]
  <2>1. /\ t \in ActType /\ t.kind = b.kind /\ t.todo = b.todo /\ t.version = b.version /\ t.job = b.job
        /\ t.new = b.new /\ t.gone = b.gone /\ t.snap = b.snap /\ t.pc = "step" /\ t.hasJob = b.hasJob
    BY <1>1 DEF ActType
  <2>2. DocFree(a) /\ UNCHANGED rows /\ b.pc = "pages" /\ Set(a, t)
    BY <1>4 DEF LockPages
  <2> HIDE DEF t
  <2>3. ActsOK'
    BY <1>1, <1>2, <2>1, <2>2, Advance
  <2>4. QED BY <1>4, <2>3, OnlyActs DEF LockPages
<1>5. QED BY <1>3, <1>4

LEMMA TakeKeeps ==
  ASSUME IInv, NEW w \in Workers, NEW m \in Messages, Take(w, m)
  PROVE  IInv'
<1> DEFINE t == [Idle EXCEPT !.kind = "run", !.pc = "load", !.from = m.from, !.tries = m.tries]
<1>1. RestOK /\ RowsType /\ ActsOK /\ w \in Actors
  BY DEF IInv, Actors
<1>2. m.from \in Stages /\ m.tries \in 0 .. MaxRetries
  BY DEF Messages
<1>3. t \in ActType
  BY <1>2, Blanks DEF Idle, ActType
<1>4. /\ t.todo = <<>> /\ t.snap = {} /\ ~t.hasDoc /\ ~t.hasJob /\ t.kind = "run" /\ t.pc = "load"
      /\ \A x \in Tables : t.new[x] = {} /\ t.gone[x] = {}
  BY DEF Idle
<1>5. Set(w, t) /\ UNCHANGED rows
  BY DEF Take
<1>6. queue' \in [Messages -> Nat]
  <2>1. queue[m] - 1 \in Nat
    BY <1>1 DEF RestOK, Take
  <2>2. QED BY <1>1, <2>1 DEF RestOK, Take
<1> HIDE DEF t
<1>7. ActsOK'
  BY <1>1, <1>3, <1>4, <1>5, BlankIsGood, Restart
<1>8. QED BY <1>1, <1>6, <1>7 DEF IInv, RestOK, RowsType, OneSet, Take

LEMMA EndsKeep ==
  ASSUME IInv, NEW a \in Actors, Ack(a) \/ Rollback(a) \/ Fail(a) \/ FailRaises(a) \/ Crash(a)
  PROVE  IInv'
<1>1. RestOK /\ RowsType /\ ActsOK /\ act[a] \in ActType
  BY DEF IInv, ActsOK
<1>2. CASE Ack(a) \/ Rollback(a)
  BY <1>1, <1>2, ToIdle, OnlyActs DEF Ack, Rollback
<1>3. CASE Fail(a)
  BY <1>3, FailedKeeps DEF Fail
<1>4. CASE FailRaises(a)
  <2>1. ActsOK'
    BY <1>1, <1>4, AckGood, Restart DEF FailRaises, Lost
  <2>2. budget' \in [{"asked", "crash", "lost"} -> Nat]
    BY <1>1, <1>4, AskType DEF FailRaises, Lost
  <2>3. QED BY <1>1, <1>4, <2>1, <2>2 DEF FailRaises, Lost, IInv, RestOK, RowsType, OneSet
<1>5. CASE Crash(a)
  <2>1. ActsOK'
    BY <1>1, <1>5, ToIdle DEF Crash
  <2>2. budget' \in [{"asked", "crash", "lost"} -> Nat] /\ queue' \in [Messages -> Nat]
    BY <1>1, <1>5, AskType, PutType DEF Crash
  <2>3. QED BY <1>1, <1>5, <2>1, <2>2 DEF Crash, IInv, RestOK, RowsType, OneSet
<1>6. QED BY <1>2, <1>3, <1>4, <1>5

LEMMA DeadlockKeeps ==
  ASSUME IInv, NEW a \in Actors, DeadlockVictim(a)
  PROVE  IInv'
<1>1. RestOK /\ RowsType /\ ActsOK /\ act[a] \in ActType
  BY DEF IInv, ActsOK
<1>2. CASE Failed(a)
  BY <1>2, FailedKeeps DEF DeadlockVictim
<1>3. CASE Lost(a)
  <2>1. ActsOK'
    BY <1>1, <1>3, AckGood, Restart DEF DeadlockVictim, Lost
  <2>2. budget' \in [{"asked", "crash", "lost"} -> Nat]
    BY <1>1, <1>3, AskType DEF Lost
  <2>3. QED BY <1>1, <1>3, <2>1, <2>2 DEF DeadlockVictim, Lost, IInv, RestOK, RowsType, OneSet
<1>4. CASE Set(a, Idle) /\ UNCHANGED <<queue, budget>>
  BY <1>1, <1>4, ToIdle, OnlyActs DEF DeadlockVictim
<1>5. QED BY <1>2, <1>3, <1>4 DEF DeadlockVictim

LEMMA LoadsKeep ==
  ASSUME IInv, NEW w \in Actors, LoadDoc(w) \/ LoadJob(w)
  PROVE  IInv'
<1> DEFINE b == act[w]
<1>1. RestOK /\ RowsType /\ ActsOK /\ Good(b) /\ b \in ActType
  BY DEF IInv, ActsOK, Good
<1>2. CASE Failed(w)
  BY <1>2, FailedKeeps DEF LoadDoc, LoadJob
<1>3. CASE LoadDoc(w) /\ ~Failed(w)
  <2> DEFINE t == [b EXCEPT !.pc = "find", !.version = doc.version, !.seenDoc = doc.status]
  <2>1. doc.version \in Versions /\ doc.status \in DocStatuses /\ b.pc = "load"
    BY <1>1, <1>3 DEF RestOK, LoadDoc
  <2>2. Shape(b)
    BY <1>1 DEF Good
  <2>3. /\ t \in ActType /\ t.todo = <<>> /\ ~t.hasJob /\ t.pc = "find" /\ t.version = doc.version
        /\ t.snap = b.snap /\ t.hasDoc = b.hasDoc /\ t.kind = "run"
        /\ \A x \in Tables : t.new[x] = {} /\ t.gone[x] = {}
    BY <1>1, <2>1, <2>2 DEF ActType, Shape
  <2>4. Good(t)
    <3> HIDE DEF t
    <3>1. QED BY <2>1, <2>2, <2>3 DEF Good, Shape, Progressed, Pending
  <2>5. Set(w, t) /\ UNCHANGED <<doc, uploaded, jobs, rows, queue, budget>>
    BY <1>3 DEF LoadDoc
  <2> HIDE DEF t
  <2>6. ActsOK'
    BY <1>1, <2>3, <2>4, <2>5, ActStep DEF Tables
  <2>7. QED BY <2>5, <2>6, OnlyActs
<1>4. CASE LoadJob(w) /\ ~Failed(w)
  <2>1. PICK pc \in DocThen(b.seenDoc, "job") :
          Set(w, [b EXCEPT !.pc = pc, !.job = Latest, !.seenJob = jobs[Latest], !.todo = Todo(b)])
    BY <1>4 DEF LoadJob
  <2> DEFINE t == [b EXCEPT !.pc = pc, !.job = Latest, !.seenJob = jobs[Latest], !.todo = Todo(b)]
  <2>2. pc \in {"doc", "job"} /\ b.pc = "find" /\ Latest # NULL
    BY <1>4 DEF DocThen, LoadJob
  <2>3. Shape(b) /\ b.version \in Versions
    BY <1>1, <2>2 DEF Good, Shape
  <2>4. /\ Todo(b) \in {<<>>, <<Entities>>, <<b.version, Entities>>}
        /\ Todo(b) \in Seq(Tables)
    <3>1. Todo(b) \in {<<>>, <<Entities>>, <<b.version, Entities>>}
      BY DEF Todo
    <3>2. b.version \in Tables /\ Entities \in Tables
      BY <2>3 DEF Tables
    <3>3. <<>> \in Seq(Tables) /\ <<Entities>> \in Seq(Tables) /\ <<b.version, Entities>> \in Seq(Tables)
      BY <3>2
    <3>4. QED BY <3>1, <3>3
  <2>5. Latest \in Jobs /\ jobs[Latest] \in JobStatuses
    BY <1>1, <2>2, LatestType
  <2>6. /\ t \in ActType /\ t.todo = Todo(b) /\ t.hasJob = b.hasJob /\ t.pc = pc
        /\ t.version = b.version /\ t.snap = b.snap /\ t.hasDoc = b.hasDoc /\ t.kind = b.kind
        /\ t.new = b.new /\ t.gone = b.gone
    <3> HIDE DEF b
    <3>1. QED BY <1>1, <2>2, <2>4, <2>5 DEF ActType
  <2>7. Good(t)
    <3> HIDE DEF t
    <3>1. Shape(t)
      BY <2>2, <2>3, <2>4, <2>6 DEF Shape
    <3>2. Progressed(t)
      BY <2>2, <2>3, <2>6 DEF Shape, Progressed
    <3>3. QED BY <2>6, <3>1, <3>2 DEF Good
  <2>8. ~b.hasJob /\ UNCHANGED <<doc, uploaded, jobs, rows, queue, budget>>
    BY <1>4, <2>2, <2>3 DEF LoadJob, Shape
  <2>9. ActsOK'
    <3> HIDE DEF t, b
    <3>1. QED BY <1>1, <2>1, <2>6, <2>7, <2>8, ActStep DEF t, b
  <2>10. QED BY <2>8, <2>9, OnlyActs
<1>5. QED BY <1>2, <1>3, <1>4

\* A run rebuilds the chunks of its version, if it does, and then the entities.
LEMMA TodoShape ==
  ASSUME NEW b, Good(b), b.todo # <<>>
  PROVE  /\ Head(b.todo) \in Tables /\ Head(b.todo) \in Pending(b)
         /\ Head(b.todo) \in Versions => Head(b.todo) = b.version
         /\ Tail(b.todo) \in {<<>>, <<Entities>>} /\ Tail(b.todo) \in Seq(Tables)
         /\ {Tail(b.todo)[i] : i \in DOMAIN Tail(b.todo)} = Pending(b) \ {Head(b.todo)}
<1>1. \A v \in Versions : v # Entities
  BY DEF Versions, Entities
<1>2. b.todo = <<Entities>> \/ \E v \in Versions : b.todo = <<v, Entities>>
  BY DEF Good, Shape
<1>3. /\ Entities \in Tables /\ Versions \subseteq Tables
      /\ <<>> \in Seq(Tables) /\ <<Entities>> \in Seq(Tables)
  <2>1. Entities \in Tables /\ Versions \subseteq Tables
    BY DEF Tables
  <2>2. QED BY <2>1, Blanks
<1>4. ASSUME NEW v \in Versions, b.todo = <<v, Entities>>
      PROVE  /\ Head(b.todo) = v /\ Tail(b.todo) = <<Entities>> /\ Pending(b) = {v, Entities}
             /\ v = b.version
             /\ {Tail(b.todo)[i] : i \in DOMAIN Tail(b.todo)} = {Entities}
  <2>1. Head(b.todo) = v /\ Tail(b.todo) = <<Entities>>
    BY <1>4
  <2>2. Pending(b) = {v, Entities}
    BY <1>4 DEF Pending
  <2>3. {Tail(b.todo)[i] : i \in DOMAIN Tail(b.todo)} = {Entities}
    <3> DEFINE u == <<Entities>>
    <3>1. DOMAIN u = {1} /\ u[1] = Entities
      OBVIOUS
    <3> HIDE DEF u
    <3>2. {u[i] : i \in DOMAIN u} = {Entities}
      BY <3>1
    <3>3. QED BY <2>1, <3>2 DEF u
  <2>4. v = b.version
    BY <1>1, <2>1 DEF Good, Shape
  <2>5. QED BY <2>1, <2>2, <2>3, <2>4
<1>5. ASSUME b.todo = <<Entities>>
      PROVE  /\ Head(b.todo) = Entities /\ Tail(b.todo) = <<>> /\ Pending(b) = {Entities}
             /\ {Tail(b.todo)[i] : i \in DOMAIN Tail(b.todo)} = {}
  <2>1. Head(b.todo) = Entities /\ Tail(b.todo) = <<>>
    BY <1>5
  <2>2. Pending(b) = {Entities}
    BY <1>5 DEF Pending
  <2>3. {Tail(b.todo)[i] : i \in DOMAIN Tail(b.todo)} = {}
    BY <2>1
  <2>4. QED BY <2>1, <2>2, <2>3
<1>6. CASE b.todo = <<Entities>>
  BY <1>1, <1>3, <1>5, <1>6
<1>7. ASSUME NEW v \in Versions, b.todo = <<v, Entities>>
      PROVE  /\ Head(b.todo) \in Tables /\ Head(b.todo) \in Pending(b)
             /\ Tail(b.todo) = <<Entities>> /\ Head(b.todo) = b.version
             /\ {Tail(b.todo)[i] : i \in DOMAIN Tail(b.todo)} = Pending(b) \ {Head(b.todo)}
  <2>1. {v, Entities} \ {v} = {Entities}
    BY <1>1
  <2>2. QED BY <1>3, <1>4, <1>7, <2>1
<1>8. QED BY <1>2, <1>3, <1>6, <1>7

LEMMA StepKeeps ==
  ASSUME IInv, NEW w \in Actors, Step(w)
  PROVE  IInv'
<1> DEFINE b == act[w]
           over == [b EXCEPT !.pc = "commit"]
           next == [b EXCEPT !.pc = "deleting", !.snap = rows[Head(b.todo)]]
<1>1. RestOK /\ RowsType /\ ActsOK /\ Good(b) /\ b \in ActType /\ b.pc = "step"
  BY DEF IInv, ActsOK, Good, Step
<1>2. IsFiniteSet(b.snap)
  BY <1>1 DEF Good, Shape
<1>3. (b.todo = <<>> /\ Set(w, over)) \/ (b.todo # <<>> /\ Set(w, next))
  BY DEF Step
<1>4. UNCHANGED <<doc, uploaded, jobs, rows, queue, budget>>
  BY DEF Step
<1>5. CASE b.todo = <<>> /\ Set(w, over)
  <2>1. /\ over \in ActType /\ over.kind = b.kind /\ over.todo = b.todo /\ over.version = b.version
        /\ over.job = b.job /\ over.new = b.new /\ over.gone = b.gone /\ over.snap = b.snap
        /\ over.pc = "commit" /\ over.hasJob = b.hasJob /\ over.hasDoc = b.hasDoc
    BY <1>1 DEF ActType
  <2>2. ActsOK'
    <3> HIDE DEF over
    <3>1. QED BY <1>1, <1>2, <1>4, <1>5, <2>1, Advance
  <2>3. QED BY <1>4, <2>2, OnlyActs
<1>6. CASE b.todo # <<>> /\ Set(w, next)
  <2>1. Head(b.todo) \in Tables
    BY <1>1, <1>6, TodoShape
  <2>2. rows[Head(b.todo)] \in SUBSET Nat /\ IsFiniteSet(rows[Head(b.todo)])
    BY <1>1, <2>1 DEF RowsType
  <2>3. /\ next \in ActType /\ next.kind = b.kind /\ next.todo = b.todo /\ next.version = b.version
        /\ next.job = b.job /\ next.new = b.new /\ next.gone = b.gone /\ next.snap = rows[Head(b.todo)]
        /\ next.pc = "deleting" /\ next.hasJob = b.hasJob /\ next.hasDoc = b.hasDoc
    BY <1>1, <2>2 DEF ActType
  <2>4. ActsOK'
    <3> HIDE DEF next
    <3>1. QED BY <1>1, <1>4, <1>6, <2>2, <2>3, Advance
  <2>5. QED BY <1>4, <2>4, OnlyActs
<1>7. QED BY <1>3, <1>5, <1>6

LEMMA DeleteRowsKeeps ==
  ASSUME IInv, NEW w \in Actors, DeleteRows(w)
  PROVE  IInv'
<1> DEFINE b == act[w]
           x == Head(b.todo)
           cut == [b EXCEPT !.snap = {}, !.gone[x] = b.snap \cap rows[x]]
           rest == Tail(b.todo)
           next == [cut EXCEPT !.pc = "insert"]
           none == [cut EXCEPT !.pc = "step", !.todo = Tail(@)]
<1>1. RestOK /\ RowsType /\ ActsOK /\ Good(b) /\ b \in ActType /\ b.pc = "deleting"
  BY DEF IInv, ActsOK, Good, DeleteRows
<1>2. b.todo # <<>>
  BY <1>1 DEF Good, Shape
<1>3. /\ x \in Tables /\ x \in Pending(b) /\ (x \in Versions => x = b.version)
      /\ rest \in {<<>>, <<Entities>>} /\ rest \in Seq(Tables)
      /\ {rest[i] : i \in DOMAIN rest} = Pending(b) \ {x}
  BY <1>1, <1>2, TodoShape
<1>4. (Set(w, next) \/ Set(w, none)) /\ UNCHANGED <<doc, uploaded, jobs, rows, queue, budget>>
  BY DEF DeleteRows
<1>5. b.snap \cap rows[x] \in SUBSET Nat
  BY <1>1 DEF ActType
<1>6. /\ next \in ActType /\ next.kind = b.kind /\ next.todo = b.todo /\ next.version = b.version
      /\ next.job = b.job /\ next.new = b.new /\ next.snap = {} /\ next.pc = "insert"
      /\ next.hasJob = b.hasJob /\ next.hasDoc = b.hasDoc
      /\ \A y \in Tables : y # x => next.gone[y] = b.gone[y]
  <2> HIDE DEF x, b
  <2>1. QED BY <1>1, <1>3, <1>5 DEF ActType
<1>7. /\ none \in ActType /\ none.kind = b.kind /\ none.todo = rest /\ none.version = b.version
      /\ none.job = b.job /\ none.new = b.new /\ none.snap = {} /\ none.pc = "step"
      /\ none.hasJob = b.hasJob /\ none.hasDoc = b.hasDoc
      /\ \A y \in Tables : y # x => none.gone[y] = b.gone[y]
  <2> HIDE DEF x, b
  <2>1. QED BY <1>1, <1>3, <1>5 DEF ActType
<1>8. Good(next)
  <2> HIDE DEF next
  <2>1. Shape(next)
    BY <1>1, <1>2, <1>6, FS_EmptySet DEF Good, Shape
  <2>2. Pending(next) = Pending(b)
    BY <1>6 DEF Pending
  <2>3. Progressed(next)
    BY <1>1, <1>3, <1>6, <2>2 DEF Good, Progressed
  <2>4. QED BY <1>6, <2>1, <2>3 DEF Good
<1>9. Good(none)
  <2> HIDE DEF none
  <2>1. Pending(none) = Pending(b) \ {x}
    <3> HIDE DEF x, b, rest
    <3>1. QED BY <1>3, <1>7, Zenon DEF Pending
  <2>2. rest # <<>> => Head(rest) = Entities
    <3> HIDE DEF rest
    <3>1. QED BY <1>3
  <2>3. \A v \in Versions : v # Entities
    BY DEF Versions, Entities
  <2>4. Shape(b)
    BY <1>1 DEF Good
  <2>5. b.kind # "run" => b.todo = <<>>
    BY <2>4 DEF Shape
  <2>6. Shape(none)
    <3> HIDE DEF x, rest
    <3>1. QED BY <1>1, <1>2, <1>3, <1>7, <2>2, <2>3, <2>4, <2>5, FS_EmptySet DEF Shape
  <2>7. Progressed(none)
    BY <1>1, <1>3, <1>7, <2>1 DEF Good, Progressed
  <2>8. QED BY <1>7, <2>6, <2>7 DEF Good
<1>10. b.new[x] = {}
  BY <1>1, <1>3 DEF Good, Progressed
<1>11. CASE Set(w, next)
  <2> HIDE DEF next
  <2>1. \A v \in Versions : next.new[v] # {} => next.new[v] = b.new[v] /\ next.gone[v] = b.gone[v]
    BY <1>6, <1>10 DEF Tables
  <2>2. ActsOK'
    BY <1>1, <1>4, <1>6, <1>8, <1>11, <2>1, ActStep
  <2>3. QED BY <1>4, <2>2, OnlyActs
<1>12. CASE Set(w, none)
  <2> HIDE DEF none
  <2>1. \A v \in Versions : none.new[v] # {} => none.new[v] = b.new[v] /\ none.gone[v] = b.gone[v]
    BY <1>7, <1>10 DEF Tables
  <2>2. ActsOK'
    BY <1>1, <1>4, <1>7, <1>9, <1>12, <2>1, ActStep
  <2>3. QED BY <1>4, <2>2, OnlyActs
<1>13. QED BY <1>4, <1>11, <1>12

LEMMA InsertRowsKeeps ==
  ASSUME IInv, NEW w \in Actors, InsertRows(w)
  PROVE  IInv'
<1> DEFINE b == act[w]
           x == Head(b.todo)
           t == [b EXCEPT !.pc = "step", !.todo = Tail(@), !.new[x] = {Fresh(x)}]
<1>1. RestOK /\ RowsType /\ ActsOK /\ Good(b) /\ b \in ActType /\ b.pc = "insert"
  BY DEF IInv, ActsOK, Good, InsertRows
<1>2. b.todo # <<>>
  BY <1>1 DEF Good, Shape
<1>3. CASE Failed(w)
  BY <1>3, FailedKeeps DEF InsertRows
<1>4. CASE ~Failed(w)
  <2>1. /\ Set(w, t) /\ UNCHANGED <<doc, uploaded, jobs, rows, queue, budget>>
        /\ Unique(x) => ~KeyBusy(w, x) /\ ~KeyTaken(w, x)
    BY <1>4 DEF InsertRows
  <2>2. /\ x \in Tables /\ x \in Pending(b) /\ (x \in Versions => x = b.version)
        /\ Tail(b.todo) \in {<<>>, <<Entities>>} /\ Tail(b.todo) \in Seq(Tables)
        /\ {Tail(b.todo)[i] : i \in DOMAIN Tail(b.todo)} = Pending(b) \ {x}
    BY <1>1, <1>2, TodoShape
  <2>3. Fresh(x) \in Nat
    BY <1>1, <2>2, FreshType
  <2>4. /\ t \in ActType /\ t.kind = b.kind /\ t.todo = Tail(b.todo) /\ t.version = b.version /\ t.job = b.job
        /\ t.gone = b.gone /\ t.snap = b.snap /\ t.pc = "step" /\ t.hasJob = b.hasJob /\ t.hasDoc = b.hasDoc
        /\ t.new[x] = {Fresh(x)} /\ \A y \in Tables : y # x => t.new[y] = b.new[y]
    <3>1. {Fresh(x)} \in SUBSET Nat
      BY <2>3
    <3> HIDE DEF x, b
    <3>2. QED BY <1>1, <2>2, <3>1 DEF ActType
  <2>5. Pending(t) = Pending(b) \ {x}
    <3> DEFINE u == Tail(b.todo)
    <3>1. t.todo = u /\ {u[i] : i \in DOMAIN u} = Pending(b) \ {x}
      BY <2>2, <2>4
    <3> HIDE DEF t, u, x
    <3>2. QED BY <3>1, Zenon DEF Pending
  <2>6. \A v \in Versions : v # Entities
    BY DEF Versions, Entities
  <2>7. Shape(t)
    <3>1. Shape(b)
      BY <1>1 DEF Good
    <3>2. Tail(b.todo) # <<>> => Head(Tail(b.todo)) = Entities
      <4> DEFINE u == Tail(b.todo)
      <4>1. u = <<>> \/ u = <<Entities>>
        BY <2>2
      <4> HIDE DEF u
      <4>2. u # <<>> => Head(u) = Entities
        BY <4>1
      <4>3. QED BY <4>2 DEF u
    <3>3. b.kind # "run" => b.todo = <<>>
      BY <3>1 DEF Shape
    <3> HIDE DEF t, x
    <3>4. QED BY <1>1, <1>2, <2>2, <2>4, <3>1, <3>2, <3>3 DEF Shape
  <2>8. Progressed(t)
    <3>1. Progressed(b)
      BY <1>1 DEF Good
    <3> SUFFICES ASSUME NEW y \in Tables
                 PROVE  /\ y \in Versions /\ y # t.version => t.new[y] = {} /\ t.gone[y] = {}
                        /\ t.new[y] # {} => \E g \in Nat : t.new[y] = {g}
                        /\ y \in Pending(t) => t.new[y] = {} /\ t.gone[y] = {}
      BY DEF Progressed
    <3> HIDE DEF t
    <3>2. CASE y = x
      BY <2>2, <2>3, <2>4, <2>5, <3>2
    <3>3. CASE y # x
      BY <2>4, <2>5, <3>1, <3>3 DEF Progressed
    <3>4. QED BY <3>2, <3>3
  <2>9. Good(t)
    BY <2>4, <2>7, <2>8 DEF Good
  <2>10. ASSUME NEW v \in Versions, t.new[v] # {}
         PROVE  \/ t.new[v] = b.new[v] /\ t.gone[v] = b.gone[v]
                \/ rows[v] \subseteq t.gone[v] /\ \A c \in Others(w) : act[c].new[v] = {}
    <3> HIDE DEF t
    <3>1. CASE v = x
      <4>1. Unique(x)
        BY <2>6, <3>1 DEF Unique
      <4> QED BY <2>1, <2>4, <3>1, <4>1 DEF KeyBusy, KeyTaken
    <3>2. CASE v # x
      BY <2>4, <3>2 DEF Tables
    <3>3. QED BY <3>1, <3>2
  <2>11. ActsOK'
    <3> HIDE DEF t
    <3>1. QED BY <1>1, <2>1, <2>4, <2>9, <2>10, ActStep
  <2>12. QED BY <2>1, <2>11, OnlyActs
<1>5. QED BY <1>3, <1>4

\* A commit leaves the version it has read with its new set, with what it held or
\* with nothing, and the others as they were.
LEMMA CommitSets ==
  ASSUME RowsType, ActsOK, NEW w \in Actors, CommitRun(w), NEW v \in Versions
  PROVE  /\ rows'[v] = rows[v] \/ rows'[v] = {} \/ \E g \in Nat : rows'[v] = {g}
         /\ v # act[w].version => rows'[v] = rows[v]
<1> DEFINE b == act[w]
<1>1. v \in Tables
  BY DEF Tables
<1>2. rows'[v] = (rows[v] \ b.gone[v]) \cup b.new[v]
  BY <1>1 DEF CommitRun, Rebuilt
<1>3. Progressed(b)
  BY DEF ActsOK, Good
<1>4. rows[v] = {} \/ \E g \in Nat : rows[v] = {g}
  BY DEF RowsType, OneSet
<1>5. CASE b.new[v] = {}
  <2>1. rows[v] \ b.gone[v] = rows[v] \/ rows[v] \ b.gone[v] = {}
    BY <1>4
  <2>2. v # b.version => b.gone[v] = {}
    BY <1>1, <1>3 DEF Progressed
  <2>3. QED BY <1>2, <1>5, <2>1, <2>2
<1>6. CASE b.new[v] # {}
  <2>1. PICK g \in Nat : b.new[v] = {g}
    BY <1>1, <1>3, <1>6 DEF Progressed
  <2>2. rows[v] \subseteq b.gone[v]
    BY <1>6 DEF ActsOK, Replaces
  <2>3. rows'[v] = {g}
    BY <1>2, <2>1, <2>2
  <2>4. v = b.version
    BY <1>1, <1>3, <1>6 DEF Progressed
  <2>5. QED BY <2>3, <2>4
<1>7. QED BY <1>5, <1>6

LEMMA CommitOneSet ==
  ASSUME RowsType, ActsOK, NEW w \in Actors, CommitRun(w)
  PROVE  OneSet'
<1> SUFFICES ASSUME NEW v \in Versions PROVE rows'[v] = {} \/ \E g \in Nat : rows'[v] = {g}
  BY DEF OneSet
<1>1. rows'[v] = rows[v] \/ rows'[v] = {} \/ \E g \in Nat : rows'[v] = {g}
  BY CommitSets
<1>2. rows[v] = {} \/ \E g \in Nat : rows[v] = {g}
  BY DEF RowsType, OneSet
<1>3. QED BY <1>1, <1>2

LEMMA CommitRunKeeps ==
  ASSUME IInv, NEW w \in Actors, CommitRun(w)
  PROVE  IInv'
<1> DEFINE b == act[w]
           t == Acking(w)
<1>1. RestOK /\ RowsType /\ ActsOK /\ Good(b) /\ b \in ActType /\ b.pc = "commit"
  BY DEF IInv, ActsOK, Good, CommitRun
<1>2. /\ rows' = [x \in Tables |-> (rows[x] \ b.gone[x]) \cup b.new[x]]
      /\ doc' = [doc EXCEPT !.status = "completed"]
      /\ jobs' = [jobs EXCEPT ![b.job] = "completed"]
      /\ Set(w, t) /\ UNCHANGED <<uploaded, queue, budget>>
  BY DEF CommitRun, Rebuilt
<1>3. RowsType'
  <2> SUFFICES ASSUME NEW x \in Tables
               PROVE  /\ (rows[x] \ b.gone[x]) \cup b.new[x] \in SUBSET Nat
                      /\ IsFiniteSet((rows[x] \ b.gone[x]) \cup b.new[x])
    BY <1>1, <1>2, CommitOneSet DEF RowsType
  <2>1. b.new[x] \in SUBSET Nat /\ rows[x] \in SUBSET Nat /\ IsFiniteSet(rows[x])
    BY <1>1 DEF ActType, RowsType
  <2>2. b.new[x] = {} \/ \E g \in Nat : b.new[x] = {g}
    BY <1>1 DEF Good, Progressed
  <2>3. IsFiniteSet(b.new[x])
    BY <2>2, FS_EmptySet, FS_Singleton, Zenon
  <2>4. IsFiniteSet(rows[x] \ b.gone[x])
    BY <2>1, FS_Subset
  <2>5. IsFiniteSet((rows[x] \ b.gone[x]) \cup b.new[x])
    BY <2>3, <2>4, FS_Union
  <2>6. QED BY <2>1, <2>5
<1>4. RestOK'
  BY <1>1, <1>2 DEF RestOK, DocStatuses, JobStatuses
<1>5. Good(t) /\ ~t.hasDoc /\ ~t.hasJob /\ \A x \in Tables : t.new[x] = {}
  BY <1>1, AckGood
<1>6. act' \in [Actors -> ActType] /\ act'[w] = t /\ \A c \in Others(w) : act'[c] = act[c]
  BY <1>1, <1>2, <1>5 DEF ActsOK, Set, Good, Others
<1>7. \A c \in Actors : c = w \/ (c # w /\ c \in Others(w))
  BY DEF Others
<1> HIDE DEF t
<1>8. (\A c \in Actors : Good(act[c]))'
  <2>1. \A c \in Actors : Good(act'[c])
    BY <1>1, <1>5, <1>6, <1>7 DEF ActsOK
  <2>2. QED BY <2>1 DEF Good, Shape, Progressed, Pending
<1>9. DocHeldOnce'
  BY <1>1, <1>5, <1>6, <1>7 DEF ActsOK, DocHeldOnce
<1>10. JobHeldOnce'
  BY <1>1, <1>5, <1>6, <1>7 DEF ActsOK, JobHeldOnce
<1>11. Replaces'
  <2> SUFFICES ASSUME NEW c \in Actors, NEW v \in Versions, act'[c].new[v] # {}
               PROVE  rows'[v] \subseteq act'[c].gone[v]
    BY DEF Replaces
  <2>1. v \in Tables
    BY DEF Tables
  <2>2. c # w /\ act'[c] = act[c]
    BY <1>5, <1>6, <1>7, <2>1
  <2>3. b.new[v] = {} /\ rows[v] \subseteq act[c].gone[v]
    BY <1>1, <2>2 DEF ActsOK, OneWriter, Replaces
  <2>5. rows'[v] \subseteq rows[v]
    BY <1>2, <2>1, <2>3
  <2>6. QED BY <2>2, <2>3, <2>5
<1>12. OneWriter'
  <2>1. \A v \in Versions : v \in Tables
    BY DEF Tables
  <2>2. QED BY <1>1, <1>5, <1>6, <1>7, <2>1 DEF ActsOK, OneWriter
<1>13. ActsOK'
  BY <1>6, <1>8, <1>9, <1>10, <1>11, <1>12 DEF ActsOK
<1>14. QED BY <1>3, <1>4, <1>13 DEF IInv

LEMMA CommitsKeep ==
  ASSUME IInv, NEW a \in Actors, CommitFail(a) \/ CommitRequest(a)
  PROVE  IInv'
<1>1. RestOK /\ RowsType /\ ActsOK /\ act[a] \in ActType
  BY DEF IInv, ActsOK
<1>2. UNCHANGED rows
  BY DEF CommitFail, CommitRequest
<1>3. CASE CommitFail(a)
  <2>1. ActsOK'
    BY <1>1, <1>2, <1>3, AckGood, Restart DEF CommitFail
  <2>2. doc' \in [status : DocStatuses, version : Versions, deleted : BOOLEAN]
    BY <1>1, <1>3 DEF RestOK, CommitFail, DocStatuses
  <2>3. jobs' \in [Jobs -> JobStatuses]
    BY <1>1, <1>3 DEF RestOK, CommitFail, JobStatuses
  <2>4. QED BY <1>1, <1>2, <1>3, <2>1, <2>2, <2>3 DEF IInv, RestOK, RowsType, OneSet, CommitFail
<1>4. CASE CommitRequest(a)
  <2> DEFINE t == act[a]
             j == t.job
             next == CASE t.kind = "cancel" -> "cancelled"
                       [] t.kind = "retry" /\ t.seenJob = "pending" -> jobs[j]
                       [] OTHER -> "pending"
  <2>1. ActsOK'
    BY <1>1, <1>2, <1>4, ToIdle DEF CommitRequest
  <2>2. doc' \in [status : DocStatuses, version : Versions, deleted : BOOLEAN]
    BY <1>1, <1>4 DEF RestOK, CommitRequest, DocStatuses
  <2>3. jobs' = [jobs EXCEPT ![j] = next]
    BY <1>4 DEF CommitRequest
  <2>4. j \in Jobs => next \in JobStatuses
    BY <1>1 DEF RestOK, JobStatuses
  <2>5. jobs' \in [Jobs -> JobStatuses]
    <3> HIDE DEF next, j
    <3>1. QED BY <1>1, <2>3, <2>4 DEF RestOK
  <2>6. QED BY <1>1, <1>2, <1>4, <2>1, <2>2, <2>5 DEF IInv, RestOK, RowsType, OneSet, CommitRequest
<1>5. QED BY <1>3, <1>4

LEMMA ActsSame ==
  ASSUME RowsType, ActsOK, UNCHANGED <<rows, act>>
  PROVE  RowsType' /\ ActsOK'
  BY DEF RowsType, OneSet, ActsOK, Good, Shape, Progressed, Pending, DocHeldOnce, JobHeldOnce, Replaces, OneWriter

LEMMA ClientKeeps ==
  ASSUME IInv, Upload \/ CreateVersion \/ Delete \/ UNCHANGED vars
  PROVE  IInv'
<1>1. RestOK /\ RowsType /\ ActsOK
  BY DEF IInv
<1>2. RowsType' /\ ActsOK'
  BY <1>1, ActsSame DEF Upload, CreateVersion, Delete, vars
<1>3. RestOK'
  <2>1. CASE Upload
    BY <1>1, <2>1 DEF RestOK, Upload
  <2>2. CASE CreateVersion
    <3>1. doc.version + 1 \in Versions
      BY <1>1, <2>2, BoundsAssumption DEF RestOK, CreateVersion, Versions
    <3>2. doc' \in [status : DocStatuses, version : Versions, deleted : BOOLEAN]
      BY <1>1, <2>2, <3>1 DEF RestOK, CreateVersion, DocStatuses
    <3>3. QED BY <1>1, <2>2, <3>2, MoreType DEF RestOK, CreateVersion
  <2>3. CASE Delete
    BY <1>1, <2>3, MoreType DEF RestOK, Delete
  <2>4. CASE UNCHANGED vars
    BY <1>1, <2>4 DEF RestOK, vars
  <2>5. QED BY <2>1, <2>2, <2>3, <2>4
<1>4. QED BY <1>2, <1>3 DEF IInv

LEMMA InitOK == Init => IInv
<1> SUFFICES ASSUME Init PROVE IInv
  OBVIOUS
<1>1. PICK ingested \in BOOLEAN :
        /\ doc = [status |-> IF ingested THEN "completed" ELSE "pending", version |-> 1, deleted |-> FALSE]
        /\ uploaded = IF ingested THEN {1} ELSE {}
        /\ jobs = [j \in Jobs |-> IF j = 1 /\ ingested THEN "completed" ELSE "none"]
        /\ rows = [t \in Tables |-> IF t \in {1, Entities} /\ ingested THEN {0} ELSE {}]
  BY DEF Init
<1>2. 1 \in Versions
  BY BoundsAssumption DEF Versions
<1>3. RestOK
  BY <1>1, <1>2 DEF Init, RestOK, DocStatuses, JobStatuses
<1>4. RowsType
  <2>1. IsFiniteSet({0}) /\ IsFiniteSet({})
    BY FS_EmptySet, FS_Singleton, Zenon
  <2>2. \A t \in Tables : rows[t] = {0} \/ rows[t] = {}
    BY <1>1
  <2>3. \A t \in Tables : IsFiniteSet(rows[t])
    BY <2>1, <2>2, Zenon
  <2>4. rows \in [Tables -> SUBSET Nat]
    BY <1>1
  <2>5. OneSet
    BY <2>2 DEF OneSet, Tables
  <2>6. QED BY <2>3, <2>4, <2>5 DEF RowsType
<1>5. Idle \in ActType
  BY Blanks DEF Idle, ActType
<1>6. /\ Idle.todo = <<>> /\ Idle.snap = {} /\ ~Idle.hasJob /\ ~Idle.hasDoc
      /\ Idle.pc = "idle" /\ \A x \in Tables : Idle.new[x] = {} /\ Idle.gone[x] = {}
  BY DEF Idle
<1>7. Good(Idle)
  BY <1>5, <1>6, BlankIsGood
<1>8. \A a \in Actors : act[a] = Idle
  BY DEF Init
<1>9. act \in [Actors -> ActType] /\ \A a \in Actors : Good(act[a])
  BY <1>5, <1>7 DEF Init
<1>10. DocHeldOnce /\ JobHeldOnce
  BY <1>6, <1>8 DEF DocHeldOnce, JobHeldOnce
<1>11. \A v \in Versions : v \in Tables
  BY DEF Tables
<1>12. Replaces /\ OneWriter
  BY <1>6, <1>8, <1>11 DEF Replaces, OneWriter
<1>13. QED BY <1>3, <1>4, <1>9, <1>10, <1>12 DEF IInv, ActsOK

LEMMA NextKeeps == IInv /\ [Next]_vars => IInv'
<1> SUFFICES ASSUME IInv, [Next]_vars PROVE IInv'
  OBVIOUS
<1>1. Workers \subseteq Actors /\ Requests \subseteq Actors
  BY DEF Actors
<1>2. CASE Upload \/ CreateVersion \/ Delete \/ UNCHANGED vars
  BY <1>2, ClientKeeps
<1>3. ASSUME NEW r \in Requests,
             Confirm(r) \/ Reprocess(r) \/ \E j \in Jobs : Retry(r, j) \/ Cancel(r, j)
      PROVE  IInv'
  BY <1>3, RequestsKeep
<1>4. ASSUME NEW r \in Requests, Serving(r) \/ Rollback(r) PROVE IInv'
  BY <1>1, <1>4, LockDocKeeps, LocksKeep, SendKeeps, CommitsKeep, DeadlockKeeps, EndsKeep DEF Serving
<1>5. ASSUME NEW w \in Workers, Working(w) PROVE IInv'
  <2>1. CASE LoadDoc(w) \/ LoadJob(w)
    BY <1>1, <2>1, LoadsKeep
  <2>2. CASE LockDoc(w) \/ LockJob(w) \/ LockPages(w)
    BY <1>1, <2>2, LockDocKeeps, LocksKeep
  <2>3. CASE Step(w) \/ DeleteRows(w) \/ InsertRows(w)
    BY <1>1, <2>3, StepKeeps, DeleteRowsKeeps, InsertRowsKeeps
  <2>4. CASE CommitRun(w) \/ CommitFail(w)
    BY <1>1, <2>4, CommitRunKeeps, CommitsKeep
  <2>5. CASE DeadlockVictim(w) \/ Ack(w)
    BY <1>1, <2>5, DeadlockKeeps, EndsKeep
  <2>6. QED BY <1>5, <2>1, <2>2, <2>3, <2>4, <2>5 DEF Working
<1>6. ASSUME NEW w \in Workers,
             Fail(w) \/ FailRaises(w) \/ Crash(w) \/ \E m \in Messages : Take(w, m)
      PROVE  IInv'
  BY <1>1, <1>6, EndsKeep, TakeKeeps
<1>7. QED BY <1>2, <1>3, <1>4, <1>5, <1>6 DEF Next

LEMMA Inductive == Spec => []IInv
  BY InitOK, NextKeeps, PTL DEF Spec

-----------------------------------------------------------------------------
(* Theorems *)

\* Whatever runs overlap, fail, are retried or delivered again, every variable
\* keeps its type, and a document row or a job row is locked by one transaction
\* at a time.
THEOREM Typing == Spec => []TypeOK
  BY Inductive, InvImpliesType, PTL

\* Only the commit of a run changes what search can find.
LEMMA OnlyCommitsPublish ==
  ASSUME Next
  PROVE  UNCHANGED rows \/ \E w \in Workers : CommitRun(w)
<1>1. CASE Upload \/ CreateVersion \/ Delete
  BY <1>1 DEF Upload, CreateVersion, Delete
<1>2. ASSUME NEW r \in Requests,
             Confirm(r) \/ Reprocess(r) \/ \E j \in Jobs : Retry(r, j) \/ Cancel(r, j)
      PROVE  UNCHANGED rows
  BY <1>2 DEF Confirm, Reprocess, Retry, Cancel, Begin
<1>3. ASSUME NEW r \in Requests, Serving(r) \/ Rollback(r) PROVE UNCHANGED rows
  BY <1>3 DEF Serving, Rollback, LockDoc, LockJob, Send, CommitRequest, DeadlockVictim
<1>4. ASSUME NEW w \in Workers, Working(w), ~CommitRun(w) PROVE UNCHANGED rows
  <2>1. CASE LoadDoc(w) \/ LoadJob(w) \/ LockDoc(w) \/ LockJob(w) \/ LockPages(w)
    BY <2>1 DEF LoadDoc, LoadJob, LockDoc, LockJob, LockPages
  <2>2. CASE Step(w) \/ DeleteRows(w) \/ InsertRows(w) \/ CommitFail(w) \/ DeadlockVictim(w) \/ Ack(w)
    BY <2>2 DEF Step, DeleteRows, InsertRows, CommitFail, DeadlockVictim, Ack
  <2>3. QED BY <1>4, <2>1, <2>2 DEF Working
<1>5. ASSUME NEW w \in Workers,
             Fail(w) \/ FailRaises(w) \/ Crash(w) \/ \E m \in Messages : Take(w, m)
      PROVE  UNCHANGED rows
  BY <1>5 DEF Fail, FailRaises, Crash, Take
<1>6. QED BY <1>1, <1>2, <1>3, <1>4, <1>5 DEF Next

\* A commit replaces the chunks of the version it has read by one new set or by
\* none, or leaves every version as it was.
LEMMA CommitPublishes ==
  ASSUME IInv, NEW w \in Actors, CommitRun(w)
  PROVE  [Index!Next]_([v \in Versions |-> rows[v]])
<1> DEFINE index == [u \in Versions |-> rows[u]]
           next == [u \in Versions |-> rows'[u]]
<1>0. PICK v : v = act[w].version
  OBVIOUS
<1>1. RowsType /\ ActsOK
  BY DEF IInv
<1>2. \A u \in Versions : u # v => rows'[u] = rows[u]
  BY <1>0, <1>1, CommitSets
<1>3. CASE v \notin Versions
  BY <1>2, <1>3
<1>4. CASE v \in Versions
  <2>1. rows'[v] = rows[v] \/ rows'[v] = {} \/ \E g \in Nat : rows'[v] = {g}
    BY <1>1, <1>4, CommitSets
  <2>2. CASE rows'[v] = rows[v]
    BY <1>2, <2>2
  <2>3. CASE rows'[v] = {}
    <3>1. next = [index EXCEPT ![v] = {}]
      BY <1>2, <1>4, <2>3
    <3>2. QED BY <1>4, <3>1 DEF Index!Next, Index!Withdraw
  <2>4. CASE \E g \in Nat : rows'[v] = {g}
    <3>1. PICK g \in Nat : rows'[v] = {g}
      BY <2>4
    <3>2. next = [index EXCEPT ![v] = {g}] /\ g \in next[v]
      BY <1>2, <1>4, <3>1
    <3>3. Index!Publish(v)
      BY <3>2 DEF Index!Publish
    <3>4. QED BY <1>4, <3>3 DEF Index!Next
  <2>5. QED BY <2>1, <2>2, <2>3, <2>4
<1>5. QED BY <1>3, <1>4

\* Runs of the same document, their retries, redeliveries and deaths implement
\* SearchIndex: search finds one whole set of chunks of a version or none, and a
\* commit puts another or none in its place in one step.  This is what makes the
\* commit of a run safe to repeat; a run that found no text takes the set away.
THEOREM Indexing == Spec => IndexSpec
<1>1. Init => Index!Init
  <2> SUFFICES ASSUME Init PROVE Index!Init
    OBVIOUS
  <2>1. \A v \in Versions : v \in Tables
    BY DEF Tables
  <2>2. \A v \in Versions : rows[v] = {} \/ rows[v] = {0}
    BY <2>1 DEF Init
  <2>3. QED BY <2>2 DEF Index!Init, Index!Single
<1>2. IInv /\ [Next]_vars => [Index!Next]_([v \in Versions |-> rows[v]])
  <2> SUFFICES ASSUME IInv, [Next]_vars, ~UNCHANGED rows
               PROVE  [Index!Next]_([v \in Versions |-> rows[v]])
    OBVIOUS
  <2>1. PICK w \in Workers : CommitRun(w)
    BY OnlyCommitsPublish DEF vars
  <2>2. w \in Actors
    BY DEF Actors
  <2>3. QED BY <2>1, <2>2, CommitPublishes
<1>3. QED BY <1>1, <1>2, Inductive, PTL DEF Spec, IndexSpec, Index!Spec
=============================================================================
