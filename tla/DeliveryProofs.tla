--------------------------- MODULE DeliveryProofs ---------------------------
(***************************************************************************)
(* Proofs about the job queue, about the delivery built on it and about    *)
(* the digest, for any keys, tasks, rows, kinds, features, ticks and       *)
(* faults.  The queue: its types, and that coalescing loses no work.       *)
(* Delivery: one email and one push per notification row, whatever mix of  *)
(* jobs, retries and dispatch ticks handles it; only a transaction lost    *)
(* after sending costs another one.  The digest: a notification reaches    *)
(* its recipient once, on one path, and the schedule sends one digest a    *)
(* day.                                                                    *)
(***************************************************************************)
EXTENDS NotificationDelivery, ActivityDigest, FiniteSetTheorems, TLAPS

(* The queue *)

TaskRecord == [pc : Phases, key : Keys, attempt : 1..MaxAttempts]

LEMMA InUse ==
  ASSUME QueueTypeOK, NEW t \in TaskIds, task[t].pc # "none"
  PROVE  /\ task[t] \in TaskRecord
         /\ task[t].key \in Keys
         /\ task[t].attempt \in 1..MaxAttempts
  BY DEF QueueTypeOK, TaskRecord, NoTask

LEMMA NothingPosted == Nothing \in [Keys -> 0..MaxPosts]
BY QueueAssumption DEF Nothing

LEMMA NoTasks == [t \in TaskIds |-> NoTask] \in [TaskIds -> {NoTask} \cup TaskRecord]
OBVIOUS

LEMMA EmptyLine == <<>> \in Seq(TaskIds)
OBVIOUS

(* The variables keep their types: in particular no job is tried more than
   max_attempts times (_run). *)
THEOREM TypeCorrect == QueueSpec => []QueueTypeOK
<1>1. QueueInit => QueueTypeOK
  <2> SUFFICES ASSUME QueueInit PROVE QueueTypeOK
    OBVIOUS
  <2> QED BY EmptyLine, NothingPosted, NoTasks DEF QueueInit, QueueTypeOK, TaskRecord
<1>2. QueueTypeOK /\ [QueueNext]_queueVars => QueueTypeOK'
  <2> SUFFICES ASSUME QueueTypeOK, [QueueNext]_queueVars
               PROVE  QueueTypeOK'
    OBVIOUS
  <2> USE QueueAssumption
  <2>1. CASE Start
    BY <2>1 DEF Start, QueueTypeOK, Nothing
  <2>2. CASE Stop
    <3>1. \A t \in TaskIds : task'[t] \in {NoTask} \cup TaskRecord
      BY <2>2, InUse DEF Stop, QueueTypeOK, TaskRecord, NoTask, Phases
    <3>2. task' \in [TaskIds -> {NoTask} \cup TaskRecord]
      BY <2>2, <3>1 DEF Stop
    <3>3. waiters' \in Seq(TaskIds)
      BY <2>2, EmptyLine DEF Stop
    <3> QED BY <2>2, <3>2, <3>3 DEF Stop, QueueTypeOK, TaskRecord
  <2>3. CASE QueueCrash
    BY <2>3, EmptyLine, NothingPosted, NoTasks DEF QueueCrash, QueueTypeOK, TaskRecord
  <2>4. ASSUME NEW k \in Keys, Enqueue(k) PROVE QueueTypeOK'
    BY <2>4 DEF Enqueue, QueueTypeOK, queueVars
  <2>5. ASSUME NEW k \in Keys, Coalesce(k) PROVE QueueTypeOK'
    BY <2>5 DEF Coalesce, QueueTypeOK
  <2>6. ASSUME NEW k \in Keys, NEW t \in TaskIds, Schedule(k, t) PROVE QueueTypeOK'
    BY <2>6 DEF Schedule, QueueTypeOK, Phases
  <2>7. ASSUME NEW t \in TaskIds, Wake(t) PROVE QueueTypeOK'
    <3>1. task[t] \in TaskRecord /\ task[t].key \in Keys
      BY <2>7, InUse DEF Wake
    <3>2. task' \in [TaskIds -> {NoTask} \cup TaskRecord]
      BY <2>7, <3>1 DEF Wake, QueueTypeOK, TaskRecord, Phases
    <3>3. waiters' \in Seq(TaskIds)
      BY <2>7 DEF Wake, QueueTypeOK
    <3> QED BY <2>7, <3>2, <3>3 DEF Wake, QueueTypeOK, TaskRecord
  <2>8. ASSUME NEW t \in TaskIds, Begin(t) PROVE QueueTypeOK'
    <3>1. task[t] \in TaskRecord
      BY <2>8, InUse DEF Begin
    <3>2. task' \in [TaskIds -> {NoTask} \cup TaskRecord]
      BY <2>8, <3>1 DEF Begin, QueueTypeOK, TaskRecord, Phases
    <3>3. waiters' \in Seq(TaskIds)
      BY <2>8 DEF Begin, QueueTypeOK
    <3> QED BY <2>8, <3>2, <3>3 DEF Begin, QueueTypeOK, TaskRecord
  <2>9. ASSUME NEW t \in TaskIds, End(t) PROVE QueueTypeOK'
    BY <2>9 DEF End, QueueTypeOK
  <2>10. ASSUME NEW t \in TaskIds, Retry(t) PROVE QueueTypeOK'
    <3>1. task[t] \in TaskRecord /\ task[t].key \in Keys
          /\ task[t].attempt \in 1..MaxAttempts
      BY <2>10, InUse DEF Retry
    <3>2. task[t].attempt + 1 \in 1..MaxAttempts
      BY <2>10, <3>1 DEF Retry
    <3>3. task' \in [TaskIds -> {NoTask} \cup TaskRecord]
      BY <2>10, <3>1, <3>2 DEF Retry, QueueTypeOK, TaskRecord, Phases
    <3> QED BY <2>10, <3>1, <3>3 DEF Retry, QueueTypeOK, TaskRecord
  <2>11. CASE UNCHANGED queueVars
    BY <2>11 DEF queueVars, QueueTypeOK
  <2> QED
    BY <2>1, <2>2, <2>3, <2>4, <2>5, <2>6, <2>7, <2>8, <2>9, <2>10, <2>11
       DEF QueueNext, LoopStep
<1> QED BY <1>1, <1>2, PTL DEF QueueSpec

-----------------------------------------------------------------------------
(* A stopped queue owes nothing: what it held was lost when it stopped. *)
DownOwesNothing == up \/ unserved = {}

ServedInv == PendingIsSleeping /\ DownOwesNothing /\ EnqueuedIsServed

(* EnqueuedIsServed is not inductive alone: coalescing drops a callback
   because the key is pending, so pending must mean that a task of that key
   has yet to begin. *)
LEMMA ServedStep ==
  ASSUME QueueTypeOK, ServedInv, [QueueNext]_queueVars
  PROVE  ServedInv'
<1> USE QueueAssumption
<1> USE DEF ServedInv, DownOwesNothing
<1>1. CASE Start
  BY <1>1 DEF Start, PendingIsSleeping, EnqueuedIsServed, Waiting
<1>2. CASE Stop
  BY <1>2 DEF Stop, PendingIsSleeping, EnqueuedIsServed
<1>3. CASE QueueCrash
  BY <1>3 DEF QueueCrash, PendingIsSleeping, EnqueuedIsServed
<1>4. ASSUME NEW k \in Keys, Enqueue(k) PROVE ServedInv'
  <2>1. CASE up
    <3>1. /\ posted[k] \in Nat
          /\ posted' = [posted EXCEPT ![k] = posted[k] + 1]
          /\ unserved' = unserved \cup {k}
          /\ UNCHANGED <<up, pending, task>>
      BY <1>4, <2>1 DEF Enqueue, QueueTypeOK
    <3>2. posted'[k] > 0 /\ \A m \in Keys \ {k} : posted'[m] = posted[m]
      BY <3>1 DEF QueueTypeOK
    <3>3. PendingIsSleeping'
      BY <3>1 DEF PendingIsSleeping
    <3>4. EnqueuedIsServed'
      BY <3>1, <3>2 DEF EnqueuedIsServed, Waiting, QueueTypeOK
    <3> QED BY <2>1, <3>1, <3>3, <3>4
  <2>2. CASE ~up
    BY <1>4, <2>2 DEF Enqueue, queueVars, PendingIsSleeping, EnqueuedIsServed, Waiting
  <2> QED BY <2>1, <2>2
<1>5. ASSUME NEW k \in Keys, Coalesce(k) PROVE ServedInv'
  <2>1. PendingIsSleeping'
    BY <1>5 DEF Coalesce, PendingIsSleeping
  <2>2. \A m \in Keys \ {k} : posted'[m] = posted[m]
    BY <1>5 DEF Coalesce, QueueTypeOK
  <2>3. ASSUME k \in unserved PROVE Waiting(k) # {}
    <3>1. up
      BY <2>3
    <3>2. k \in pending
      BY <1>5, <3>1 DEF Coalesce
    <3> QED BY <3>2 DEF PendingIsSleeping, Waiting
  <2>4. \A m \in Keys : Waiting(m)' = Waiting(m)
    BY <1>5 DEF Coalesce, Waiting
  <2>5. EnqueuedIsServed'
    <3> SUFFICES ASSUME NEW m \in unserved PROVE posted'[m] > 0 \/ Waiting(m) # {}
      BY <1>5, <2>4 DEF EnqueuedIsServed, Coalesce, QueueTypeOK
    <3> QED BY <2>2, <2>3 DEF EnqueuedIsServed, QueueTypeOK
  <2> QED BY <1>5, <2>1, <2>5 DEF Coalesce
<1>6. ASSUME NEW k \in Keys, NEW t \in TaskIds, Schedule(k, t) PROVE ServedInv'
  <2>1. /\ task[t] = NoTask
        /\ task'[t].key = k
        /\ task'[t].pc = "sleeping"
        /\ \A u \in TaskIds \ {t} : task'[u] = task[u]
        /\ \A m \in Keys \ {k} : posted'[m] = posted[m]
        /\ pending' = pending \cup {k}
        /\ UNCHANGED <<up, unserved>>
    BY <1>6 DEF Schedule, QueueTypeOK
  <2>2. PendingIsSleeping'
    BY <2>1 DEF PendingIsSleeping, NoTask
  <2>3. Waiting(k)' # {}
    BY <2>1 DEF Waiting
  <2>4. \A m \in Keys : Waiting(m) \subseteq Waiting(m)'
    BY <2>1 DEF Waiting, NoTask
  <2>5. EnqueuedIsServed'
    BY <2>1, <2>3, <2>4 DEF EnqueuedIsServed, QueueTypeOK
  <2> QED BY <2>1, <2>2, <2>5
<1>7. ASSUME NEW t \in TaskIds, Wake(t) PROVE ServedInv'
  <2>1. /\ task[t].pc = "sleeping"
        /\ task'[t].key = task[t].key
        /\ task'[t].pc = "queued"
        /\ \A u \in TaskIds \ {t} : task'[u] = task[u]
        /\ pending' = pending \ {task[t].key}
        /\ UNCHANGED <<up, posted, unserved>>
    BY <1>7 DEF Wake, QueueTypeOK
  <2>2. PendingIsSleeping'
    BY <2>1 DEF PendingIsSleeping
  <2>3. \A m \in Keys : Waiting(m) \subseteq Waiting(m)'
    BY <2>1 DEF Waiting
  <2>4. EnqueuedIsServed'
    BY <2>1, <2>3 DEF EnqueuedIsServed, QueueTypeOK
  <2> QED BY <2>1, <2>2, <2>4
<1>8. ASSUME NEW t \in TaskIds, Begin(t) PROVE ServedInv'
  <2>1. /\ task[t].pc = "queued"
        /\ \A u \in TaskIds \ {t} : task'[u] = task[u]
        /\ unserved' = unserved \ {task[t].key}
        /\ UNCHANGED <<up, posted, pending>>
    BY <1>8 DEF Begin, QueueTypeOK
  <2>2. PendingIsSleeping'
    BY <2>1 DEF PendingIsSleeping
  <2>3. \A m \in Keys \ {task[t].key} : Waiting(m) \subseteq Waiting(m)'
    BY <2>1 DEF Waiting
  <2>4. EnqueuedIsServed'
    BY <2>1, <2>3 DEF EnqueuedIsServed, QueueTypeOK
  <2> QED BY <2>1, <2>2, <2>4
<1>9. ASSUME NEW t \in TaskIds, End(t) PROVE ServedInv'
  <2>1. /\ task[t].pc \in {"running", "detached"}
        /\ \A u \in TaskIds \ {t} : task'[u] = task[u]
        /\ UNCHANGED <<up, posted, pending, unserved>>
    BY <1>9 DEF End, QueueTypeOK
  <2>2. PendingIsSleeping'
    BY <2>1 DEF PendingIsSleeping
  <2>3. \A m \in Keys : Waiting(m) \subseteq Waiting(m)'
    BY <2>1 DEF Waiting
  <2>4. EnqueuedIsServed'
    BY <2>1, <2>3 DEF EnqueuedIsServed, QueueTypeOK
  <2> QED BY <2>1, <2>2, <2>4
<1>10. ASSUME NEW t \in TaskIds, Retry(t) PROVE ServedInv'
  <2>1. /\ task[t].pc = "running"
        /\ task'[t].key = task[t].key
        /\ task'[t].pc = "sleeping"
        /\ \A u \in TaskIds \ {t} : task'[u] = task[u]
        /\ pending' = pending \cup {task[t].key}
        /\ UNCHANGED <<up, posted, unserved>>
    BY <1>10 DEF Retry, QueueTypeOK
  <2>2. PendingIsSleeping'
    BY <2>1 DEF PendingIsSleeping
  <2>3. \A m \in Keys : Waiting(m) \subseteq Waiting(m)'
    BY <2>1 DEF Waiting
  <2>4. EnqueuedIsServed'
    BY <2>1, <2>3 DEF EnqueuedIsServed, QueueTypeOK
  <2> QED BY <2>1, <2>2, <2>4
<1>11. CASE UNCHANGED queueVars
  BY <1>11 DEF queueVars, PendingIsSleeping, EnqueuedIsServed, Waiting
<1> QED
  BY <1>1, <1>2, <1>3, <1>4, <1>5, <1>6, <1>7, <1>8, <1>9, <1>10, <1>11
     DEF QueueNext, LoopStep

LEMMA ServedInitially == QueueInit => ServedInv
BY DEF QueueInit, ServedInv, DownOwesNothing, PendingIsSleeping, EnqueuedIsServed

LEMMA ServedInvariant == QueueSpec => []ServedInv
BY ServedInitially, ServedStep, TypeCorrect, PTL DEF QueueSpec

(* No enqueued work is lost to coalescing: until a run of its key begins, a
   callback or a waiting task for it exists (_schedule, _run). *)
THEOREM EnqueuedIsServedHolds == QueueSpec => []EnqueuedIsServed
BY ServedInvariant, PTL DEF ServedInv

(* A pending key always has a sleeping task to be coalesced into. *)
THEOREM PendingIsSleepingHolds == QueueSpec => []PendingIsSleeping
BY ServedInvariant, PTL DEF ServedInv

-----------------------------------------------------------------------------
(* Delivery *)

RunRecord(m) ==
    [pc : {"idle", "due", "open", "over"}, pass : Passes, todo : SUBSET m,
     done : SUBSET m, mailed : SUBSET m, stamped : SUBSET m, transient : BOOLEAN]

\* What TypeOK says of everything but the queue, and the histories' domains.
DeliveryTypeOK ==
    /\ kind \in [Rows -> FanoutKinds \cup FastKinds]
    /\ emailed \subseteq made /\ pushed \subseteq made
    /\ stale \subseteq Rows /\ withdrawn \subseteq Keys
    /\ made \subseteq Rows
    /\ run \in [Runners -> RunRecord(made)]
    /\ sweep \in [Ticks -> SUBSET (Keys \cup {NoKey})]
    /\ locker \in Ticks \cup {NoKey}
    /\ {emails, pushes, spoiled} \subseteq [Rows -> Nat]

Held(w) == run[w].todo \cup run[w].done

\* A loop handles each row once, stamps only rows it has handled, and holds
\* nothing outside its transaction.
LoopOnce(w) ==
    /\ run[w].todo \cap run[w].done = {}
    /\ run[w].mailed \subseteq run[w].done /\ run[w].stamped \subseteq run[w].done
    /\ run[w].pc # "open" => Held(w) = {}

\* Row locks: no row is claimed by two transactions.
Claims == \A w \in Runners : LoopOnce(w) /\ \A v \in Runners \ {w} : Held(v) \cap Held(w) = {}

\* A job's handler runs only in a task that has begun and not ended.
TaskRuns == \A t \in TaskIds : run[t].pc # "idle" => task[t].pc \in {"running", "detached"}

DeliveryInv == DeliveryTypeOK /\ Claims /\ TaskRuns

\* A step of SendOnce on either channel, or none.
OnceStep == [Mails!OnceNext]_(Mails!onceVars) /\ [Pushes!OnceNext]_(Pushes!onceVars)

-----------------------------------------------------------------------------
(* The queue inside.                                                        *)

LEMMA BatchKey ==
  ASSUME NEW b \in Batches
  PROVE  KeyOf[CHOOSE r \in b : TRUE] \in Keys
<1>1. (CHOOSE r \in b : TRUE) \in Rows
  BY DeliveryAssumption
<1> QED
  BY <1>1, DeliveryAssumption

LEMMA QueueInside == Init /\ [][Next]_vars => QueueSpec
<1>1. Init => QueueInit
  BY DEF Init
<1>2. [Next]_vars => [QueueNext]_queueVars
  <2> SUFFICES ASSUME [Next]_vars PROVE [QueueNext]_queueVars
    OBVIOUS
  <2> USE DEF QueueNext
  <2>1. CASE QueueStep
    BY <2>1 DEF QueueStep, StopQueue, LoopStep
  <2>2. ASSUME NEW b \in Batches, Create(b) PROVE [QueueNext]_queueVars
    BY <2>2, BatchKey DEF Create
  <2>3. ASSUME NEW t \in TaskIds, BeginJob(t) \/ ClaimJob(t) \/ NextPass(t) \/ EndJob(t)
        PROVE  [QueueNext]_queueVars
    BY <2>3 DEF BeginJob, ClaimJob, NextPass, EndJob, LoopStep
  <2>4. CASE CrashQueue
    BY <2>4 DEF CrashQueue
  <2>5. ASSUME NEW k \in Keys, Withdraw(k) PROVE UNCHANGED queueVars
    BY <2>5 DEF Withdraw
  <2>6. ASSUME NEW r \in Rows, Age(r) PROVE UNCHANGED queueVars
    BY <2>6 DEF Age
  <2>7. ASSUME NEW w \in Runners, NEW r \in Rows, NEW e \in BOOLEAN, NEW p \in Answers,
               Send(w, r, e, p)
        PROVE  UNCHANGED queueVars
    BY <2>7 DEF Send
  <2>8. ASSUME NEW w \in Runners, CommitRun(w) \/ AbortRun(w) PROVE UNCHANGED queueVars
    BY <2>8 DEF CommitRun, AbortRun
  <2>9. ASSUME NEW w \in Ticks, TickBegin(w) \/ TickNext(w) \/ CrashTick(w)
        PROVE  UNCHANGED queueVars
    BY <2>9 DEF TickBegin, TickNext, CrashTick
  <2>10. ASSUME NEW w \in Ticks, NEW k \in Keys \cup {NoKey}, TickRun(w, k)
         PROVE  UNCHANGED queueVars
    BY <2>10 DEF TickRun
  <2>11. CASE UNCHANGED vars
    BY <2>11 DEF vars
  <2> QED
    BY <2>1, <2>2, <2>3, <2>4, <2>5, <2>6, <2>7, <2>8, <2>9, <2>10, <2>11 DEF Next
<1> QED
  BY <1>1, <1>2, PTL DEF QueueSpec

-----------------------------------------------------------------------------
(* What a step does to a runner's transaction.                              *)

Vacant(x) == x.pc # "open" /\ x.todo = {} /\ x.done = {} /\ x.mailed = {} /\ x.stamped = {}

LEMMA IdleVacant == Vacant(Idle) /\ \A m : Idle \in RunRecord(m)
BY DEF Vacant, Idle, RunRecord, Passes

\* A transaction ends, or has not begun.
LEMMA Vacates ==
  ASSUME DeliveryTypeOK, Claims, NEW w \in Runners, NEW x, Vacant(x),
         run' = [run EXCEPT ![w] = x]
  PROVE  Claims'
BY DEF DeliveryTypeOK, Claims, LoopOnce, Held, Vacant

LEMMA OpenedRecord ==
  ASSUME NEW k, NEW pass \in Passes
  PROVE  /\ Opened(k, pass) \in RunRecord(made)
         /\ Opened(k, pass).pc = "open"
         /\ Opened(k, pass).done = {} /\ Opened(k, pass).mailed = {}
         /\ Opened(k, pass).stamped = {}
         /\ \A r \in Opened(k, pass).todo : ~Locked(r)
BY DEF Opened, Idle, RunRecord, Selected, Passes

\* SKIP LOCKED: a transaction opens with rows nobody holds.
LEMMA Opens ==
  ASSUME DeliveryTypeOK, Claims, NEW w \in Runners, NEW k, NEW pass \in Passes,
         run' = [run EXCEPT ![w] = Opened(k, pass)]
  PROVE  Claims'
BY OpenedRecord DEF DeliveryTypeOK, Claims, LoopOnce, Held, Locked

\* The rows of a lost transaction are charged once each.
LEMMA SpoilCounts ==
  ASSUME DeliveryTypeOK, Claims, NEW W \in SUBSET Runners
  PROVE  /\ Spoil(W) \in [Rows -> Nat]
         /\ Spoil(W) = [r \in Rows |-> IF \E w \in W : r \in run[w].done
                                       THEN spoiled[r] + 1 ELSE spoiled[r]]
<1> DEFINE Doers(r) == {w \in W : r \in run[w].done}
<1>1. ASSUME NEW r \in Rows
      PROVE  \/ Doers(r) = {} /\ Cardinality(Doers(r)) = 0
             \/ Doers(r) # {} /\ Cardinality(Doers(r)) = 1
  <2>1. ASSUME NEW w \in Doers(r) PROVE Doers(r) = {w}
    BY <2>1 DEF Claims, Held
  <2> QED BY <2>1, FS_EmptySet, FS_Singleton
<1>2. Spoil(W) = [r \in Rows |-> spoiled[r] + Cardinality(Doers(r))]
  BY DEF Spoil
<1>3. spoiled \in [Rows -> Nat]
  BY DEF DeliveryTypeOK
<1> HIDE DEF Doers
<1>4. /\ Spoil(W) \in [Rows -> Nat]
      /\ Spoil(W) = [r \in Rows |-> IF Doers(r) # {} THEN spoiled[r] + 1 ELSE spoiled[r]]
  BY <1>1, <1>2, <1>3
<1> QED
  BY <1>4 DEF Doers

-----------------------------------------------------------------------------
(* What a step is on the two channels.                                      *)

InMail(r) == \E w \in Runners : r \in run[w].mailed
InPush(r) == \E w \in Runners : r \in run[w].stamped
Standing(here, stamp, handled) ==
  IF ~here THEN "none" ELSE IF stamp THEN "done" ELSE IF handled THEN "handled" ELSE "due"

LEMMA WhereRowsStand ==
  /\ MailPhase = [r \in Rows |-> Standing(r \in made, r \in emailed, InMail(r))]
  /\ PushPhase = [r \in Rows |-> Standing(r \in made, r \in pushed, InPush(r))]
BY DEF MailPhase, PushPhase, PhaseOf, Standing, InMail, InPush

LEMMA WhereRowsWillStand ==
  /\ MailPhase' = [r \in Rows |-> Standing(r \in made', r \in emailed', InMail(r)')]
  /\ PushPhase' = [r \in Rows |-> Standing(r \in made', r \in pushed', InPush(r)')]
BY DEF MailPhase, PushPhase, PhaseOf, Standing, InMail, InPush

\* A step that sends nothing, loses nothing and leaves every row where it stands.
LEMMA Stutters ==
  ASSUME UNCHANGED <<made, emailed, pushed, sentVars, spoiled>>,
         \A r \in Rows : (InMail(r)' <=> InMail(r)) /\ (InPush(r)' <=> InPush(r))
  PROVE  OnceStep
<1>1. MailPhase' = MailPhase /\ PushPhase' = PushPhase
  BY WhereRowsStand, WhereRowsWillStand DEF Standing
<1> QED
  BY <1>1 DEF OnceStep, Mails!onceVars, Pushes!onceVars, sentVars

\* A step that leaves the transactions and the stamps alone.
LEMMA Aside ==
  ASSUME Claims, UNCHANGED <<run, made, emailed, pushed, sentVars, spoiled>>
  PROVE  Claims' /\ OnceStep
<1>1. Claims'
  BY DEF Claims, LoopOnce, Held
<1>2. \A r \in Rows : (InMail(r)' <=> InMail(r)) /\ (InPush(r)' <=> InPush(r))
  BY DEF InMail, InPush
<1> QED
  BY <1>1, <1>2, Stutters

\* A transaction that stamps nothing more, or has nothing to lose, ends.
LEMMA VacatesQuietly ==
  ASSUME DeliveryTypeOK, Claims, NEW w \in Runners, NEW x, Vacant(x),
         run' = [run EXCEPT ![w] = x], run[w].pc # "open",
         UNCHANGED <<dbVars, sentVars, spoiled>>
  PROVE  Claims' /\ OnceStep
<1>1. Claims'
  BY Vacates
<1>2. \A r \in Rows : (InMail(r)' <=> InMail(r)) /\ (InPush(r)' <=> InPush(r))
  BY DEF Claims, LoopOnce, Held, Vacant, InMail, InPush, DeliveryTypeOK
<1> QED
  BY <1>1, <1>2, Stutters DEF dbVars

\* A new transaction has handled nothing yet.
LEMMA OpensQuietly ==
  ASSUME DeliveryTypeOK, Claims, NEW w \in Runners, NEW k, NEW pass \in Passes,
         run' = [run EXCEPT ![w] = Opened(k, pass)], run[w].pc # "open",
         UNCHANGED <<dbVars, sentVars, spoiled>>
  PROVE  Claims' /\ OnceStep
<1>1. Claims'
  BY Opens
<1>2. \A r \in Rows : (InMail(r)' <=> InMail(r)) /\ (InPush(r)' <=> InPush(r))
  BY OpenedRecord DEF Claims, LoopOnce, Held, InMail, InPush, DeliveryTypeOK
<1> QED
  BY <1>1, <1>2, Stutters DEF dbVars

\* The rows of a transaction that is lost are due again and charged for it: row locks
\* keep every other transaction away from them.
LEMMA VacatesCharged ==
  ASSUME DeliveryTypeOK, Claims, NEW W \in SUBSET Runners,
         run' = [w \in Runners |-> IF w \in W THEN run'[w] ELSE run[w]],
         \A w \in W : Vacant(run'[w]),
         spoiled' = Spoil(W), UNCHANGED <<dbVars, sentVars>>
  PROVE  Claims' /\ OnceStep
<1> DEFINE S == {r \in Rows : \E w \in W : r \in run[w].done}
<1>1. Claims'
  BY DEF DeliveryTypeOK, Claims, LoopOnce, Held, Vacant
<1>2. spoiled' = [r \in Rows |-> IF r \in S THEN spoiled[r] + 1 ELSE spoiled[r]]
  BY SpoilCounts
<1>3. ASSUME NEW r \in Rows
      PROVE  /\ InMail(r)' <=> InMail(r) /\ r \notin S
             /\ InPush(r)' <=> InPush(r) /\ r \notin S
  <2>1. \A w \in Runners : r \in run[w].mailed \/ r \in run[w].stamped => r \in run[w].done
    BY DEF Claims, LoopOnce
  <2>2. r \in S => \A w \in Runners \ W : r \notin run[w].done
    BY DEF Claims, Held
  <2>3. \A w \in W : run'[w].mailed = {} /\ run'[w].stamped = {}
    BY DEF Vacant
  <2>4. \A w \in Runners \ W : run'[w] = run[w]
    OBVIOUS
  <2> QED BY <2>1, <2>2, <2>3, <2>4 DEF InMail, InPush
<1> HIDE DEF S
<1>4. MailPhase' = [r \in Rows |-> IF r \in S /\ MailPhase[r] = "handled" THEN "due" ELSE MailPhase[r]]
  BY <1>3, WhereRowsStand, WhereRowsWillStand DEF Standing, dbVars
<1>5. PushPhase' = [r \in Rows |-> IF r \in S /\ PushPhase[r] = "handled" THEN "due" ELSE PushPhase[r]]
  BY <1>3, WhereRowsStand, WhereRowsWillStand DEF Standing, dbVars
<1>6. Mails!Lose(S) /\ Pushes!Lose(S)
  BY <1>2, <1>4, <1>5 DEF Mails!Lose, Pushes!Lose, sentVars
<1>7. S \in SUBSET Rows
  BY DEF S
<1> QED
  BY <1>1, <1>6, <1>7 DEF OnceStep, Mails!OnceNext, Pushes!OnceNext

\* session.commit(): what the transaction recorded becomes the stamps.
LEMMA Commits ==
  ASSUME DeliveryTypeOK, Claims, NEW w \in Runners, CommitRun(w)
  PROVE  Claims' /\ OnceStep
<1> DEFINE x == [Idle EXCEPT !.pc = "over", !.pass = run[w].pass,
                              !.transient = run[w].transient]
           M == {r \in Rows : r \in run[w].mailed /\ r \notin emailed}
           P == {r \in Rows : r \in run[w].stamped /\ r \notin pushed}
<1>1. run' = [run EXCEPT ![w] = x] /\ Vacant(x)
  BY DEF CommitRun, Vacant, Idle
<1>2. /\ emailed' = emailed \cup run[w].mailed /\ pushed' = pushed \cup run[w].stamped
      /\ UNCHANGED <<made, emails, pushes, spoiled>>
  BY DEF CommitRun, sentVars
<1>3. run[w].mailed \subseteq made /\ run[w].stamped \subseteq made
  BY DEF DeliveryTypeOK, RunRecord
<1> HIDE DEF x
<1>4. Claims'
  BY <1>1, Vacates
<1>5. \A r \in Rows : /\ r \notin run[w].mailed => (InMail(r)' <=> InMail(r))
                      /\ r \notin run[w].stamped => (InPush(r)' <=> InPush(r))
  BY <1>1 DEF Vacant, InMail, InPush, DeliveryTypeOK
<1>6. \A r \in Rows : (r \in run[w].mailed => InMail(r)) /\ (r \in run[w].stamped => InPush(r))
  BY DEF InMail, InPush
<1>7. /\ \A r \in M : MailPhase[r] = "handled"
      /\ MailPhase' = [r \in Rows |-> IF r \in M THEN "done" ELSE MailPhase[r]]
  BY <1>2, <1>3, <1>5, <1>6, WhereRowsStand, WhereRowsWillStand DEF Standing
<1>8. /\ \A r \in P : PushPhase[r] = "handled"
      /\ PushPhase' = [r \in Rows |-> IF r \in P THEN "done" ELSE PushPhase[r]]
  BY <1>2, <1>3, <1>5, <1>6, WhereRowsStand, WhereRowsWillStand DEF Standing
<1> HIDE DEF M, P
<1>9. Mails!Stamp(M) /\ Pushes!Stamp(P)
  BY <1>2, <1>7, <1>8 DEF Mails!Stamp, Pushes!Stamp
<1>10. M \in SUBSET Rows /\ P \in SUBSET Rows
  BY DEF M, P
<1> QED
  BY <1>4, <1>9, <1>10 DEF OnceStep, Mails!OnceNext, Pushes!OnceNext

\* A row is sent only while it is due, and then its transaction has it.
LEMMA Sends ==
  ASSUME DeliveryTypeOK, Claims, NEW w \in Runners, NEW r \in Rows,
         NEW e \in BOOLEAN, NEW p \in Answers, Send(w, r, e, p)
  PROVE  Claims' /\ OnceStep
<1> DEFINE x == Handled(w, r, e, p)
<1>1. /\ x.todo = run[w].todo \ {r} /\ x.done = run[w].done \cup {r} /\ x.pc = "open"
      /\ x.mailed \in {run[w].mailed, run[w].mailed \cup {r}}
      /\ x.stamped \in {run[w].stamped, run[w].stamped \cup {r}}
      /\ e => r \in x.mailed
      /\ p = "ok" => r \in x.stamped
  BY DEF Send, Handled, DeliveryTypeOK, RunRecord
<1>2. /\ run' = [run EXCEPT ![w] = x] /\ r \in run[w].todo /\ run[w].pc = "open"
      /\ e => r \notin emailed
      /\ p = "ok" => r \notin pushed
      /\ emails' = [emails EXCEPT ![r] = IF e THEN @ + 1 ELSE @]
      /\ pushes' = [pushes EXCEPT ![r] = IF p = "ok" THEN @ + 1 ELSE @]
      /\ UNCHANGED <<made, emailed, pushed, spoiled>>
  <2>1. run' = [run EXCEPT ![w] = x]
    BY DEF Send
  <2>2. /\ r \in run[w].todo /\ run[w].pc = "open"
        /\ emails' = [emails EXCEPT ![r] = IF e THEN @ + 1 ELSE @]
        /\ pushes' = [pushes EXCEPT ![r] = IF p = "ok" THEN @ + 1 ELSE @]
        /\ UNCHANGED <<made, emailed, pushed, spoiled>>
    BY DEF Send, dbVars
  <2>3. /\ e => r \notin emailed
        /\ p # "none" => r \notin pushed
    BY DEF Send
  <2> QED BY <2>1, <2>2, <2>3
<1>3. {emails, pushes} \subseteq [Rows -> Nat]
  BY DEF DeliveryTypeOK
<1>4. r \in made
  BY <1>2 DEF DeliveryTypeOK, RunRecord
<1> HIDE DEF x
<1>5. /\ run'[w] = x
      /\ \A v \in Runners \ {w} : run'[v] = run[v]
  BY <1>2 DEF DeliveryTypeOK
<1>6. Claims'
  BY <1>1, <1>2, <1>5 DEF Claims, LoopOnce, Held
<1>7. ~InMail(r) /\ ~InPush(r)
  BY <1>2 DEF Claims, LoopOnce, Held, InMail, InPush
<1>8. \A q \in Rows : /\ InMail(q)' <=> InMail(q) \/ (q = r /\ r \in x.mailed)
                      /\ InPush(q)' <=> InPush(q) \/ (q = r /\ r \in x.stamped)
  BY <1>1, <1>5 DEF InMail, InPush
<1>9. [Mails!OnceNext]_(Mails!onceVars)
  <2>1. CASE r \in x.mailed /\ r \notin emailed
    <3>1. MailPhase[r] = "due" /\ MailPhase' = [MailPhase EXCEPT ![r] = "handled"]
      BY <1>2, <1>4, <1>7, <1>8, <2>1, WhereRowsStand, WhereRowsWillStand DEF Standing
    <3>2. \E n \in {0, 1} : emails' = [emails EXCEPT ![r] = @ + n]
      <4>1. CASE e
        BY <1>2, <4>1
      <4>2. CASE ~e
        <5>1. emails' = [emails EXCEPT ![r] = emails[r]] /\ emails[r] + 0 = emails[r]
          BY <1>2, <1>3, <4>2
        <5> QED BY <5>1
      <4> QED BY <4>1, <4>2
    <3>3. Mails!Handle(r)
      BY <1>2, <3>1, <3>2 DEF Mails!Handle
    <3> QED BY <3>3 DEF Mails!OnceNext
  <2>2. CASE ~(r \in x.mailed /\ r \notin emailed)
    <3>1. MailPhase' = MailPhase
      BY <1>2, <1>8, <2>2, WhereRowsStand, WhereRowsWillStand DEF Standing
    <3>2. emails' = emails
      BY <1>1, <1>2, <1>3, <2>2
    <3> QED BY <1>2, <3>1, <3>2 DEF Mails!onceVars
  <2> QED BY <2>1, <2>2
<1>10. [Pushes!OnceNext]_(Pushes!onceVars)
  <2>1. CASE r \in x.stamped /\ r \notin pushed
    <3>1. PushPhase[r] = "due" /\ PushPhase' = [PushPhase EXCEPT ![r] = "handled"]
      BY <1>2, <1>4, <1>7, <1>8, <2>1, WhereRowsStand, WhereRowsWillStand DEF Standing
    <3>2. \E n \in {0, 1} : pushes' = [pushes EXCEPT ![r] = @ + n]
      <4>1. CASE p = "ok"
        BY <1>2, <4>1
      <4>2. CASE p # "ok"
        <5>1. pushes' = [pushes EXCEPT ![r] = pushes[r]] /\ pushes[r] + 0 = pushes[r]
          BY <1>2, <1>3, <4>2
        <5> QED BY <5>1
      <4> QED BY <4>1, <4>2
    <3>3. Pushes!Handle(r)
      BY <1>2, <3>1, <3>2 DEF Pushes!Handle
    <3> QED BY <3>3 DEF Pushes!OnceNext
  <2>2. CASE ~(r \in x.stamped /\ r \notin pushed)
    <3>1. PushPhase' = PushPhase
      BY <1>2, <1>8, <2>2, WhereRowsStand, WhereRowsWillStand DEF Standing
    <3>2. pushes' = pushes
      BY <1>1, <1>2, <1>3, <2>2
    <3> QED BY <1>2, <3>1, <3>2 DEF Pushes!onceVars
  <2> QED BY <2>1, <2>2
<1> QED
  BY <1>6, <1>9, <1>10 DEF OnceStep

\* Rows are committed: they are due on both channels.
LEMMA Creates ==
  ASSUME DeliveryTypeOK, Claims, NEW b \in Batches, b \cap made = {}, made' = made \cup b,
         UNCHANGED <<run, emailed, pushed, sentVars, spoiled>>
  PROVE  Claims' /\ OnceStep
<1>1. Claims'
  BY DEF Claims, LoopOnce, Held
<1>2. /\ b \in SUBSET Rows
      /\ \A r \in b : r \notin emailed /\ r \notin pushed /\ ~InMail(r) /\ ~InPush(r)
  BY DeliveryAssumption DEF DeliveryTypeOK, RunRecord, InMail, InPush
<1>3. \A r \in Rows : (InMail(r)' <=> InMail(r)) /\ (InPush(r)' <=> InPush(r))
  BY DEF InMail, InPush
<1>4. /\ \A r \in b : MailPhase[r] = "none" /\ PushPhase[r] = "none"
      /\ MailPhase' = [r \in Rows |-> IF r \in b THEN "due" ELSE MailPhase[r]]
      /\ PushPhase' = [r \in Rows |-> IF r \in b THEN "due" ELSE PushPhase[r]]
  BY <1>2, <1>3, WhereRowsStand, WhereRowsWillStand DEF Standing
<1>5. Mails!Make(b) /\ Pushes!Make(b)
  BY <1>4 DEF Mails!Make, Pushes!Make, sentVars
<1> QED
  BY <1>1, <1>2, <1>5 DEF OnceStep, Mails!OnceNext, Pushes!OnceNext

-----------------------------------------------------------------------------
(* Initially, and action by action.                                         *)

LEMMA InitInv == Init => DeliveryInv
<1> SUFFICES ASSUME Init PROVE DeliveryInv
  OBVIOUS
<1>1. \A w \in Runners : run[w] = Idle
  BY DEF Init
<1>2. DeliveryTypeOK
  <2>1. run \in [Runners -> RunRecord(made)]
    BY IdleVacant DEF Init
  <2> QED BY <2>1, DeliveryAssumption DEF Init, DeliveryTypeOK
<1>3. Claims
  BY <1>1, IdleVacant DEF Claims, LoopOnce, Held, Vacant
<1>4. TaskRuns
  BY <1>1 DEF TaskRuns, Idle, Runners
<1> QED
  BY <1>2, <1>3, <1>4 DEF DeliveryInv

LEMMA RunTyped ==
  ASSUME DeliveryTypeOK, NEW w \in Runners, NEW x \in RunRecord(made),
         run' = [run EXCEPT ![w] = x], UNCHANGED <<made>>
  PROVE  run' \in [Runners -> RunRecord(made')]
BY DEF DeliveryTypeOK

LEMMA RecordUpdated ==
  ASSUME NEW m, NEW x \in RunRecord(m), NEW T \in SUBSET m, NEW D \in SUBSET m,
         NEW M \in SUBSET m, NEW N \in SUBSET m, NEW y \in BOOLEAN
  PROVE  [x EXCEPT !.todo = T, !.done = D, !.mailed = M, !.stamped = N, !.transient = y]
         \in RunRecord(m)
BY DEF RunRecord

\* Requests, the queue's own steps and the choice of a tick's work.
LEMMA AsideInv ==
  ASSUME QueueTypeOK, DeliveryInv,
         \/ QueueStep
         \/ \E b \in Batches : Create(b)
         \/ \E k \in Keys : Withdraw(k)
         \/ \E r \in Rows : Age(r)
         \/ \E w \in Ticks : TickBegin(w)
         \/ UNCHANGED vars
  PROVE  DeliveryInv' /\ OnceStep
<1> USE DEF DeliveryInv
<1>1. CASE QueueStep
  <2>1. UNCHANGED <<dbVars, run, tickVars, sentVars, spoiled>>
    BY <1>1 DEF QueueStep
  <2>2. DeliveryTypeOK'
    BY <2>1 DEF DeliveryTypeOK, dbVars, tickVars, sentVars
  <2>3. Claims' /\ OnceStep
    BY <2>1, Aside DEF dbVars
  <2>4. ASSUME NEW t \in TaskIds, task[t].pc \in {"running", "detached"}
        PROVE  task'[t].pc \in {"running", "detached"}
    <3>1. CASE Start \/ \E k \in Keys : Coalesce(k)
      BY <2>4, <3>1 DEF Start, Coalesce
    <3>2. CASE StopQueue
      BY <2>4, <3>2 DEF StopQueue, Stop
    <3>3. ASSUME NEW k \in Keys, NEW u \in TaskIds, Schedule(k, u)
          PROVE  task'[t].pc \in {"running", "detached"}
      BY <2>4, <3>3 DEF Schedule, NoTask, QueueTypeOK
    <3>4. ASSUME NEW u \in TaskIds, Wake(u) PROVE task'[t].pc \in {"running", "detached"}
      BY <2>4, <3>4 DEF Wake, QueueTypeOK
    <3> QED BY <1>1, <3>1, <3>2, <3>3, <3>4 DEF QueueStep
  <2>5. TaskRuns'
    BY <2>1, <2>4 DEF TaskRuns
  <2> QED BY <2>2, <2>3, <2>5
<1>2. ASSUME NEW b \in Batches, Create(b) PROVE DeliveryInv' /\ OnceStep
  <2>1. /\ made' = made \cup b /\ task' = task
        /\ UNCHANGED <<kind, emailed, pushed, stale, withdrawn, run, tickVars, sentVars, spoiled>>
    BY <1>2 DEF Create, Enqueue, queueVars
  <2>2. RunRecord(made) \subseteq RunRecord(made')
    BY <2>1 DEF RunRecord
  <2>3. DeliveryTypeOK'
    BY <2>1, <2>2, DeliveryAssumption DEF DeliveryTypeOK, tickVars, sentVars
  <2>4. Claims' /\ OnceStep
    BY <1>2, <2>1, Creates DEF Create
  <2>5. TaskRuns'
    BY <2>1 DEF TaskRuns
  <2> QED BY <2>3, <2>4, <2>5
<1>3. ASSUME NEW k \in Keys, Withdraw(k) PROVE DeliveryInv' /\ OnceStep
  <2>1. DeliveryTypeOK'
    BY <1>3 DEF Withdraw, DeliveryTypeOK, tickVars, sentVars
  <2>2. Claims' /\ OnceStep
    BY <1>3, Aside DEF Withdraw
  <2>3. TaskRuns'
    BY <1>3 DEF Withdraw, TaskRuns, queueVars
  <2> QED BY <2>1, <2>2, <2>3
<1>4. ASSUME NEW r \in Rows, Age(r) PROVE DeliveryInv' /\ OnceStep
  <2>1. DeliveryTypeOK'
    BY <1>4 DEF Age, DeliveryTypeOK, tickVars, sentVars
  <2>2. Claims' /\ OnceStep
    BY <1>4, Aside DEF Age
  <2>3. TaskRuns'
    BY <1>4 DEF Age, TaskRuns, queueVars
  <2> QED BY <2>1, <2>2, <2>3
<1>5. ASSUME NEW w \in Ticks, TickBegin(w) PROVE DeliveryInv' /\ OnceStep
  <2>1. SweepJobs \cup {NoKey} \in SUBSET (Keys \cup {NoKey})
    BY DeliveryAssumption DEF SweepJobs
  <2>2. sweep' \in [Ticks -> SUBSET (Keys \cup {NoKey})] /\ locker' \in Ticks \cup {NoKey}
    BY <1>5, <2>1 DEF TickBegin, DeliveryTypeOK
  <2>3. DeliveryTypeOK'
    BY <1>5, <2>2 DEF TickBegin, DeliveryTypeOK, dbVars, sentVars
  <2>4. Claims' /\ OnceStep
    BY <1>5, Aside DEF TickBegin, dbVars
  <2>5. TaskRuns'
    BY <1>5 DEF TickBegin, TaskRuns, queueVars
  <2> QED BY <2>3, <2>4, <2>5
<1>6. CASE UNCHANGED vars
  <2>1. UNCHANGED <<dbVars, run, tickVars, sentVars, spoiled, task>>
    BY <1>6 DEF vars, queueVars
  <2>2. DeliveryTypeOK'
    BY <2>1 DEF DeliveryTypeOK, dbVars, tickVars, sentVars
  <2>3. Claims' /\ OnceStep
    BY <2>1, Aside DEF dbVars
  <2>4. TaskRuns'
    BY <2>1 DEF TaskRuns
  <2> QED BY <2>2, <2>3, <2>4
<1> QED
  BY <1>1, <1>2, <1>3, <1>4, <1>5, <1>6

\* The transactions: the loop, its commit and its rollback.
LEMMA TransactionInv ==
  ASSUME QueueTypeOK, DeliveryInv, NEW w \in Runners,
         \/ \E r \in Rows, e \in BOOLEAN, p \in Answers : Send(w, r, e, p)
         \/ CommitRun(w)
         \/ AbortRun(w)
  PROVE  DeliveryInv' /\ OnceStep
<1> USE DEF DeliveryInv
<1>1. /\ run[w].pc = "open" /\ UNCHANGED <<queueVars, kind, made, stale, withdrawn, tickVars>>
      /\ \E x : run' = [run EXCEPT ![w] = x]
  <2>1. CASE \E r \in Rows, e \in BOOLEAN, p \in Answers : Send(w, r, e, p)
    BY <2>1 DEF Send, dbVars
  <2>2. CASE CommitRun(w)
    BY <2>2 DEF CommitRun
  <2>3. CASE AbortRun(w)
    BY <2>3 DEF AbortRun, dbVars
  <2> QED BY <2>1, <2>2, <2>3
<1>2. TaskRuns'
  BY <1>1 DEF TaskRuns, DeliveryTypeOK, queueVars
<1>3. ASSUME NEW r \in Rows, NEW e \in BOOLEAN, NEW p \in Answers, Send(w, r, e, p)
      PROVE  DeliveryInv' /\ OnceStep
  <2>1. Handled(w, r, e, p) \in RunRecord(made)
    <3> DEFINE h == Handler(r, run[w].pass)
               T == run[w].todo \ {r}
               D == run[w].done \cup {r}
               M == IF e \/ (h.consume /\ h.email)
                    THEN run[w].mailed \cup {r} ELSE run[w].mailed
               N == IF p = "ok" \/ (h.consume /\ p = "none")
                    THEN run[w].stamped \cup {r} ELSE run[w].stamped
               y == run[w].transient \/ (p = "transient" /\ h.retry)
    <3>1. r \in made /\ run[w] \in RunRecord(made)
      BY <1>3 DEF Send, DeliveryTypeOK, RunRecord
    <3>2. T \in SUBSET made /\ D \in SUBSET made /\ M \in SUBSET made /\ N \in SUBSET made
      BY <3>1 DEF RunRecord
    <3>3. y \in BOOLEAN
      OBVIOUS
    <3>4. Handled(w, r, e, p) =
            [run[w] EXCEPT !.todo = T, !.done = D, !.mailed = M, !.stamped = N,
                           !.transient = y]
      BY DEF Handled
    <3> HIDE DEF h, T, D, M, N, y
    <3>5. [run[w] EXCEPT !.todo = T, !.done = D, !.mailed = M, !.stamped = N,
                         !.transient = y] \in RunRecord(made)
      BY <3>1, <3>2, <3>3, RecordUpdated
    <3> QED BY <3>4, <3>5
  <2>2. run' \in [Runners -> RunRecord(made')]
    BY <1>1, <1>3, <2>1, RunTyped DEF Send
  <2>3. {emails', pushes'} \subseteq [Rows -> Nat]
    BY <1>3 DEF Send, DeliveryTypeOK
  <2>4. DeliveryTypeOK'
    BY <1>3, <2>2, <2>3 DEF Send, DeliveryTypeOK, dbVars, tickVars
  <2> QED BY <1>2, <1>3, <2>4, Sends
<1>4. CASE CommitRun(w)
  <2> DEFINE x == [Idle EXCEPT !.pc = "over", !.pass = run[w].pass,
                               !.transient = run[w].transient]
  <2>1. x \in RunRecord(made)
    BY DEF DeliveryTypeOK, RunRecord, Idle
  <2>2. run' \in [Runners -> RunRecord(made')]
    BY <1>1, <1>4, <2>1, RunTyped DEF CommitRun
  <2>3. emailed' \subseteq made /\ pushed' \subseteq made
    BY <1>4 DEF CommitRun, DeliveryTypeOK, RunRecord
  <2>4. DeliveryTypeOK'
    BY <1>4, <2>2, <2>3 DEF CommitRun, DeliveryTypeOK, tickVars, sentVars
  <2> QED BY <1>2, <1>4, <2>4, Commits
<1>5. CASE AbortRun(w)
  <2> DEFINE x == [Idle EXCEPT !.pc = "over"]
  <2>1. x \in RunRecord(made) /\ Vacant(x)
    BY DEF RunRecord, Idle, Passes, Vacant
  <2>2. /\ run' = [run EXCEPT ![w] = x] /\ spoiled' = Spoil({w})
        /\ UNCHANGED <<dbVars, tickVars, sentVars>>
    BY <1>5 DEF AbortRun
  <2> HIDE DEF x
  <2>3. run' \in [Runners -> RunRecord(made')]
    BY <1>1, <2>1, <2>2, RunTyped
  <2>4. spoiled' \in [Rows -> Nat]
    BY <2>2, SpoilCounts
  <2>5. DeliveryTypeOK'
    BY <2>2, <2>3, <2>4 DEF DeliveryTypeOK, dbVars, tickVars, sentVars
  <2>6. run' = [v \in Runners |-> IF v \in {w} THEN run'[v] ELSE run[v]]
        /\ \A v \in {w} : Vacant(run'[v])
    BY <2>1, <2>2 DEF DeliveryTypeOK
  <2>7. Claims' /\ OnceStep
    BY <2>2, <2>6, VacatesCharged
  <2> QED BY <1>2, <2>5, <2>7
<1> QED
  BY <1>3, <1>4, <1>5

LEMMA PassChosen == \A k : FirstPass(k) \in Passes
BY DEF FirstPass, Passes

\* The job's thread: its passes, one transaction each.
LEMMA JobInv ==
  ASSUME QueueTypeOK, DeliveryInv, NEW t \in TaskIds,
         BeginJob(t) \/ ClaimJob(t) \/ NextPass(t) \/ EndJob(t)
  PROVE  DeliveryInv' /\ OnceStep
<1> USE DEF DeliveryInv
<1>t. t \in Runners
  BY DEF Runners
<1>1. CASE BeginJob(t)
  <2> DEFINE x == [Idle EXCEPT !.pc = "due", !.pass = FirstPass(task[t].key)]
  <2>1. x \in RunRecord(made) /\ Vacant(x)
    BY PassChosen DEF RunRecord, Idle, Passes, Vacant
  <2>2. /\ run' = [run EXCEPT ![t] = x]
        /\ UNCHANGED <<dbVars, tickVars, sentVars, spoiled>>
    BY <1>1 DEF BeginJob
  <2> HIDE DEF x
  <2>3. /\ task[t].pc = "queued" /\ task'[t].pc = "running"
        /\ \A u \in TaskIds \ {t} : task'[u] = task[u]
    BY <1>1 DEF BeginJob, Begin, QueueTypeOK
  <2>4. run[t].pc # "open"
    BY <2>3 DEF TaskRuns
  <2>5. DeliveryTypeOK'
    BY <1>t, <2>1, <2>2, RunTyped DEF DeliveryTypeOK, dbVars, tickVars, sentVars
  <2>6. Claims' /\ OnceStep
    BY <1>t, <2>1, <2>2, <2>4, VacatesQuietly
  <2>7. TaskRuns'
    BY <1>t, <2>2, <2>3 DEF TaskRuns, DeliveryTypeOK
  <2> QED BY <2>5, <2>6, <2>7
<1>2. CASE ClaimJob(t)
  <2>1. /\ run[t].pc = "due" /\ run' = [run EXCEPT ![t] = Opened(task[t].key, run[t].pass)]
        /\ UNCHANGED <<queueVars, dbVars, tickVars, sentVars, spoiled>>
    BY <1>2 DEF ClaimJob
  <2>2. run[t].pass \in Passes
    BY <1>t DEF DeliveryTypeOK, RunRecord
  <2>3. Opened(task[t].key, run[t].pass) \in RunRecord(made)
    BY <2>2, OpenedRecord
  <2>4. DeliveryTypeOK'
    BY <1>t, <2>1, <2>3, RunTyped DEF DeliveryTypeOK, dbVars, tickVars, sentVars
  <2>5. Claims' /\ OnceStep
    BY <1>t, <2>1, <2>2, OpensQuietly
  <2>6. TaskRuns'
    BY <1>t, <2>1 DEF TaskRuns, DeliveryTypeOK, queueVars
  <2> QED BY <2>4, <2>5, <2>6
<1>3. CASE NextPass(t)
  <2> DEFINE x == [Idle EXCEPT !.pc = "due", !.pass = "generic"]
  <2>1. x \in RunRecord(made) /\ Vacant(x)
    BY DEF RunRecord, Idle, Passes, Vacant
  <2>2. /\ run[t].pc = "over" /\ run' = [run EXCEPT ![t] = x]
        /\ UNCHANGED <<queueVars, dbVars, tickVars, sentVars, spoiled>>
    BY <1>3 DEF NextPass
  <2> HIDE DEF x
  <2>3. DeliveryTypeOK'
    BY <1>t, <2>1, <2>2, RunTyped DEF DeliveryTypeOK, dbVars, tickVars, sentVars
  <2>4. Claims' /\ OnceStep
    BY <1>t, <2>1, <2>2, VacatesQuietly
  <2>5. TaskRuns'
    BY <1>t, <2>2 DEF TaskRuns, DeliveryTypeOK, queueVars
  <2> QED BY <2>3, <2>4, <2>5
<1>4. CASE EndJob(t)
  <2>1. /\ run[t].pc = "over" /\ run' = [run EXCEPT ![t] = Idle]
        /\ UNCHANGED <<dbVars, tickVars, sentVars, spoiled>>
    BY <1>4 DEF EndJob
  <2>2. \A u \in TaskIds \ {t} : task'[u] = task[u]
    BY <1>4 DEF EndJob, Retry, End, QueueTypeOK
  <2>3. DeliveryTypeOK'
    BY <1>t, <2>1, IdleVacant, RunTyped DEF DeliveryTypeOK, dbVars, tickVars, sentVars
  <2>4. Claims' /\ OnceStep
    BY <1>t, <2>1, IdleVacant, VacatesQuietly
  <2>5. run'[t].pc = "idle" /\ \A u \in TaskIds \ {t} : run'[u] = run[u]
    BY <1>t, <2>1 DEF DeliveryTypeOK, Idle, Runners
  <2>6. TaskRuns'
    BY <2>2, <2>5 DEF TaskRuns
  <2> QED BY <2>3, <2>4, <2>6
<1> QED
  BY <1>1, <1>2, <1>3, <1>4

\* The dispatch tick.
LEMMA TickInv ==
  ASSUME QueueTypeOK, DeliveryInv, NEW w \in Ticks,
         TickNext(w) \/ CrashTick(w) \/ \E k \in Keys \cup {NoKey} : TickRun(w, k)
  PROVE  DeliveryInv' /\ OnceStep
<1> USE DEF DeliveryInv
<1>t. w \in Runners /\ w \notin TaskIds
  BY DeliveryAssumption DEF Runners
<1>1. CASE TickNext(w)
  <2>1. /\ run[w].pc = "over" /\ run' = [run EXCEPT ![w] = Idle]
        /\ locker' \in {NoKey, locker}
        /\ UNCHANGED <<queueVars, dbVars, sweep, sentVars, spoiled>>
    BY <1>1 DEF TickNext
  <2>2. DeliveryTypeOK'
    BY <1>t, <2>1, IdleVacant, RunTyped DEF DeliveryTypeOK, dbVars, sentVars
  <2>3. Claims' /\ OnceStep
    BY <1>t, <2>1, IdleVacant, VacatesQuietly
  <2>4. TaskRuns'
    BY <1>t, <2>1 DEF TaskRuns, DeliveryTypeOK, queueVars
  <2> QED BY <2>2, <2>3, <2>4
<1>2. CASE CrashTick(w)
  <2>1. /\ run' = [run EXCEPT ![w] = Idle] /\ spoiled' = Spoil({w})
        /\ sweep' = [sweep EXCEPT ![w] = {}] /\ locker' \in {NoKey, locker}
        /\ UNCHANGED <<queueVars, dbVars, sentVars>>
    BY <1>2 DEF CrashTick
  <2>2. /\ spoiled' \in [Rows -> Nat]
        /\ sweep' \in [Ticks -> SUBSET (Keys \cup {NoKey})]
    BY <1>t, <2>1, SpoilCounts DEF DeliveryTypeOK
  <2>3. DeliveryTypeOK'
    BY <1>t, <2>1, <2>2, IdleVacant, RunTyped DEF DeliveryTypeOK, dbVars, sentVars
  <2>4. run' = [v \in Runners |-> IF v \in {w} THEN run'[v] ELSE run[v]]
        /\ \A v \in {w} : Vacant(run'[v])
    BY <1>t, <2>1, IdleVacant DEF DeliveryTypeOK
  <2>5. Claims' /\ OnceStep
    BY <1>t, <2>1, <2>4, VacatesCharged
  <2>6. TaskRuns'
    BY <1>t, <2>1 DEF TaskRuns, DeliveryTypeOK, queueVars
  <2> QED BY <2>3, <2>5, <2>6
<1>3. ASSUME NEW k \in Keys \cup {NoKey}, TickRun(w, k) PROVE DeliveryInv' /\ OnceStep
  <2> DEFINE pass == IF k = NoKey THEN "generic" ELSE "fanout"
  <2>1. /\ run[w].pc = "idle" /\ run' = [run EXCEPT ![w] = Opened(k, pass)]
        /\ sweep' = [sweep EXCEPT ![w] = @ \ {k}]
        /\ UNCHANGED <<queueVars, dbVars, locker, sentVars, spoiled>>
    BY <1>3 DEF TickRun
  <2>2. pass \in Passes
    BY DEF Passes
  <2> HIDE DEF pass
  <2>3. Opened(k, pass) \in RunRecord(made)
    BY <2>2, OpenedRecord
  <2>4. sweep' \in [Ticks -> SUBSET (Keys \cup {NoKey})]
    BY <2>1 DEF DeliveryTypeOK
  <2>5. DeliveryTypeOK'
    BY <1>t, <2>1, <2>3, <2>4, RunTyped DEF DeliveryTypeOK, dbVars, sentVars
  <2>6. Claims' /\ OnceStep
    BY <1>t, <2>1, <2>2, OpensQuietly
  <2>7. TaskRuns'
    BY <1>t, <2>1 DEF TaskRuns, DeliveryTypeOK, queueVars
  <2> QED BY <2>5, <2>6, <2>7
<1> QED
  BY <1>1, <1>2, <1>3

\* A process that dies loses the transactions of all its jobs.
LEMMA CrashInv ==
  ASSUME QueueTypeOK, DeliveryInv, CrashQueue
  PROVE  DeliveryInv' /\ OnceStep
<1> USE DEF DeliveryInv
<1>1. /\ run' = [w \in Runners |-> IF w \in TaskIds THEN Idle ELSE run[w]]
      /\ spoiled' = Spoil(TaskIds)
      /\ UNCHANGED <<dbVars, tickVars, sentVars>>
  BY DEF CrashQueue
<1>2. TaskIds \in SUBSET Runners
  BY DEF Runners
<1>3. run' \in [Runners -> RunRecord(made')] /\ spoiled' \in [Rows -> Nat]
  BY <1>1, <1>2, IdleVacant, SpoilCounts DEF DeliveryTypeOK, dbVars
<1>4. DeliveryTypeOK'
  BY <1>1, <1>3 DEF DeliveryTypeOK, dbVars, tickVars, sentVars
<1>5. run' = [w \in Runners |-> IF w \in TaskIds THEN run'[w] ELSE run[w]]
      /\ \A w \in TaskIds : Vacant(run'[w])
  BY <1>1, <1>2, IdleVacant
<1>6. Claims' /\ OnceStep
  BY <1>1, <1>2, <1>5, VacatesCharged
<1>7. TaskRuns'
  BY <1>1, <1>2 DEF TaskRuns, Idle
<1> QED
  BY <1>4, <1>6, <1>7

LEMMA StepInv == QueueTypeOK /\ DeliveryInv /\ [Next]_vars => DeliveryInv' /\ OnceStep
<1> SUFFICES ASSUME QueueTypeOK, DeliveryInv, [Next]_vars PROVE DeliveryInv' /\ OnceStep
  OBVIOUS
<1>1. CASE \E w \in Runners :
             \/ \E r \in Rows, e \in BOOLEAN, p \in Answers : Send(w, r, e, p)
             \/ CommitRun(w)
             \/ AbortRun(w)
  BY <1>1, TransactionInv
<1>2. CASE \E t \in TaskIds : BeginJob(t) \/ ClaimJob(t) \/ NextPass(t) \/ EndJob(t)
  BY <1>2, JobInv
<1>3. CASE \E w \in Ticks :
             TickNext(w) \/ CrashTick(w) \/ \E k \in Keys \cup {NoKey} : TickRun(w, k)
  BY <1>3, TickInv
<1>4. CASE CrashQueue
  BY <1>4, CrashInv
<1>5. CASE \/ QueueStep
           \/ \E b \in Batches : Create(b)
           \/ \E k \in Keys : Withdraw(k)
           \/ \E r \in Rows : Age(r)
           \/ \E w \in Ticks : TickBegin(w)
           \/ UNCHANGED vars
  BY <1>5, AsideInv
<1> QED
  BY <1>1, <1>2, <1>3, <1>4, <1>5 DEF Next

-----------------------------------------------------------------------------
(* Exclusive claims and the tasks the handlers run in, with every variable
   of its type; everything else about delivery is a consequence. *)
THEOREM DeliveryInvariant == Spec => [](QueueTypeOK /\ DeliveryInv)
<1>1. Spec => QueueSpec
  BY QueueInside DEF Spec
<1>2. Spec => []QueueTypeOK
  BY <1>1, TypeCorrect
<1> QED
  BY <1>2, InitInv, StepInv, PTL DEF Spec

(* Whichever jobs, retries and ticks run at once, each channel of a row is
   due, then handled by one transaction, then stamped for good; only the loss
   of that transaction makes it due again (FOR UPDATE SKIP LOCKED, emailed_at
   and pushed_at, the one commit at the end of a handler). *)
THEOREM DeliveredOnceHolds == Spec => DeliveredOnce
<1>1. QueueTypeOK /\ DeliveryInv => TypeOK
  <2> SUFFICES ASSUME QueueTypeOK, DeliveryInv PROVE TypeOK
    OBVIOUS
  <2>1. \A r \in Rows : emails[r] \in Nat /\ pushes[r] \in Nat /\ spoiled[r] \in Nat
    BY DEF DeliveryInv, DeliveryTypeOK
  <2> QED BY <2>1 DEF DeliveryInv, DeliveryTypeOK, TypeOK, RunRecord
<1>2. Init => Mails!OnceInit /\ Pushes!OnceInit
  BY WhereRowsStand DEF Init, Standing, Mails!OnceInit, Pushes!OnceInit
<1>3. QueueTypeOK /\ DeliveryInv /\ [Next]_vars
        => [Mails!OnceNext]_(Mails!onceVars) /\ [Pushes!OnceNext]_(Pushes!onceVars)
  BY StepInv DEF OnceStep
<1> QED
  BY <1>1, <1>2, <1>3, DeliveryInvariant, PTL DEF Spec, DeliveredOnce, Mails!OnceSpec, Pushes!OnceSpec

(* What SendOnce means in numbers: one email and one push for a row, and one
   more for each transaction lost with it. *)
PaidFor(phase, sent, lost) ==
  /\ {sent, lost} \subseteq [Rows -> Nat] /\ DOMAIN phase = Rows
  /\ \A r \in Rows : /\ sent[r] <= lost[r] + 1
                     /\ phase[r] \notin {"handled", "done"} => sent[r] <= lost[r]

THEOREM AtMostOnceHolds == Spec => [](Mails!AtMostOnce /\ Pushes!AtMostOnce)
<1> DEFINE MailPaid == PaidFor(MailPhase, emails, spoiled)
           PushPaid == PaidFor(PushPhase, pushes, spoiled)
<1>1. /\ Mails!OnceInit => MailPaid
      /\ Pushes!OnceInit => PushPaid
  BY DEF PaidFor, Mails!OnceInit, Pushes!OnceInit
<1>2. MailPaid /\ [Mails!OnceNext]_(Mails!onceVars) => MailPaid'
  <2> SUFFICES ASSUME MailPaid, [Mails!OnceNext]_(Mails!onceVars) PROVE MailPaid'
    OBVIOUS
  <2> USE DEF PaidFor
  <2>1. ASSUME NEW S \in SUBSET Rows, Mails!Make(S) \/ Mails!Stamp(S) PROVE MailPaid'
    BY <2>1 DEF Mails!Make, Mails!Stamp
  <2>2. ASSUME NEW S \in SUBSET Rows, Mails!Lose(S) PROVE MailPaid'
    BY <2>2 DEF Mails!Lose
  <2>3. ASSUME NEW r \in Rows, Mails!Handle(r) PROVE MailPaid'
    BY <2>3 DEF Mails!Handle
  <2>4. CASE UNCHANGED Mails!onceVars
    BY <2>4 DEF Mails!onceVars
  <2> QED BY <2>1, <2>2, <2>3, <2>4 DEF Mails!OnceNext
<1>3. PushPaid /\ [Pushes!OnceNext]_(Pushes!onceVars) => PushPaid'
  <2> SUFFICES ASSUME PushPaid, [Pushes!OnceNext]_(Pushes!onceVars) PROVE PushPaid'
    OBVIOUS
  <2> USE DEF PaidFor
  <2>1. ASSUME NEW S \in SUBSET Rows, Pushes!Make(S) \/ Pushes!Stamp(S) PROVE PushPaid'
    BY <2>1 DEF Pushes!Make, Pushes!Stamp
  <2>2. ASSUME NEW S \in SUBSET Rows, Pushes!Lose(S) PROVE PushPaid'
    BY <2>2 DEF Pushes!Lose
  <2>3. ASSUME NEW r \in Rows, Pushes!Handle(r) PROVE PushPaid'
    BY <2>3 DEF Pushes!Handle
  <2>4. CASE UNCHANGED Pushes!onceVars
    BY <2>4 DEF Pushes!onceVars
  <2> QED BY <2>1, <2>2, <2>3, <2>4 DEF Pushes!OnceNext
<1>4. (MailPaid => Mails!AtMostOnce) /\ (PushPaid => Pushes!AtMostOnce)
  BY DEF PaidFor, Mails!AtMostOnce, Pushes!AtMostOnce
<1> QED
  BY <1>1, <1>2, <1>3, <1>4, DeliveredOnceHolds, PTL DEF DeliveredOnce, Mails!OnceSpec, Pushes!OnceSpec

(* In the whole of delivery too, a key is pending only while a task of it
   sleeps: a callback is coalesced into a run that has yet to read. *)
THEOREM DeliveryCoalesces == Spec => []PendingIsSleeping /\ []EnqueuedIsServed
<1>1. Spec => QueueSpec
  BY QueueInside DEF Spec
<1> QED
  BY <1>1, PendingIsSleepingHolds, EnqueuedIsServedHolds

-----------------------------------------------------------------------------
(* The stamps tell how often a row was mailed: a row neither stamp is on
   was only mailed by runs that died or by resends. *)
StampsCount ==
  \A r \in Notifications \ rerouted :
    mails[r] <= excused[r] + (IF r \in emailedAt \cup instantly THEN 1 ELSE 0)

(* Both paths ask the same switch, and a switch thrown under a row is
   remembered: the stamp of one path keeps the other away too. *)
PathsApart ==
  /\ \A r \in instantly \ rerouted : FeatureOf[r] \in instant
  /\ \A r \in emailedAt \ rerouted : FeatureOf[r] \notin instant

(* last_digest_sent_at closes the slot of the day. *)
SlotClosed == scheduled <= 1 /\ (scheduled # 0 => lastDigest = "today")

DigestInv == DigestTypeOK /\ StampsCount /\ PathsApart /\ SlotClosed

(* What a run looks at exists, and lies on the path its feature is on. *)
LEMMA Considered ==
  ASSUME DigestTypeOK, NEW mode \in Modes
  PROVE  /\ InstantRows(mode) \subseteq 1..created
         /\ DigestRows(mode) \subseteq 1..created
         /\ 1..created \subseteq Notifications
         /\ \A r \in InstantRows(mode) : FeatureOf[r] \in instant
         /\ \A r \in DigestRows(mode) : FeatureOf[r] \notin instant
         /\ mode # "resend" => InstantRows(mode) \cap instantly = {}
         /\ mode # "resend" => DigestRows(mode) \cap emailedAt = {}
BY DigestAssumption
   DEF DigestTypeOK, InstantRows, DigestRows, Capped, Newest, Of, Notifications

(* What a run mails it has looked at, and what a digest shows is not cut. *)
LEMMA MailedConsidered ==
  ASSUME NEW mode \in Modes, NEW ok \in BOOLEAN, NEW okF
  PROVE  /\ Mailed(mode, ok, okF) \subseteq InstantRows(mode) \cup DigestRows(mode)
         /\ Mailed(mode, ok, okF) \cap DigestRows(mode) \subseteq
              InstantRows(mode) \cup DigestStamps(mode, ok)
BY DEF Mailed, Rendered, Digested, Newest, DigestStamps

LEMMA CountTyped ==
  ASSUME NEW f \in [Notifications -> Nat], NEW S
  PROVE  /\ Count(f, S) \in [Notifications -> Nat]
         /\ \A r \in Notifications : Count(f, S)[r] = IF r \in S THEN f[r] + 1 ELSE f[r]
BY DEF Count

LEMMA InitDigest == DigestInit => DigestInv
<1> SUFFICES ASSUME DigestInit PROVE DigestInv
  OBVIOUS
<1>1. DigestTypeOK
  <2>1. created \in 0..MaxNotifications
    BY DigestAssumption DEF DigestInit
  <2>2. optedIn \in BOOLEAN /\ slot \in BOOLEAN
    BY DEF DigestInit
  <2>3. [r \in Notifications |-> 0] \in [Notifications -> Nat]
    OBVIOUS
  <2> QED BY <2>1, <2>2, <2>3 DEF DigestInit, DigestTypeOK
<1>2. StampsCount
  <2>1. \A r \in Notifications : mails[r] = 0 /\ excused[r] = 0
    BY DEF DigestInit
  <2> QED BY <2>1 DEF DigestInit, StampsCount
<1> QED
  BY <1>1, <1>2 DEF DigestInit, DigestInv, PathsApart, SlotClosed

(* A row is reminded of its switch when an admin throws it. *)
LEMMA RerouteKeeps ==
  ASSUME DigestInv, NEW f \in Features, Reroute(f)
  PROVE  DigestInv'
<1> USE DEF DigestInv
<1>1. DigestTypeOK'
  BY DEF DigestTypeOK, Reroute
<1>2. StampsCount'
  BY DEF StampsCount, Reroute
<1>3. PathsApart'
  <2>1. \A r \in 1..created : r \notin rerouted' => (FeatureOf[r] \in instant <=> FeatureOf[r] \in instant')
    BY DEF Reroute
  <2> QED BY <2>1 DEF PathsApart, Reroute, DigestTypeOK
<1>4. SlotClosed'
  BY DEF SlotClosed, Reroute
<1> QED BY <1>1, <1>2, <1>3, <1>4

LEMMA RunKeeps ==
  ASSUME DigestInv, NEW mode \in Modes, NEW ok \in BOOLEAN, NEW okF \in SUBSET Features,
         RunOnce(mode, ok, okF)
  PROVE  DigestInv'
<1> USE DEF DigestInv
<1> DEFINE M == Mailed(mode, ok, okF)
<1>1. /\ emailedAt' = DigestStamps(mode, ok)
      /\ instantly' = instantly \cup InstantRows(mode)
      /\ mails' = Count(mails, M)
      /\ mode = "resend" => excused' = Count(excused, M)
      /\ mode # "resend" => excused' = excused
      /\ UNCHANGED <<created, expired, instant, wanted, optedIn, slot, rerouted>>
  BY DEF RunOnce
<1>2. /\ DigestStamps(mode, ok) \subseteq emailedAt \cup DigestRows(mode)
      /\ emailedAt \subseteq DigestStamps(mode, ok)
  BY DEF DigestStamps
<1>3. DigestTypeOK'
  <2>1. emailedAt' \subseteq 1..created /\ instantly' \subseteq 1..created
    BY <1>1, <1>2, Considered DEF DigestTypeOK
  <2>2. mails' \in [Notifications -> Nat] /\ excused' \in [Notifications -> Nat]
    BY <1>1, CountTyped DEF DigestTypeOK
  <2>3. refused' \subseteq 1..created
    BY Considered DEF RunOnce, Refused, DigestTypeOK
  <2>4. scheduled' \in Nat /\ lastDigest' \in {"never", "today", "earlier"}
    BY DEF RunOnce, DigestedToday, DigestTypeOK
  <2> QED BY <1>1, <2>1, <2>2, <2>3, <2>4 DEF DigestTypeOK
<1>4. StampsCount'
  <2> SUFFICES ASSUME NEW r \in Notifications \ rerouted
               PROVE  mails'[r] <= excused'[r] + (IF r \in emailedAt' \cup instantly' THEN 1 ELSE 0)
    BY <1>1 DEF StampsCount
  <2>1. /\ mails[r] \in Nat /\ excused[r] \in Nat
        /\ mails[r] <= excused[r] + (IF r \in emailedAt \cup instantly THEN 1 ELSE 0)
    BY DEF DigestTypeOK, StampsCount
  <2>2. r \in emailedAt \cup instantly => r \in emailedAt' \cup instantly'
    BY <1>1, <1>2
  <2>3. /\ mails'[r] = IF r \in M THEN mails[r] + 1 ELSE mails[r]
        /\ mode = "resend" => excused'[r] = IF r \in M THEN excused[r] + 1 ELSE excused[r]
        /\ mode # "resend" => excused'[r] = excused[r]
    BY <1>1, CountTyped DEF DigestTypeOK
  <2>4. CASE r \notin M \/ mode = "resend"
    BY <2>1, <2>2, <2>3, <2>4
  <2>5. CASE r \in M /\ mode # "resend"
    <3>1. r \in emailedAt' \cup instantly'
      BY <1>1, <2>5, MailedConsidered
    <3>2. r \notin emailedAt \cup instantly
      BY <2>5, MailedConsidered, Considered DEF PathsApart
    <3> QED BY <2>1, <2>3, <2>5, <3>1, <3>2
  <2> QED BY <2>4, <2>5
<1>5. PathsApart'
  BY <1>1, <1>2, Considered DEF PathsApart
<1>6. SlotClosed'
  <2>1. CASE mode = "tick" /\ ok /\ Digested(mode) # {}
    <3>1. DigestRows(mode) # {} /\ lastDigest # "today"
      BY <2>1 DEF Digested, DigestRows, InSlot
    <3> QED BY <2>1, <3>1 DEF SlotClosed, RunOnce, DigestedToday, DigestTypeOK
  <2>2. CASE ~(mode = "tick" /\ ok /\ Digested(mode) # {})
    BY <2>2 DEF SlotClosed, RunOnce, DigestedToday
  <2> QED BY <2>1, <2>2
<1> QED BY <1>3, <1>4, <1>5, <1>6

LEMMA DyingKeeps ==
  ASSUME DigestInv, NEW mode \in Modes, RunDies(mode)
  PROVE  DigestInv'
<1> USE DEF DigestInv
<1> DEFINE M == Mailed(mode, TRUE, Features)
<1>1. /\ mails' = Count(mails, M) /\ excused' = Count(excused, M)
      /\ UNCHANGED <<created, expired, emailedAt, instantly, instant, wanted, optedIn,
                     slot, lastDigest, rerouted, scheduled, refused>>
  BY DEF RunDies
<1> HIDE DEF M
<1>2. DigestTypeOK'
  BY <1>1, CountTyped DEF DigestTypeOK
<1>3. StampsCount'
  <2> SUFFICES ASSUME NEW r \in Notifications \ rerouted
               PROVE  mails'[r] <= excused'[r] + (IF r \in emailedAt \cup instantly THEN 1 ELSE 0)
    BY <1>1 DEF StampsCount
  <2>1. /\ mails[r] \in Nat /\ excused[r] \in Nat
        /\ mails[r] <= excused[r] + (IF r \in emailedAt \cup instantly THEN 1 ELSE 0)
    BY DEF DigestTypeOK, StampsCount
  <2>2. mails'[r] = IF r \in M THEN mails[r] + 1 ELSE mails[r]
    BY <1>1, CountTyped DEF DigestTypeOK
  <2>3. excused'[r] = IF r \in M THEN excused[r] + 1 ELSE excused[r]
    BY <1>1, CountTyped DEF DigestTypeOK
  <2> QED BY <2>1, <2>2, <2>3
<1> QED BY <1>1, <1>2, <1>3 DEF PathsApart, SlotClosed

LEMMA NextDigest == DigestInv /\ [DigestNext]_digestVars => DigestInv'
<1> SUFFICES ASSUME DigestInv, [DigestNext]_digestVars PROVE DigestInv'
  OBVIOUS
<1> USE DEF DigestInv
<1>1. CASE Notify
  <2>1. 1..created \subseteq 1..created' /\ created' \in 0..MaxNotifications
    BY <1>1, DigestAssumption DEF Notify, DigestTypeOK
  <2> QED BY <1>1, <2>1 DEF Notify, DigestTypeOK, StampsCount, PathsApart, SlotClosed
<1>2. CASE \E f \in Features : Reroute(f)
  BY <1>2, RerouteKeeps
<1>3. CASE Prefer
  BY <1>3 DEF Prefer, DigestTypeOK, StampsCount, PathsApart, SlotClosed
<1>4. CASE \E r \in Notifications : Expire(r)
  <2> PICK r \in Notifications : Expire(r)
    BY <1>4
  <2>1. 1..r \subseteq 1..created
    BY DigestAssumption DEF Expire, DigestTypeOK, Notifications
  <2>2. DigestTypeOK'
    BY <2>1 DEF Expire, DigestTypeOK
  <2> QED BY <2>2 DEF Expire, StampsCount, PathsApart, SlotClosed
<1>5. CASE EnterSlot
  BY <1>5 DEF EnterSlot, DigestTypeOK, StampsCount, PathsApart, SlotClosed
<1>6. CASE NewDay
  <2>1. slot' \in BOOLEAN /\ UNCHANGED optedIn
    BY <1>6 DEF NewDay
  <2>2. scheduled' = 0 /\ lastDigest' \in {"never", "today", "earlier"}
    BY <1>6 DEF NewDay, DigestTypeOK
  <2>3. DigestTypeOK'
    BY <1>6, <2>1, <2>2 DEF NewDay, DigestTypeOK
  <2> QED BY <1>6, <2>2, <2>3 DEF NewDay, StampsCount, PathsApart, SlotClosed
<1>7. CASE \E mode \in Modes, ok \in BOOLEAN, okF \in SUBSET Features : RunOnce(mode, ok, okF)
  BY <1>7, RunKeeps
<1>8. CASE \E mode \in Modes \ {"resend"} : RunDies(mode)
  BY <1>8, DyingKeeps
<1>9. CASE UNCHANGED digestVars
  BY <1>9 DEF digestVars, DigestTypeOK, StampsCount, PathsApart, SlotClosed
<1> QED
  BY <1>1, <1>2, <1>3, <1>4, <1>5, <1>6, <1>7, <1>8, <1>9 DEF DigestNext

-----------------------------------------------------------------------------
(* The two stamps, the switch and the day's slot, for every number of rows,
   every assignment of features and every cap. *)
THEOREM DigestInvariant == DigestSpec => []DigestInv
BY InitDigest, NextDigest, PTL DEF DigestSpec

(* A row reaches its recipient once, by the digest or at once, and once more
   per resend or per run that died after sending; never on both paths unless
   rerouted under it; one digest a day is scheduled (activity_email.run_once). *)
THEOREM MailedOnceHolds == DigestSpec => []MailedOnce
<1>1. DigestInv => MailedOnce
  <2> SUFFICES ASSUME DigestInv PROVE MailedOnce
    OBVIOUS
  <2> USE DEF DigestInv
  <2>1. MailedAtMostOnce
    <3> SUFFICES ASSUME NEW r \in Notifications \ rerouted PROVE mails[r] <= 1 + excused[r]
      BY DEF MailedAtMostOnce
    <3>1. mails[r] \in Nat /\ excused[r] \in Nat
      BY DEF DigestTypeOK
    <3> QED BY <3>1 DEF StampsCount
  <2>2. AtMostOnePath
    BY DEF AtMostOnePath, PathsApart
  <2> QED BY <2>1, <2>2 DEF MailedOnce, OneDigestPerDay, SlotClosed
<1> QED
  BY <1>1, DigestInvariant, PTL
=============================================================================
