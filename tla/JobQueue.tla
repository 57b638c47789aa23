------------------------------ MODULE JobQueue ------------------------------
(***************************************************************************)
(* The in-process job queue of backend/services/job_queue.py.              *)
(*                                                                         *)
(* Request threads post a (name, key) job to the event loop; the loop      *)
(* turns it into an asyncio task, or coalesces it with one that is already *)
(* waiting.  A task sleeps out its delay, waits for one of Concurrency     *)
(* semaphore slots and runs its handler in a thread.  A handler that       *)
(* raises RetryLater is scheduled again, up to MaxAttempts times.          *)
(* Stopping the queue, or losing the process, loses every job in it.       *)
(*                                                                         *)
(* A job is a key here; what its handler does is NotificationDelivery's.   *)
(***************************************************************************)
EXTENDS Naturals, Sequences, FiniteSets

CONSTANTS
  Keys,         \* the (name, key) pairs
  NoKey,        \* the key of a task id not in use
  TaskIds,      \* asyncio tasks alive at once (a bound)
  Concurrency,  \* InProcessJobQueue.concurrency
  MaxAttempts,  \* InProcessJobQueue.max_attempts
  MaxPosts      \* callbacks of one key the loop has not run yet (a bound)

ASSUME QueueAssumption ==
  /\ NoKey \notin Keys
  /\ Concurrency \in Nat \ {0}
  /\ MaxAttempts \in Nat \ {0}
  /\ MaxPosts \in Nat \ {0}

VARIABLES
  up,       \* the queue is started: _loop is not None
  posted,   \* posted[k]: call_soon_threadsafe(_schedule, k, ...) not yet run
  pending,  \* _pending
  task,     \* task[t]: an asyncio task in _tasks
  waiters,  \* tasks waiting for the semaphore, first come first served
  unserved  \* keys enqueued since the last run of that key began (history)

queueVars == <<up, posted, pending, task, waiters, unserved>>

NoTask == [pc |-> "none", key |-> NoKey, attempt |-> 0]

Phases == {"sleeping", "queued", "running", "detached"}

QueueTypeOK ==
  /\ up \in BOOLEAN
  /\ posted \in [Keys -> 0..MaxPosts]
  /\ pending \in SUBSET Keys
  /\ task \in [TaskIds -> {NoTask} \cup
                 [pc : Phases, key : Keys, attempt : 1..MaxAttempts]]
  /\ waiters \in Seq(TaskIds)
  /\ unserved \in SUBSET Keys

Nothing == [k \in Keys |-> 0]

QueueInit ==
  /\ up = FALSE
  /\ posted = Nothing
  /\ pending = {}
  /\ task = [t \in TaskIds |-> NoTask]
  /\ waiters = <<>>
  /\ unserved = {}

-----------------------------------------------------------------------------
(* start: a new process, whose loop has nothing to run yet. *)
Start ==
  /\ ~up
  /\ up' = TRUE
  /\ posted' = Nothing
  /\ UNCHANGED <<pending, task, waiters, unserved>>

(* Mutant: stop leaves _pending alone. *)
StopKeepsPending ==
  /\ up
  /\ up' = FALSE
  /\ task' = [t \in TaskIds |-> NoTask]
  /\ waiters' = <<>>
  /\ unserved' = {}
  /\ UNCHANGED <<posted, pending>>

(* stop: tasks are cancelled; a handler already in its thread runs on, but
   nobody awaits it any more. *)
Stop ==
  /\ up
  /\ up' = FALSE
  /\ task' = [t \in TaskIds |->
                IF task[t].pc \in {"running", "detached"}
                THEN [pc |-> "detached", key |-> task[t].key,
                      attempt |-> task[t].attempt]
                ELSE NoTask]
  /\ waiters' = <<>>
  /\ pending' = {}
  /\ unserved' = {}
  /\ UNCHANGED posted

(* The process dies with everything it holds. *)
QueueCrash ==
  /\ up' = FALSE
  /\ posted' = Nothing
  /\ task' = [t \in TaskIds |-> NoTask]
  /\ waiters' = <<>>
  /\ pending' = {}
  /\ unserved' = {}

(* enqueue: does nothing when no queue is running. *)
Enqueue(k) ==
  IF up
  THEN /\ posted[k] < MaxPosts
       /\ posted' = [posted EXCEPT ![k] = @ + 1]
       /\ unserved' = unserved \cup {k}
       /\ UNCHANGED <<up, pending, task, waiters>>
  ELSE UNCHANGED queueVars

(* _schedule as the loop runs it for a first attempt. *)
Coalesce(k) ==
  /\ posted[k] > 0
  /\ ~up \/ k \in pending
  /\ posted' = [posted EXCEPT ![k] = @ - 1]
  /\ UNCHANGED <<up, pending, task, waiters, unserved>>

Schedule(k, t) ==
  /\ posted[k] > 0
  /\ up
  /\ k \notin pending
  /\ task[t] = NoTask
  /\ posted' = [posted EXCEPT ![k] = @ - 1]
  /\ pending' = pending \cup {k}
  /\ task' = [task EXCEPT ![t] = [pc |-> "sleeping", key |-> k, attempt |-> 1]]
  /\ UNCHANGED <<up, waiters, unserved>>

(* _run: the delay has passed; the key is free for new work before the
   task waits for its slot. *)
Wake(t) ==
  /\ task[t].pc = "sleeping"
  /\ task' = [task EXCEPT ![t] = [pc |-> "queued", key |-> @.key,
                                  attempt |-> @.attempt]]
  /\ pending' = pending \ {task[t].key}
  /\ waiters' = Append(waiters, t)
  /\ UNCHANGED <<up, posted, unserved>>

(* async with self._sem, then run_in_executor: the handler begins to read. *)
Begin(t) ==
  /\ waiters # <<>>
  /\ t = Head(waiters)
  /\ task[t].pc = "queued"
  /\ Cardinality({u \in TaskIds : task[u].pc = "running"}) < Concurrency
  /\ task' = [task EXCEPT ![t] = [pc |-> "running", key |-> @.key,
                                  attempt |-> @.attempt]]
  /\ waiters' = Tail(waiters)
  /\ unserved' = unserved \ {task[t].key}
  /\ UNCHANGED <<up, posted, pending>>

(* The handler returned, or raised something that is only logged; a thread
   nobody awaits ends the same way whatever it raises. *)
End(t) ==
  /\ task[t].pc \in {"running", "detached"}
  /\ task' = [task EXCEPT ![t] = NoTask]
  /\ UNCHANGED <<up, posted, pending, waiters, unserved>>

(* The handler raised RetryLater with attempts left: _schedule is called
   again, with a backoff, and never coalesces. *)
Retry(t) ==
  /\ task[t].pc = "running"
  /\ task[t].attempt < MaxAttempts
  /\ pending' = pending \cup {task[t].key}
  /\ task' = [task EXCEPT ![t] = [pc |-> "sleeping", key |-> @.key,
                                  attempt |-> @.attempt + 1]]
  /\ UNCHANGED <<up, posted, waiters, unserved>>

LoopStep == \/ \E k \in Keys : Coalesce(k)
            \/ \E k \in Keys, t \in TaskIds : Schedule(k, t)
            \/ \E t \in TaskIds : Wake(t) \/ Begin(t)

QueueNext ==
  \/ Start
  \/ Stop
  \/ QueueCrash
  \/ \E k \in Keys : Enqueue(k)
  \/ LoopStep
  \/ \E t \in TaskIds : End(t) \/ Retry(t)

QueueSpec == QueueInit /\ [][QueueNext]_queueVars

-----------------------------------------------------------------------------
Waiting(k) == {t \in TaskIds : /\ task[t].key = k
                               /\ task[t].pc \in {"sleeping", "queued"}}

(* Work enqueued for a key is never dropped by coalescing: until a run of
   that key has begun after the enqueue, the loop still holds the callback
   or a task of that key has yet to begin (_schedule, _run). *)
EnqueuedIsServed == \A k \in unserved : posted[k] > 0 \/ Waiting(k) # {}

(* A key is marked pending only while a task of that key is sleeping, so a
   job is only ever coalesced into a run that has yet to start. *)
PendingIsSleeping ==
  \A k \in pending : \E t \in TaskIds : task[t].key = k /\ task[t].pc = "sleeping"

=============================================================================
