--------------------------- MODULE SyncJobService ---------------------------
(***************************************************************************)
(* The sync-job manager of backend/services/sync_job_service.py.           *)
(*                                                                         *)
(* Every backend process (an Instance) owns one SyncJobService: a map of   *)
(* job records guarded by a thread lock, the id of the active job, and the *)
(* dedicated database connection whose session holds the Postgres advisory *)
(* lock that keeps two processes from syncing at once.  A job is run by a  *)
(* worker thread, which is accompanied by a publisher thread that          *)
(* heartbeats every second; both persist the job's record to its           *)
(* SyncJobRun row with the same read-modify-write, outside the lock.       *)
(*                                                                         *)
(* What the worker does to the calendars is module SyncPipeline; here it   *)
(* is one opaque body that returns a status or raises.                     *)
(***************************************************************************)
EXTENDS Naturals, FiniteSets

CONSTANTS
  Instances,   \* backend processes (Fly machines)
  Jobs,        \* job ids (uuid4), each used once
  NoJob,       \* the null of the code's Optional job id and connection
  Faults       \* which of FaultKinds this environment exhibits

FaultKinds ==
  { "db",      \* the database is unreachable: no lock, no row write
    "conn",    \* the session holding the advisory lock is dropped mid-job
    "crash",   \* a process dies and restarts
    "slow",    \* a publisher tick outlasts publisher_thread.join(timeout=2.0)
    "raise" }  \* the worker raises while the publisher is running

ASSUME ConstantsAssumption ==
  /\ NoJob \notin Jobs
  /\ NoJob \notin Instances
  /\ Faults \subseteq FaultKinds

VARIABLES
  up,        \* up[i]: process i is running
  owner,     \* owner[j]: the process that started job j
  active,    \* active[i]: SyncJobService._active_job_id of process i
  lockConn,  \* lockConn[i]: _lock_conn, named by the job it was opened for
  advisory,  \* the connection whose Postgres session holds the advisory lock
  rec,       \* rec[j]: the SyncJobRecord in the owner's memory
  pc,        \* pc[j]: where the worker thread of job j is
  myLock,    \* myLock[j]: _run_worker's local lock_conn
  pub,       \* pub[j]: the publisher thread of job j
  persist,   \* persist[t][j]: the _persist_record call thread t is in
  row        \* row[j]: the SyncJobRun row

vars == <<up, owner, active, lockConn, advisory, rec, pc, myLock, pub,
          persist, row>>

Threads == {"main", "pub"}

Running  == {"running", "abort_requested"}
Terminal == {"aborted", "completed", "warning", "failed"}

NoRecord == [status |-> "none", abort |-> FALSE, finished |-> FALSE]
NoRow    == [status |-> "absent", abort |-> FALSE, fresh |-> FALSE]
Idle     == [phase |-> "idle", status |-> "none", loaded |-> "none",
             abort |-> FALSE]

Payload(status) ==
  [phase |-> "payload", status |-> status, loaded |-> "none", abort |-> FALSE]

Init ==
  /\ up       = [i \in Instances |-> TRUE]
  /\ owner    = [j \in Jobs |-> NoJob]
  /\ active   = [i \in Instances |-> NoJob]
  /\ lockConn = [i \in Instances |-> NoJob]
  /\ advisory = NoJob
  /\ rec      = [j \in Jobs |-> NoRecord]
  /\ pc       = [j \in Jobs |-> "unborn"]
  /\ myLock   = [j \in Jobs |-> NoJob]
  /\ pub      = [j \in Jobs |-> "off"]
  /\ persist  = [t \in Threads |-> [j \in Jobs |-> Idle]]
  /\ row      = [j \in Jobs |-> NoRow]

-----------------------------------------------------------------------------
(* The three steps of _persist_record: take the payload, load the row,     *)
(* write back.  SQLAlchemy updates only the columns whose new value        *)
(* differs from the loaded one, so a payload equal to what was loaded      *)
(* leaves the column to whoever wrote it in between.                       *)

Take(t, j) ==
  persist' = [persist EXCEPT ![t][j] = Payload(rec[j].status)]

Load(t, j) ==
  /\ persist[t][j].phase = "payload"
  /\ persist' = [persist EXCEPT ![t][j] =
                  [phase |-> "loaded", status |-> @.status,
                   loaded |-> row[j].status, abort |-> rec[j].abort]]
  /\ UNCHANGED <<up, owner, active, lockConn, advisory, rec, pc, myLock, pub,
                 row>>

(* An insert that finds the row already there violates its primary key and *)
(* is dropped by the except clause.                                        *)
Commit(t, j) ==
  LET p == persist[t][j]
      lost == p.loaded = "absent" /\ row[j].status # "absent"
  IN  /\ p.phase = "loaded"
      /\ persist' = [persist EXCEPT ![t][j] = Idle]
      /\ row' = IF lost THEN row
                ELSE [row EXCEPT ![j] =
                       [status |-> IF p.status = p.loaded THEN @.status
                                   ELSE p.status,
                        abort  |-> @.abort \/ p.abort,
                        fresh  |-> TRUE]]
      /\ UNCHANGED <<up, owner, active, lockConn, advisory, rec, pc, myLock,
                     pub>>

(* "persist failed for job": the write is logged and given up.             *)
PersistFails(t, j) ==
  /\ "db" \in Faults
  /\ persist[t][j].phase # "idle"
  /\ persist' = [persist EXCEPT ![t][j] = Idle]
  /\ UNCHANGED <<up, owner, active, lockConn, advisory, rec, pc, myLock, pub,
                 row>>

-----------------------------------------------------------------------------
(* _get_active_locked: the active record, if it is still running.          *)
HasActive(i) == active[i] # NoJob /\ rec[active[i]].status \in Running

(* Mutant: the result of pg_try_advisory_lock is ignored.                  *)
TryAcquireUnchecked(i, j) ==
  /\ advisory' = IF advisory = NoJob THEN j ELSE advisory
  /\ lockConn' = [lockConn EXCEPT ![i] = j]

(* _try_acquire_cross_instance_lock.  The third outcome, a lock held by    *)
(* another session, raises before start_job has recorded anything.         *)
TryAcquire(i, j) ==
  \/ /\ advisory = NoJob
     /\ advisory' = j
     /\ lockConn' = [lockConn EXCEPT ![i] = j]
  \/ /\ "db" \in Faults
     /\ lockConn' = [lockConn EXCEPT ![i] = NoJob]
     /\ UNCHANGED advisory

(* The critical section of start_job, and the start of the forced persist  *)
(* that follows it.                                                        *)
StartJob(i, j) ==
  /\ up[i]
  /\ pc[j] = "unborn"
  /\ ~HasActive(i)
  /\ TryAcquire(i, j)
  /\ rec' = [rec EXCEPT ![j] = [status |-> "running", abort |-> FALSE,
                                finished |-> FALSE]]
  /\ owner' = [owner EXCEPT ![j] = i]
  /\ active' = [active EXCEPT ![i] = j]
  /\ pc' = [pc EXCEPT ![j] = "recorded"]
  /\ persist' = [persist EXCEPT !["main"][j] = Payload("running")]
  /\ UNCHANGED <<up, myLock, pub, row>>

(* thread.start(), once the initial persist has returned.                  *)
RunWorker(j) ==
  /\ pc[j] = "recorded"
  /\ persist["main"][j] = Idle
  /\ pc' = [pc EXCEPT ![j] = "working"]
  /\ UNCHANGED <<up, owner, active, lockConn, advisory, rec, myLock, pub,
                 persist, row>>

(* heartbeat() called by the worker itself; the throttle may skip it.      *)
WorkerHeartbeat(j) ==
  /\ pc[j] \in {"working", "publishing", "joined"}
  /\ persist["main"][j] = Idle
  /\ Take("main", j)
  /\ UNCHANGED <<up, owner, active, lockConn, advisory, rec, pc, myLock, pub,
                 row>>

(* _run_sync_job_worker starts its publisher thread.                       *)
StartPublisher(j) ==
  /\ pc[j] = "working"
  /\ persist["main"][j] = Idle
  /\ pc' = [pc EXCEPT ![j] = "publishing"]
  /\ pub' = [pub EXCEPT ![j] = "on"]
  /\ UNCHANGED <<up, owner, active, lockConn, advisory, rec, myLock, persist,
                 row>>

(* One tick of _publisher_loop, up to the payload of its heartbeat.        *)
PublisherTick(j) ==
  /\ pub[j] = "on"
  /\ persist["pub"][j] = Idle
  /\ Take("pub", j)
  /\ UNCHANGED <<up, owner, active, lockConn, advisory, rec, pc, myLock, pub,
                 row>>

(* publisher_stop.set(): the loop ends after the tick it is in.            *)
StopPublisher(j) ==
  /\ pc[j] = "publishing"
  /\ persist["main"][j] = Idle
  /\ pc' = [pc EXCEPT ![j] = "stopping"]
  /\ pub' = [pub EXCEPT ![j] = "off"]
  /\ UNCHANGED <<up, owner, active, lockConn, advisory, rec, myLock, persist,
                 row>>

(* publisher_thread.join(timeout=2.0) gives up on a tick that takes longer.*)
JoinPublisher(j) ==
  /\ pc[j] = "stopping"
  /\ persist["pub"][j] = Idle \/ "slow" \in Faults
  /\ pc' = [pc EXCEPT ![j] = "joined"]
  /\ UNCHANGED <<up, owner, active, lockConn, advisory, rec, myLock, pub,
                 persist, row>>

-----------------------------------------------------------------------------
(* The critical section that ends a job: the record becomes terminal, the  *)
(* active slot is freed, and the lock connection is taken for release.     *)
Finalize(j, status) ==
  LET i == owner[j]
  IN  /\ rec' = [rec EXCEPT ![j] = [status |-> status, abort |-> @.abort,
                                    finished |-> TRUE]]
      /\ active' = IF active[i] = j THEN [active EXCEPT ![i] = NoJob]
                   ELSE active
      /\ myLock' = [myLock EXCEPT ![j] = lockConn[i]]
      /\ lockConn' = [lockConn EXCEPT ![i] = NoJob]
      /\ pc' = [pc EXCEPT ![j] = "finalized"]
      /\ UNCHANGED <<up, owner, advisory, pub, persist, row>>

(* The worker returns: an abort request wins over the status it reports,   *)
(* and a status outside the three known ones counts as completed.          *)
WorkerReturns(j) ==
  /\ persist["main"][j] = Idle
  /\ \E result \in {"completed", "warning"} :
       /\ \/ pc[j] = "joined"
          \/ pc[j] = "working" /\ result = "completed"  \* no enabled calendar
       /\ Finalize(j, IF rec[j].abort THEN "aborted" ELSE result)

(* Mutant: the except clause forgets the status.                           *)
WorkerRaisesSilently(j) ==
  /\ \/ pc[j] = "working"
     \/ pc[j] \in {"publishing", "stopping", "joined"} /\ "raise" \in Faults
  /\ persist["main"][j] = Idle
  /\ Finalize(j, rec[j].status)

(* The worker raises: the except clause finalizes the record as failed and *)
(* leaves a started publisher running.                                     *)
WorkerRaises(j) ==
  /\ \/ pc[j] = "working"
     \/ pc[j] \in {"publishing", "stopping", "joined"} /\ "raise" \in Faults
  /\ persist["main"][j] = Idle
  /\ Finalize(j, "failed")

(* Mutant: the unlock is skipped.                                          *)
ReleaseLockSkipped(j) ==
  /\ pc[j] = "finalized"
  /\ myLock' = [myLock EXCEPT ![j] = NoJob]
  /\ pc' = [pc EXCEPT ![j] = "released"]
  /\ Take("main", j)
  /\ UNCHANGED <<up, owner, active, lockConn, advisory, rec, pub, row>>

(* _release_cross_instance_lock, outside the thread lock.                  *)
ReleaseLock(j) ==
  /\ pc[j] = "finalized"
  /\ advisory' = IF myLock[j] # NoJob /\ advisory = myLock[j] THEN NoJob
                 ELSE advisory
  /\ myLock' = [myLock EXCEPT ![j] = NoJob]
  /\ pc' = [pc EXCEPT ![j] = "released"]
  /\ Take("main", j)
  /\ UNCHANGED <<up, owner, active, lockConn, rec, pub, row>>

(* The forced final persist has returned: the worker thread ends.          *)
EndWorker(j) ==
  /\ pc[j] = "released"
  /\ persist["main"][j] = Idle
  /\ pc' = [pc EXCEPT ![j] = "done"]
  /\ UNCHANGED <<up, owner, active, lockConn, advisory, rec, myLock, pub,
                 persist, row>>

-----------------------------------------------------------------------------
(* Mutant: a job that has ended can be aborted.                            *)
AbortJobAnytime(j) ==
  /\ pc[j] \notin {"unborn", "dead"}
  /\ rec' = [rec EXCEPT ![j] = [status |-> "abort_requested", abort |-> TRUE,
                                finished |-> @.finished]]
  /\ UNCHANGED <<up, owner, active, lockConn, advisory, pc, myLock, pub,
                 persist, row>>

(* abort_job: only the record changes, and only while the job runs.        *)
AbortJob(j) ==
  /\ rec[j].status \in Running
  /\ rec' = [rec EXCEPT ![j] = [status |-> "abort_requested", abort |-> TRUE,
                                finished |-> @.finished]]
  /\ UNCHANGED <<up, owner, active, lockConn, advisory, pc, myLock, pub,
                 persist, row>>

-----------------------------------------------------------------------------
(* The environment.                                                        *)

Owned(i) == {j \in Jobs : owner[j] = i}

(* A process dies: its memory, threads and database sessions go with it.   *)
Crash(i) ==
  /\ "crash" \in Faults
  /\ up[i]
  /\ up' = [up EXCEPT ![i] = FALSE]
  /\ active' = [active EXCEPT ![i] = NoJob]
  /\ lockConn' = [lockConn EXCEPT ![i] = NoJob]
  /\ advisory' = IF advisory \in Owned(i) THEN NoJob ELSE advisory
  /\ rec' = [j \in Jobs |-> IF j \in Owned(i) THEN NoRecord ELSE rec[j]]
  /\ pc' = [j \in Jobs |-> IF j \in Owned(i) THEN "dead" ELSE pc[j]]
  /\ myLock' = [j \in Jobs |-> IF j \in Owned(i) THEN NoJob ELSE myLock[j]]
  /\ pub' = [j \in Jobs |-> IF j \in Owned(i) THEN "off" ELSE pub[j]]
  /\ persist' = [t \in Threads |->
                  [j \in Jobs |-> IF j \in Owned(i) THEN Idle
                                  ELSE persist[t][j]]]
  /\ UNCHANGED <<owner, row>>

Restart(i) ==
  /\ ~up[i]
  /\ up' = [up EXCEPT ![i] = TRUE]
  /\ UNCHANGED <<owner, active, lockConn, advisory, rec, pc, myLock, pub,
                 persist, row>>

(* Postgres drops an idle session and with it the advisory lock.           *)
LoseConnection ==
  /\ "conn" \in Faults
  /\ advisory # NoJob
  /\ advisory' = NoJob
  /\ UNCHANGED <<up, owner, active, lockConn, rec, pc, myLock, pub, persist,
                 row>>

(* More than _STALE_HEARTBEAT_SECONDS pass since the row's last write.     *)
Beating(j) == pub[j] = "on" \/ pc[j] \in {"recorded", "working", "publishing",
                                          "stopping", "joined"}

HeartbeatAges(j) ==
  /\ row[j].fresh
  /\ ~Beating(j) \/ "db" \in Faults
  /\ row' = [row EXCEPT ![j].fresh = FALSE]
  /\ UNCHANGED <<up, owner, active, lockConn, advisory, rec, pc, myLock, pub,
                 persist>>

-----------------------------------------------------------------------------
WorkerStep(j) ==
  \/ RunWorker(j)
  \/ StartPublisher(j)
  \/ StopPublisher(j)
  \/ JoinPublisher(j)
  \/ WorkerReturns(j)
  \/ WorkerRaises(j)
  \/ ReleaseLock(j)
  \/ EndWorker(j)

PersistStep(t, j) == Load(t, j) \/ Commit(t, j) \/ PersistFails(t, j)

Next ==
  \/ \E i \in Instances, j \in Jobs : StartJob(i, j)
  \/ \E j \in Jobs : WorkerStep(j) \/ WorkerHeartbeat(j) \/ PublisherTick(j)
  \/ \E t \in Threads, j \in Jobs : PersistStep(t, j)
  \/ \E j \in Jobs : AbortJob(j) \/ HeartbeatAges(j)
  \/ \E i \in Instances : Crash(i) \/ Restart(i)
  \/ LoseConnection

Spec == Init /\ [][Next]_vars

-----------------------------------------------------------------------------
(* Properties.                                                             *)

PcValues == {"unborn", "recorded", "working", "publishing", "stopping",
             "joined", "finalized", "released", "done", "dead"}

Record == [status : Running \cup Terminal \cup {"none"},
           abort : BOOLEAN, finished : BOOLEAN]

Row == [status : Running \cup Terminal \cup {"none", "absent"},
        abort : BOOLEAN, fresh : BOOLEAN]

PersistCall == [phase : {"idle", "payload", "loaded"},
                status : Running \cup Terminal \cup {"none"},
                loaded : Running \cup Terminal \cup {"none", "absent"},
                abort : BOOLEAN]

(* Every variable has the shape its Python counterpart has.                *)
TypeOK ==
  /\ up \in [Instances -> BOOLEAN]
  /\ owner \in [Jobs -> Instances \cup {NoJob}]
  /\ active \in [Instances -> Jobs \cup {NoJob}]
  /\ lockConn \in [Instances -> Jobs \cup {NoJob}]
  /\ advisory \in Jobs \cup {NoJob}
  /\ rec \in [Jobs -> Record]
  /\ pc \in [Jobs -> PcValues]
  /\ myLock \in [Jobs -> Jobs \cup {NoJob}]
  /\ pub \in [Jobs -> {"on", "off"}]
  /\ persist \in [Threads -> [Jobs -> PersistCall]]
  /\ row \in [Jobs -> Row]

(* The worker body of job j is, or is about to be, running.                *)
InFlight(j) == pc[j] \in {"recorded", "working", "publishing", "stopping",
                          "joined"}

(* "Without this ... two machines can each pass the local check and start  *)
(* parallel workers": as long as the database answers and keeps the lock   *)
(* session, no two jobs are in flight anywhere, across crashes too.        *)
SingleFlight ==
  Faults \cap {"db", "conn"} = {} =>
    \A j, k \in Jobs : InFlight(j) /\ InFlight(k) => j = k

(* Whatever the database does, one process never runs two jobs at once.    *)
OnePerInstance ==
  \A j, k \in Jobs :
    InFlight(j) /\ InFlight(k) /\ owner[j] = owner[k] => j = k

(* The advisory lock is never left behind: its holder is a job that is     *)
(* still in flight, or about to execute its unlock.                        *)
NoLeakedLock ==
  advisory # NoJob => InFlight(advisory) \/ pc[advisory] = "finalized"

(* Once the worker thread has ended and no persist is under way, the row   *)
(* every other process reads shows the status the job ended with.          *)
FinalStatusPersisted ==
  \A j \in Jobs :
    /\ pc[j] = "done"
    /\ \A t \in Threads : persist[t][j] = Idle
    => row[j].status = rec[j].status

(* Each job seen from outside its process.                                 *)
Phase(j) == IF pc[j] = "unborn" THEN "new"
            ELSE IF InFlight(j) THEN "running" ELSE "ended"

Mutex == INSTANCE SyncMutex WITH phase <- [j \in Jobs |-> Phase(j)]

(* As long as the database answers and keeps the lock session, the two     *)
(* checks of start_job, the release of the lock and the death of processes *)
(* together implement a mutual exclusion of the whole deployment in which  *)
(* a job runs once.                                                        *)
ImplementsMutex == Mutex!MutexSpec

(* The inductive invariant behind the three lock properties, in named      *)
(* parts.  An in-flight job is its process's active job ...                *)
ActiveInv ==
  \A j \in Jobs :
    IF InFlight(j)
    THEN owner[j] \in Instances /\ active[owner[j]] = j /\ rec[j].status \in Running
    ELSE rec[j].status \notin Running

(* ... the process's lock connection was opened for that job, and a        *)
(* finalized job has taken its own connection along ...                    *)
ConnInv ==
  /\ \A i \in Instances :
       lockConn[i] # NoJob => InFlight(lockConn[i]) /\ owner[lockConn[i]] = i
  /\ \A j \in Jobs :
       myLock[j] # NoJob => myLock[j] = j /\ pc[j] = "finalized"

(* ... and the advisory lock belongs to a connection somebody will unlock. *)
AdvisoryInv ==
  advisory # NoJob =>
    \/ InFlight(advisory) /\ lockConn[owner[advisory]] = advisory
    \/ pc[advisory] = "finalized" /\ myLock[advisory] = advisory

(* With a reachable database every in-flight job holds the lock.           *)
HolderInv ==
  Faults \cap {"db", "conn"} = {} =>
    \A j \in Jobs : InFlight(j) => advisory = j

LockInv == TypeOK /\ ActiveInv /\ ConnInv /\ AdvisoryInv /\ HolderInv

-----------------------------------------------------------------------------
(* Threads that were started keep being scheduled, a heartbeat nobody      *)
(* renews grows old, and a database that is asked again and again answers  *)
(* in the end.  The worker heartbeats finitely often before each of its    *)
(* steps, hence the strong fairness; nobody has to start or abort a job,   *)
(* and nothing has to fail.                                                *)
Fairness ==
  /\ \A j \in Jobs : /\ SF_vars(WorkerStep(j))
                    /\ WF_vars(PublisherTick(j))
                    /\ WF_vars(~Beating(j) /\ HeartbeatAges(j))
  /\ \A t \in Threads, j \in Jobs : /\ WF_vars(PersistStep(t, j))
                                   /\ SF_vars(Load(t, j))
                                   /\ SF_vars(Commit(t, j))

FairSpec == Spec /\ Fairness

(* No job looks "forever-running": a row that says running comes to show a *)
(* terminal status, or its heartbeat ages past the stale threshold, which  *)
(* _row_to_dict reports as failed.                                         *)
RunningRowSettles ==
  \A j \in Jobs :
    row[j].status \in Running
      ~> row[j].status \in Terminal \/ ~row[j].fresh

=============================================================================
