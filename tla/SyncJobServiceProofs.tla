------------------------ MODULE SyncJobServiceProofs ------------------------
(***************************************************************************)
(* Proofs about SyncJobService, for any processes, jobs and faults: its    *)
(* types, the lock properties and the refinement of SyncMutex; then, where *)
(* the database answers and the worker outlives its publisher, that the    *)
(* row every other process reads ends with the status of the job.          *)
(***************************************************************************)
EXTENDS SyncJobService, TLAPS

LEMMA InitTypeOK == Init => TypeOK
  BY DEF Init, TypeOK, NoRecord, NoRow, Idle, Record, Row, PersistCall,
         PcValues, Running, Terminal, Threads

(* A persist call has its type whatever record or row it was taken from.   *)
LEMMA PayloadType ==
  ASSUME NEW s \in Running \cup Terminal \cup {"none"}
  PROVE  Payload(s) \in PersistCall
  BY DEF Payload, PersistCall

LEMMA IdleType == Idle \in PersistCall
  BY DEF Idle, PersistCall

LEMMA NextTypeOK == TypeOK /\ [Next]_vars => TypeOK'
<1> SUFFICES ASSUME TypeOK, [Next]_vars PROVE TypeOK'
  OBVIOUS
<1> USE DEF TypeOK
<1>1. ASSUME NEW i \in Instances, NEW j \in Jobs, StartJob(i, j) PROVE TypeOK'
  <2>1. Payload("running") \in PersistCall
    BY PayloadType DEF Running
  <2>2. persist' \in [Threads -> [Jobs -> PersistCall]]
    BY <1>1, <2>1 DEF StartJob, Threads
  <2>3. advisory' \in Jobs \cup {NoJob} /\ lockConn' \in [Instances -> Jobs \cup {NoJob}]
    BY <1>1 DEF StartJob, TryAcquire
  <2>4. rec' \in [Jobs -> Record]
    BY <1>1 DEF StartJob, Record, Running
  <2> QED BY <1>1, <2>2, <2>3, <2>4 DEF StartJob, PcValues
<1>2. ASSUME NEW j \in Jobs, WorkerStep(j) PROVE TypeOK'
  <2>1. CASE RunWorker(j)
    BY <2>1 DEF RunWorker, PcValues
  <2>2. CASE StartPublisher(j)
    BY <2>2 DEF StartPublisher, PcValues
  <2>3. CASE StopPublisher(j)
    BY <2>3 DEF StopPublisher, PcValues
  <2>4. CASE JoinPublisher(j)
    BY <2>4 DEF JoinPublisher, PcValues
  <2>5. ASSUME NEW s \in Terminal, Finalize(j, s) PROVE TypeOK'
    <3>1. rec' \in [Jobs -> Record]
      BY <2>5 DEF Finalize, Record, Terminal
    <3>2. /\ active' \in [Instances -> Jobs \cup {NoJob}]
          /\ lockConn' \in [Instances -> Jobs \cup {NoJob}]
      BY <2>5 DEF Finalize
    <3> QED BY <2>5, <3>1, <3>2 DEF Finalize, PcValues
  <2>6. CASE WorkerReturns(j)
    BY <2>5, <2>6 DEF WorkerReturns, Terminal
  <2>7. CASE WorkerRaises(j)
    BY <2>5, <2>7 DEF WorkerRaises, Terminal
  <2>8. CASE ReleaseLock(j)
    BY <2>8, PayloadType DEF ReleaseLock, Take, PcValues, Record, Threads
  <2>9. CASE EndWorker(j)
    BY <2>9 DEF EndWorker, PcValues
  <2> QED BY <1>2, <2>1, <2>2, <2>3, <2>4, <2>6, <2>7, <2>8, <2>9 DEF WorkerStep
<1>3. ASSUME NEW j \in Jobs, WorkerHeartbeat(j) \/ PublisherTick(j) PROVE TypeOK'
  BY <1>3, PayloadType DEF WorkerHeartbeat, PublisherTick, Take, Record, Threads
<1>4. ASSUME NEW t \in Threads, NEW j \in Jobs, PersistStep(t, j) PROVE TypeOK'
  <2>1. CASE Load(t, j)
    <3>1. persist' \in [Threads -> [Jobs -> PersistCall]]
      BY <2>1 DEF Load, PersistCall, Row, Record
    <3> QED BY <2>1, <3>1 DEF Load
  <2>2. CASE Commit(t, j)
    <3>1. persist' \in [Threads -> [Jobs -> PersistCall]]
      BY <2>2, IdleType DEF Commit
    <3>2. row' \in [Jobs -> Row]
      BY <2>2 DEF Commit, PersistCall, Row
    <3> QED BY <2>2, <3>1, <3>2 DEF Commit
  <2>3. CASE PersistFails(t, j)
    BY <2>3, IdleType DEF PersistFails
  <2> QED BY <1>4, <2>1, <2>2, <2>3 DEF PersistStep
<1>5. ASSUME NEW j \in Jobs, AbortJob(j) PROVE TypeOK'
  BY <1>5 DEF AbortJob, Record, Running
<1>6. ASSUME NEW j \in Jobs, HeartbeatAges(j) PROVE TypeOK'
  BY <1>6 DEF HeartbeatAges, Row
<1>7. ASSUME NEW i \in Instances, Crash(i) PROVE TypeOK'
  <2>1. NoRecord \in Record
    BY DEF NoRecord, Record
  <2>2. rec' \in [Jobs -> Record] /\ persist' \in [Threads -> [Jobs -> PersistCall]]
    BY <1>7, <2>1, IdleType DEF Crash
  <2> QED BY <1>7, <2>2 DEF Crash, PcValues
<1>8. ASSUME NEW i \in Instances, Restart(i) PROVE TypeOK'
  BY <1>8 DEF Restart
<1>9. CASE LoseConnection
  BY <1>9 DEF LoseConnection
<1>10. CASE UNCHANGED vars
  BY <1>10 DEF vars
<1> QED
  BY <1>1, <1>2, <1>3, <1>4, <1>5, <1>6, <1>7, <1>8, <1>9, <1>10 DEF Next

(* Every variable of the sync-job manager keeps the shape its Python       *)
(* counterpart has, for any number of processes and jobs and any faults.   *)
THEOREM TypeCorrect == Spec => []TypeOK
  BY InitTypeOK, NextTypeOK, PTL DEF Spec

-----------------------------------------------------------------------------
(* The lock properties.  LockInv without its typing part.                  *)
LInv == ActiveInv /\ ConnInv /\ AdvisoryInv /\ HolderInv

LEMMA InitLockInv == Init => LockInv
  BY InitTypeOK, ConstantsAssumption
  DEF Init, LockInv, ActiveInv, ConnInv, AdvisoryInv, HolderInv, InFlight,
      NoRecord, Running

(* What LockInv says depends on seven variables only.                      *)
LEMMA LockFrame ==
  ASSUME LInv, UNCHANGED <<owner, active, lockConn, advisory, myLock>>,
         \A j \in Jobs : InFlight(j)' <=> InFlight(j),
         \A j \in Jobs : pc[j] = "finalized" <=> pc'[j] = "finalized",
         \A j \in Jobs : rec'[j].status \in Running <=> rec[j].status \in Running,
         TypeOK, TypeOK'
  PROVE  LInv'
<1> USE DEF TypeOK
<1>1. ActiveInv'
  BY DEF LInv, ActiveInv
<1>2. ConnInv'
  BY DEF LInv, ConnInv
<1>3. AdvisoryInv'
  BY DEF LInv, AdvisoryInv
<1>4. HolderInv'
  BY DEF LInv, HolderInv
<1> QED BY <1>1, <1>2, <1>3, <1>4 DEF LInv

LEMMA StartLInv ==
  ASSUME TypeOK, LInv, TypeOK', NEW i \in Instances, NEW j \in Jobs,
         StartJob(i, j)
  PROVE  LInv'
<1> USE ConstantsAssumption DEF TypeOK
<1>1. \A k \in Jobs : InFlight(k)' <=> k = j \/ InFlight(k)
  BY DEF StartJob, InFlight
<1>2. ~InFlight(j) /\ pc[j] # "finalized" /\ lockConn[i] = NoJob
  BY DEF StartJob, InFlight, LInv, ConnInv, ActiveInv, HasActive
<1>3. \A k \in Jobs : InFlight(k) => owner[k] # i
  BY DEF StartJob, LInv, ActiveInv, HasActive
<1>4. ActiveInv'
  BY <1>1, <1>2, <1>3 DEF StartJob, LInv, ActiveInv, Running
<1>5. ConnInv'
  BY <1>1, <1>2, <1>3 DEF StartJob, TryAcquire, LInv, ConnInv
<1>6. AdvisoryInv'
  BY <1>1, <1>2, <1>3 DEF StartJob, TryAcquire, LInv, AdvisoryInv, ActiveInv
<1>7. HolderInv'
  BY <1>1, <1>2 DEF StartJob, TryAcquire, LInv, HolderInv
<1> QED BY <1>4, <1>5, <1>6, <1>7 DEF LInv

LEMMA FinalizeLInv ==
  ASSUME TypeOK, LInv, TypeOK', NEW j \in Jobs, NEW s \in Terminal,
         InFlight(j), Finalize(j, s)
  PROVE  LInv'
<1> USE ConstantsAssumption DEF TypeOK
<1> DEFINE i == owner[j]
<1>0. i \in Instances /\ active[i] = j
  BY DEF LInv, ActiveInv
<1>1. \A k \in Jobs : InFlight(k)' <=> k # j /\ InFlight(k)
  BY DEF Finalize, InFlight
<1>2. lockConn[i] \in {j, NoJob} /\ pc[j] # "finalized" /\ myLock[j] = NoJob
  BY <1>0 DEF InFlight, LInv, ConnInv, ActiveInv
<1>3. \A k \in Jobs : InFlight(k) /\ k # j => owner[k] # i
  BY <1>0 DEF LInv, ActiveInv
<1>4. ActiveInv'
  BY <1>0, <1>1, <1>3 DEF Finalize, LInv, ActiveInv, Running, Terminal
<1>5. ConnInv'
  BY <1>0, <1>1, <1>2, <1>3 DEF Finalize, LInv, ConnInv
<1>6. AdvisoryInv'
  BY <1>0, <1>1, <1>2, <1>3 DEF Finalize, LInv, AdvisoryInv, ActiveInv
<1>7. HolderInv'
  BY <1>1 DEF Finalize, LInv, HolderInv
<1> QED BY <1>4, <1>5, <1>6, <1>7 DEF LInv

LEMMA ReleaseLInv ==
  ASSUME TypeOK, LInv, TypeOK', NEW j \in Jobs, ReleaseLock(j)
  PROVE  LInv'
<1> USE ConstantsAssumption DEF TypeOK
<1>1. \A k \in Jobs : InFlight(k)' <=> InFlight(k)
  BY DEF ReleaseLock, InFlight
<1>2. ~InFlight(j) /\ pc'[j] # "finalized" /\ myLock[j] \in {j, NoJob}
  BY DEF ReleaseLock, InFlight, LInv, ConnInv
<1>3. ActiveInv'
  BY <1>1 DEF ReleaseLock, LInv, ActiveInv
<1>4. ConnInv'
  BY <1>1, <1>2 DEF ReleaseLock, LInv, ConnInv
<1>5. AdvisoryInv'
  BY <1>1, <1>2 DEF ReleaseLock, LInv, AdvisoryInv
<1>6. HolderInv'
  BY <1>1, <1>2 DEF ReleaseLock, LInv, HolderInv
<1> QED BY <1>3, <1>4, <1>5, <1>6 DEF LInv

LEMMA CrashLInv ==
  ASSUME TypeOK, LInv, TypeOK', NEW i \in Instances, Crash(i)
  PROVE  LInv'
<1> USE ConstantsAssumption DEF TypeOK
<1>1. \A k \in Jobs : InFlight(k)' <=> InFlight(k) /\ owner[k] # i
  BY DEF Crash, InFlight, Owned
<1>2. \A k \in Jobs : pc'[k] = "finalized" <=> pc[k] = "finalized" /\ owner[k] # i
  BY DEF Crash, Owned
<1>3. ActiveInv'
  BY <1>1 DEF Crash, Owned, LInv, ActiveInv, NoRecord, Running
<1>4. ConnInv'
  BY <1>1, <1>2 DEF Crash, Owned, LInv, ConnInv
<1>5. AdvisoryInv'
  BY <1>1, <1>2 DEF Crash, Owned, LInv, AdvisoryInv, ActiveInv
<1>6. HolderInv'
  BY <1>1 DEF Crash, Owned, LInv, HolderInv
<1> QED BY <1>3, <1>4, <1>5, <1>6 DEF LInv

LEMMA NextLockInv == LockInv /\ [Next]_vars => LockInv'
<1> SUFFICES ASSUME TypeOK, LInv, [Next]_vars PROVE TypeOK' /\ LInv'
  BY DEF LockInv, LInv
<1>0. TypeOK'
  BY NextTypeOK
<1>1. ASSUME NEW i \in Instances, NEW j \in Jobs, StartJob(i, j) PROVE LInv'
  BY <1>0, <1>1, StartLInv
<1>2. ASSUME NEW j \in Jobs, WorkerStep(j) PROVE LInv'
  <2>1. CASE RunWorker(j) \/ StartPublisher(j) \/ StopPublisher(j) \/ JoinPublisher(j)
    BY <1>0, <2>1, LockFrame DEF RunWorker, StartPublisher, StopPublisher,
       JoinPublisher, InFlight, TypeOK
  <2>2. CASE WorkerReturns(j)
    BY <1>0, <2>2, FinalizeLInv DEF WorkerReturns, InFlight, Terminal
  <2>3. CASE WorkerRaises(j)
    BY <1>0, <2>3, FinalizeLInv DEF WorkerRaises, InFlight, Terminal
  <2>4. CASE ReleaseLock(j)
    BY <1>0, <2>4, ReleaseLInv
  <2>5. CASE EndWorker(j)
    BY <1>0, <2>5, LockFrame DEF EndWorker, InFlight, TypeOK
  <2> QED BY <1>2, <2>1, <2>2, <2>3, <2>4, <2>5 DEF WorkerStep
<1>3. ASSUME NEW j \in Jobs, WorkerHeartbeat(j) \/ PublisherTick(j) PROVE LInv'
  BY <1>0, <1>3, LockFrame DEF WorkerHeartbeat, PublisherTick, Take, InFlight
<1>4. ASSUME NEW t \in Threads, NEW j \in Jobs, PersistStep(t, j) PROVE LInv'
  BY <1>0, <1>4, LockFrame DEF PersistStep, Load, Commit, PersistFails, InFlight
<1>5. ASSUME NEW j \in Jobs, AbortJob(j) PROVE LInv'
  <2>1. \A k \in Jobs : rec'[k].status \in Running <=> rec[k].status \in Running
    BY <1>5 DEF AbortJob, Running, TypeOK
  <2> QED BY <1>0, <1>5, <2>1, LockFrame DEF AbortJob, InFlight
<1>6. ASSUME NEW j \in Jobs, HeartbeatAges(j) PROVE LInv'
  BY <1>0, <1>6, LockFrame DEF HeartbeatAges, InFlight
<1>7. ASSUME NEW i \in Instances, Crash(i) PROVE LInv'
  BY <1>0, <1>7, CrashLInv
<1>8. ASSUME NEW i \in Instances, Restart(i) PROVE LInv'
  BY <1>0, <1>8, LockFrame DEF Restart, InFlight
<1>9. ASSUME LoseConnection PROVE LInv'
  <2>1. ~(Faults \cap {"db", "conn"} = {})
    BY <1>9 DEF LoseConnection
  <2> QED BY <1>9, <2>1 DEF LoseConnection, LInv, ActiveInv, ConnInv,
             AdvisoryInv, HolderInv, InFlight
<1>10. CASE UNCHANGED vars
  BY <1>0, <1>10, LockFrame DEF vars, InFlight
<1>11. LInv'
  BY <1>1, <1>2, <1>3, <1>4, <1>5, <1>6, <1>7, <1>8, <1>9, <1>10 DEF Next
<1> QED BY <1>0, <1>11

(* LockInv is an invariant: the active job, the lock connection, the local *)
(* copy a finished worker took and the Postgres lock always fit together.  *)
THEOREM LockInvariant == Spec => []LockInv
  BY InitLockInv, NextLockInv, PTL DEF Spec

(* As long as the database answers and keeps the lock session, no two jobs *)
(* are in flight, for any number of processes, jobs and crashes.           *)
THEOREM SingleFlightHolds == Spec => []SingleFlight
<1>1. LockInv => SingleFlight
  BY DEF LockInv, HolderInv, SingleFlight
<1> QED BY LockInvariant, <1>1, PTL

(* Whatever the database does, a process runs at most one job.             *)
THEOREM OnePerInstanceHolds == Spec => []OnePerInstance
<1>1. LockInv => OnePerInstance
  BY DEF LockInv, ActiveInv, OnePerInstance
<1> QED BY LockInvariant, <1>1, PTL

(* The advisory lock always has a holder that will still unlock it.        *)
THEOREM NoLeakedLockHolds == Spec => []NoLeakedLock
<1>1. LockInv => NoLeakedLock
  BY DEF LockInv, AdvisoryInv, NoLeakedLock
<1> QED BY LockInvariant, <1>1, PTL

-----------------------------------------------------------------------------
(* The refinement.  A job without an owner has not been started.           *)
OwnerInv == \A j \in Jobs : pc[j] = "unborn" => owner[j] = NoJob

LEMMA OwnerInvariant == Spec => []OwnerInv
<1>1. Init => OwnerInv
  BY DEF Init, OwnerInv
<1>2. TypeOK /\ OwnerInv /\ [Next]_vars => OwnerInv'
  <2> SUFFICES ASSUME TypeOK, OwnerInv, [Next]_vars PROVE OwnerInv'
    OBVIOUS
  <2> USE DEF TypeOK, OwnerInv
  <2>1. ASSUME NEW i \in Instances, NEW j \in Jobs, StartJob(i, j) PROVE OwnerInv'
    BY <2>1 DEF StartJob
  <2>2. ASSUME NEW j \in Jobs, WorkerStep(j) PROVE OwnerInv'
    BY <2>2 DEF WorkerStep, RunWorker, StartPublisher, StopPublisher, JoinPublisher,
       WorkerReturns, WorkerRaises, Finalize, ReleaseLock, EndWorker
  <2>3. ASSUME NEW i \in Instances, Crash(i) PROVE OwnerInv'
    BY <2>3 DEF Crash, Owned
  <2>4. CASE UNCHANGED <<owner, pc>>
    BY <2>4
  <2> QED
    BY <2>1, <2>2, <2>3, <2>4 DEF Next, vars, WorkerHeartbeat, PublisherTick,
       PersistStep, Load, Commit, PersistFails, AbortJob, HeartbeatAges, Restart,
       LoseConnection
<1> QED BY <1>1, <1>2, TypeCorrect, PTL DEF Spec

(* A step that leaves every job in its phase is a stuttering step.         *)
LEMMA SamePhases ==
  ASSUME \A j \in Jobs : Phase(j)' = Phase(j)
  PROVE  [Mutex!MutexNext]_([j \in Jobs |-> Phase(j)])
  OBVIOUS

(* A step that ends one running job, or none, is allowed by SyncMutex.     *)
LEMMA EndsOne ==
  ASSUME NEW j \in Jobs, InFlight(j), pc[j] # "unborn", Phase(j)' = "ended",
         \A k \in Jobs : k # j => Phase(k)' = Phase(k)
  PROVE  [Mutex!MutexNext]_([k \in Jobs |-> Phase(k)])
<1>1. Phase(j) = "running"
  BY DEF Phase
<1>2. Mutex!End(j)
  BY <1>1 DEF Mutex!End
<1> QED BY <1>2 DEF Mutex!MutexNext

LEMMA StepImplements ==
  ASSUME Faults \cap {"db", "conn"} = {}, LockInv, OwnerInv, [Next]_vars
  PROVE  [Mutex!MutexNext]_([j \in Jobs |-> Phase(j)])
<1> DEFINE Goal == [Mutex!MutexNext]_([j \in Jobs |-> Phase(j)])
<1> USE ConstantsAssumption DEF LockInv, TypeOK
<1>1. ASSUME NEW i \in Instances, NEW j \in Jobs, StartJob(i, j) PROVE Goal
  <2>1. advisory = NoJob
    BY <1>1 DEF StartJob, TryAcquire
  <2>2. \A k \in Jobs : ~InFlight(k)
    BY <2>1 DEF HolderInv
  <2>3. Phase(j) = "new" /\ \A k \in Jobs : Phase(k) # "running"
    BY <1>1, <2>2 DEF StartJob, Phase
  <2>4. Phase(j)' = "running" /\ \A k \in Jobs : k # j => Phase(k)' = Phase(k)
    BY <1>1 DEF StartJob, Phase, InFlight
  <2>5. Mutex!Start(j)
    BY <2>3, <2>4 DEF Mutex!Start
  <2> QED BY <2>5 DEF Mutex!MutexNext
<1>2. ASSUME NEW j \in Jobs, NEW s \in Terminal, InFlight(j), Finalize(j, s) PROVE Goal
  <2>1. Phase(j)' = "ended" /\ \A k \in Jobs : k # j => Phase(k)' = Phase(k)
    BY <1>2 DEF Finalize, Phase, InFlight
  <2> QED BY <1>2, <2>1, EndsOne DEF InFlight
<1>3. ASSUME NEW j \in Jobs, WorkerStep(j) PROVE Goal
  <2>1. CASE WorkerReturns(j)
    BY <1>2, <2>1 DEF WorkerReturns, InFlight, Terminal
  <2>2. CASE WorkerRaises(j)
    BY <1>2, <2>2 DEF WorkerRaises, InFlight, Terminal
  <2>3. CASE \/ RunWorker(j) \/ StartPublisher(j) \/ StopPublisher(j)
             \/ JoinPublisher(j) \/ ReleaseLock(j) \/ EndWorker(j)
    <3>1. \A k \in Jobs : Phase(k)' = Phase(k)
      BY <2>3 DEF RunWorker, StartPublisher, StopPublisher, JoinPublisher,
         ReleaseLock, EndWorker, Phase, InFlight
    <3> QED BY <3>1, SamePhases
  <2> QED BY <1>3, <2>1, <2>2, <2>3 DEF WorkerStep
<1>4. ASSUME NEW i \in Instances, Crash(i) PROVE Goal
  <2>1. \A k \in Jobs : owner[k] # i => Phase(k)' = Phase(k)
    BY <1>4 DEF Crash, Owned, Phase, InFlight
  <2>2. \A k \in Jobs : owner[k] = i => pc[k] # "unborn" /\ Phase(k)' = "ended"
    BY <1>4 DEF Crash, Owned, Phase, InFlight, OwnerInv
  <2>3. ASSUME NEW j \in Jobs, owner[j] = i, InFlight(j) PROVE Goal
    <3>1. \A k \in Jobs : k # j => ~InFlight(k)
      BY <2>3 DEF HolderInv
    <3>2. \A k \in Jobs : k # j => Phase(k)' = Phase(k)
      BY <2>1, <2>2, <3>1 DEF Phase
    <3> QED BY <2>2, <2>3, <3>2, EndsOne
  <2>4. ASSUME \A k \in Jobs : owner[k] = i => ~InFlight(k) PROVE Goal
    <3>1. \A k \in Jobs : Phase(k)' = Phase(k)
      BY <2>1, <2>2, <2>4 DEF Phase
    <3> QED BY <3>1, SamePhases
  <2> QED BY <2>3, <2>4
<1>5. ASSUME UNCHANGED pc PROVE Goal
  <2>1. \A k \in Jobs : Phase(k)' = Phase(k)
    BY <1>5 DEF Phase, InFlight
  <2> QED BY <2>1, SamePhases
<1> QED
  BY <1>1, <1>3, <1>4, <1>5 DEF Next, vars, WorkerHeartbeat, PublisherTick,
     PersistStep, Load, Commit, PersistFails, AbortJob, HeartbeatAges, Restart,
     LoseConnection

(* As long as the database answers and keeps the lock session, the manager *)
(* implements SyncMutex: start_job, the finalization, the release and the  *)
(* death of processes are, seen from outside, the start and the end of one *)
(* job at a time, for any number of processes and jobs.                    *)
THEOREM MutexImplemented ==
  ASSUME Faults \cap {"db", "conn"} = {}
  PROVE  Spec => ImplementsMutex
<1>1. Init => Mutex!MutexInit
  BY DEF Init, Mutex!MutexInit, Phase
<1>2. LockInv /\ OwnerInv /\ [Next]_vars => [Mutex!MutexNext]_([j \in Jobs |-> Phase(j)])
  BY StepImplements
<1> QED BY <1>1, <1>2, LockInvariant, OwnerInvariant, PTL
        DEF Spec, ImplementsMutex, Mutex!MutexSpec

-----------------------------------------------------------------------------
(* The job's row *)

Orderly == Faults \cap {"db", "slow", "raise"} = {}

\* The publisher persists only while the worker is waiting for it to end, and
\* the worker only where its thread is: nobody writes beside the final persist.
OneWriter(j) ==
    /\ pub[j] = "on" => pc[j] = "publishing"
    /\ persist["pub"][j] # Idle => pc[j] \in {"publishing", "stopping"}
    /\ persist["main"][j] # Idle =>
           pc[j] \in {"recorded", "working", "publishing", "joined", "released"}

\* The record of a job that ended is terminal and so out of reach of an abort;
\* the final persist carries it, knows the row as it is, and leaves it there.
FinalWritten(j) ==
    /\ pc[j] \in {"finalized", "released", "done"} => rec[j].status \in Terminal
    /\ pc[j] = "released" /\ persist["main"][j] # Idle =>
           /\ persist["main"][j].status = rec[j].status
           /\ persist["main"][j].phase = "loaded" => persist["main"][j].loaded = row[j].status
    /\ pc[j] = "released" /\ persist["main"][j] = Idle => row[j].status = rec[j].status
    /\ pc[j] = "done" => row[j].status = rec[j].status

\* The inductive invariant.
RowInv == TypeOK /\ \A j \in Jobs : OneWriter(j) /\ FinalWritten(j)

\* A step that leaves all of a job's own state alone.
Untouched(j) ==
    /\ pc'[j] = pc[j] /\ pub'[j] = pub[j] /\ rec'[j] = rec[j]
    /\ row'[j].status = row[j].status
    /\ \A t \in Threads : persist'[t][j] = persist[t][j]

LEMMA UntouchedKeeps ==
  ASSUME NEW j \in Jobs, Untouched(j), OneWriter(j), FinalWritten(j)
  PROVE  OneWriter(j)' /\ FinalWritten(j)'
BY DEF Untouched, OneWriter, FinalWritten, Threads

\* A call of _persist_record under way is told from none by its phase.
LEMMA Distinct ==
  /\ \A s : Payload(s) # Idle
  /\ \A p : p.phase # "idle" => p # Idle
BY DEF Payload, Idle

LEMMA InitRowInv == Init => RowInv
<1> SUFFICES ASSUME Init PROVE RowInv
  OBVIOUS
<1>1. TypeOK
  BY InitTypeOK
<1> QED
  BY <1>1 DEF Init, RowInv, OneWriter, FinalWritten, Threads

\* Steps of the worker thread.
LEMMA WorkerKeeps ==
  ASSUME RowInv, Orderly, NEW j \in Jobs, WorkerStep(j)
  PROVE  \A k \in Jobs : OneWriter(k)' /\ FinalWritten(k)'
<1> USE DEF RowInv, TypeOK
<1>1. ASSUME NEW k \in Jobs, k # j PROVE OneWriter(k)' /\ FinalWritten(k)'
  <2>1. Untouched(k)
    BY <1>1 DEF WorkerStep, RunWorker, StartPublisher, StopPublisher, JoinPublisher,
       WorkerReturns, WorkerRaises, Finalize, ReleaseLock, EndWorker, Take, Untouched, Threads
  <2> QED BY <2>1, UntouchedKeeps
<1>2. CASE RunWorker(j) \/ StartPublisher(j) \/ StopPublisher(j)
  BY <1>2 DEF RunWorker, StartPublisher, StopPublisher, OneWriter, FinalWritten
<1>3. CASE JoinPublisher(j)
  BY <1>3 DEF JoinPublisher, OneWriter, FinalWritten, Orderly
<1>4. ASSUME NEW s \in Terminal, Finalize(j, s), persist["main"][j] = Idle,
             pc[j] \in {"working", "joined"}
      PROVE  OneWriter(j)' /\ FinalWritten(j)'
  BY <1>4 DEF Finalize, OneWriter, FinalWritten
<1>5. CASE WorkerReturns(j)
  BY <1>1, <1>4, <1>5 DEF WorkerReturns, Terminal
<1>6. CASE WorkerRaises(j)
  BY <1>1, <1>4, <1>6 DEF WorkerRaises, Terminal, Orderly
<1>7. CASE ReleaseLock(j)
  <2>1. /\ pc[j] = "finalized" /\ pc'[j] = "released" /\ UNCHANGED <<rec, row, pub>>
        /\ persist'["main"][j] = Payload(rec[j].status)
        /\ persist'["pub"][j] = persist["pub"][j]
    BY <1>7 DEF ReleaseLock, Take, Threads
  <2>2. OneWriter(j)' /\ FinalWritten(j)'
    BY <2>1, Distinct DEF OneWriter, FinalWritten, Payload
  <2> QED BY <1>1, <2>2
<1>8. CASE EndWorker(j)
  BY <1>1, <1>8 DEF EndWorker, OneWriter, FinalWritten
<1> QED
  BY <1>1, <1>2, <1>3, <1>5, <1>6, <1>7, <1>8 DEF WorkerStep

\* Steps of _persist_record.
LEMMA PersistKeeps ==
  ASSUME RowInv, Orderly, NEW t \in Threads, NEW j \in Jobs, PersistStep(t, j)
  PROVE  \A k \in Jobs : OneWriter(k)' /\ FinalWritten(k)'
<1> USE DEF RowInv, TypeOK, Threads
<1>1. ASSUME NEW k \in Jobs, k # j PROVE OneWriter(k)' /\ FinalWritten(k)'
  <2>1. Untouched(k)
    BY <1>1 DEF PersistStep, Load, Commit, PersistFails, Untouched
  <2> QED BY <2>1, UntouchedKeeps
<1>2. ~PersistFails(t, j)
  BY DEF PersistFails, Orderly
<1>3. CASE Load(t, j)
  <2>1. /\ persist[t][j] # Idle /\ UNCHANGED <<pc, pub, rec, row>>
        /\ persist'[t][j] = [phase |-> "loaded", status |-> persist[t][j].status,
                             loaded |-> row[j].status, abort |-> rec[j].abort]
        /\ \A u \in Threads : u # t => persist'[u][j] = persist[u][j]
    BY <1>3 DEF Load, Idle
  <2>2. OneWriter(j)'
    BY <2>1 DEF OneWriter
  <2>3. FinalWritten(j)'
    <3>1. persist'[t][j] # Idle
      BY <2>1 DEF Idle
    <3> QED BY <2>1, <3>1 DEF FinalWritten
  <2> QED BY <1>1, <2>2, <2>3
<1>4. CASE Commit(t, j)
  <2> DEFINE p == persist[t][j]
  <2>1. /\ p.phase = "loaded" /\ p # Idle /\ UNCHANGED <<pc, pub, rec>>
        /\ persist'[t][j] = Idle
        /\ \A u \in Threads : u # t => persist'[u][j] = persist[u][j]
    BY <1>4 DEF Commit, Idle
  <2>2. row'[j].status \in {row[j].status, p.status}
        /\ (p.loaded = row[j].status => row'[j].status = p.status)
    BY <1>4 DEF Commit
  <2>3. OneWriter(j)'
    BY <2>1 DEF OneWriter
  <2>4. FinalWritten(j)'
    <3>1. CASE t = "main"
      BY <2>1, <2>2, <3>1 DEF FinalWritten, OneWriter
    <3>2. CASE t = "pub"
      BY <2>1, <3>2 DEF FinalWritten, OneWriter
    <3> QED BY <3>1, <3>2
  <2> QED BY <1>1, <2>3, <2>4
<1> QED BY <1>2, <1>3, <1>4 DEF PersistStep

\* Every step keeps the invariant.
LEMMA NextRowInv ==
  ASSUME Orderly
  PROVE  RowInv /\ [Next]_vars => RowInv'
<1> SUFFICES ASSUME RowInv, [Next]_vars PROVE RowInv'
  OBVIOUS
<1>1. TypeOK'
  BY NextTypeOK DEF RowInv
<1> SUFFICES ASSUME NEW k \in Jobs PROVE OneWriter(k)' /\ FinalWritten(k)'
  BY <1>1 DEF RowInv
<1>2. TypeOK /\ OneWriter(k) /\ FinalWritten(k)
  BY DEF RowInv
<1> USE DEF TypeOK, Threads
<1>3. ASSUME NEW i \in Instances, NEW j \in Jobs, StartJob(i, j)
      PROVE  OneWriter(k)' /\ FinalWritten(k)'
  <2>1. CASE k = j
    <3>1. /\ pc[k] = "unborn" /\ pc'[k] = "recorded" /\ UNCHANGED pub
          /\ persist'["pub"][k] = persist["pub"][k]
      BY <1>2, <1>3, <2>1 DEF StartJob
    <3> QED BY <1>2, <3>1 DEF OneWriter, FinalWritten
  <2>2. CASE k # j
    <3>1. Untouched(k)
      BY <1>2, <1>3, <2>2 DEF StartJob, Untouched
    <3> QED BY <1>2, <3>1, UntouchedKeeps
  <2> QED BY <2>1, <2>2
<1>4. ASSUME NEW j \in Jobs, WorkerStep(j) PROVE OneWriter(k)' /\ FinalWritten(k)'
  BY <1>4, WorkerKeeps
<1>5. ASSUME NEW j \in Jobs, WorkerHeartbeat(j) \/ PublisherTick(j)
      PROVE  OneWriter(k)' /\ FinalWritten(k)'
  <2>1. CASE k = j
    BY <1>2, <1>5, <2>1 DEF WorkerHeartbeat, PublisherTick, Take, OneWriter, FinalWritten
  <2>2. CASE k # j
    <3>1. Untouched(k)
      BY <1>2, <1>5, <2>2 DEF WorkerHeartbeat, PublisherTick, Take, Untouched
    <3> QED BY <1>2, <3>1, UntouchedKeeps
  <2> QED BY <2>1, <2>2
<1>6. ASSUME NEW t \in Threads, NEW j \in Jobs, PersistStep(t, j)
      PROVE  OneWriter(k)' /\ FinalWritten(k)'
  BY <1>6, PersistKeeps
<1>7. ASSUME NEW j \in Jobs, AbortJob(j) PROVE OneWriter(k)' /\ FinalWritten(k)'
  <2>1. CASE k = j
    <3>1. rec[k].status \in Running /\ UNCHANGED <<pc, pub, persist, row>>
      BY <1>7, <2>1 DEF AbortJob
    <3>2. pc[k] \notin {"finalized", "released", "done"}
      BY <1>2, <3>1 DEF FinalWritten, Running, Terminal
    <3> QED BY <1>2, <3>1, <3>2 DEF OneWriter, FinalWritten
  <2>2. CASE k # j
    <3>1. Untouched(k)
      BY <1>2, <1>7, <2>2 DEF AbortJob, Untouched
    <3> QED BY <1>2, <3>1, UntouchedKeeps
  <2> QED BY <2>1, <2>2
<1>8. ASSUME NEW j \in Jobs, HeartbeatAges(j) PROVE OneWriter(k)' /\ FinalWritten(k)'
  <2>1. Untouched(k)
    BY <1>2, <1>8 DEF HeartbeatAges, Untouched, Row
  <2> QED BY <1>2, <2>1, UntouchedKeeps
<1>9. ASSUME NEW i \in Instances, Crash(i) PROVE OneWriter(k)' /\ FinalWritten(k)'
  <2>1. CASE k \in Owned(i)
    <3>1. pc'[k] = "dead" /\ pub'[k] = "off" /\ \A t \in Threads : persist'[t][k] = Idle
      BY <1>9, <2>1 DEF Crash
    <3> QED BY <3>1 DEF OneWriter, FinalWritten
  <2>2. CASE k \notin Owned(i)
    <3>1. Untouched(k)
      BY <1>9, <2>2 DEF Crash, Untouched
    <3> QED BY <1>2, <3>1, UntouchedKeeps
  <2> QED BY <2>1, <2>2
<1>10. CASE (\E i \in Instances : Restart(i)) \/ LoseConnection \/ UNCHANGED vars
  <2>1. Untouched(k)
    BY <1>10 DEF Restart, LoseConnection, vars, Untouched
  <2> QED BY <1>2, <2>1, UntouchedKeeps
<1> QED
  BY <1>3, <1>4, <1>5, <1>6, <1>7, <1>8, <1>9, <1>10 DEF Next

\* Where the database answers, ticks of the publisher end within the join and
\* the job body does not raise beside it, the row shows the status a job ended
\* with once its worker thread is done, whenever aborts and crashes come.
THEOREM FinalStatusPersistedHolds ==
  ASSUME Orderly
  PROVE  Spec => []FinalStatusPersisted
<1>1. RowInv => FinalStatusPersisted
  BY DEF RowInv, FinalWritten, FinalStatusPersisted
<1>2. RowInv /\ [Next]_vars => RowInv'
  BY NextRowInv
<1> QED BY <1>1, <1>2, InitRowInv, PTL DEF Spec
=============================================================================
