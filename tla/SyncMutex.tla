----------------------------- MODULE SyncMutex ------------------------------
(* What the sync-job manager promises to the rest of the deployment: each  *)
(* job runs at most once, and never while another one runs, on whatever    *)
(* process it was started.                                                 *)
CONSTANT Jobs

VARIABLE phase   \* phase[j]: "new", "running" or "ended"

MutexInit == phase = [j \in Jobs |-> "new"]

Start(j) ==
  /\ phase[j] = "new"
  /\ \A k \in Jobs : phase[k] # "running"
  /\ phase' = [phase EXCEPT ![j] = "running"]

(* A job ends by itself or with its process.                               *)
End(j) ==
  /\ phase[j] = "running"
  /\ phase' = [phase EXCEPT ![j] = "ended"]

MutexNext == \E j \in Jobs : Start(j) \/ End(j)

MutexSpec == MutexInit /\ [][MutexNext]_phase

=============================================================================
