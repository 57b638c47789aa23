---------------------------- MODULE SyncPipeline ----------------------------
(***************************************************************************)
(* The body of a sync job: _run_sync_job_worker of api/routes/admin.py,    *)
(* the fetch thread per calendar of services/calendar_sync_worker.py, and  *)
(* the bounded queue with its worker pool of                               *)
(* services/event_pipeline_processor.py.                                   *)
(*                                                                         *)
(* A calendar is read from its sync token on; its changed events are put   *)
(* on the queue, its cancelled ones reconciled, and the new token saved    *)
(* while the queued events are still being enriched and persisted.  Jobs   *)
(* do not overlap (module SyncJobService).  The checks of the abort event  *)
(* in the fetch threads are left out: the event is set only after all of   *)
(* them have ended.                                                        *)
(***************************************************************************)
EXTENDS Naturals, Sequences, FiniteSets

CONSTANTS
  Calendars,   \* enabled calendars
  Events,      \* Google event ids
  Carries,     \* Carries[c]: the ids that may occur in calendar c
  Hashes,      \* title, start, location and description of an event, the
               \* parts a re-pull is compared by
  Ends,        \* end time and all-day flag, which are not compared
  Tagged,      \* calendars that have default tags
  Blocked,     \* ids an admin has banned from import
  Workers,     \* the enrichment pool
  MaxQueue,    \* max_queue_size
  MaxChanges,  \* bound on the upstream edits of one calendar
  Modes,       \* the modes jobs are started in
  Faults,      \* which of FaultKinds this environment exhibits
  NoToken

FaultKinds ==
  { "api",      \* Google fails beyond the retries of get_events
    "expiry",   \* Google answers 410 to a sync token
    "notoken",  \* Google returns no nextSyncToken
    "abort",    \* an admin aborts the job
    "enrich",   \* an enrichment stage raises
    "precheck", \* the look-up of a ban fails, before anything is counted
    "db",       \* a later transaction fails
    "crash" }   \* the process dies

ASSUME PipelineAssumption ==
  /\ IsFiniteSet(Workers)
  /\ MaxQueue \in Nat \ {0}
  /\ MaxChanges \in Nat
  /\ NoToken \notin Nat
  /\ Carries \in [Calendars -> SUBSET Events]
  /\ Tagged \subseteq Calendars
  /\ Blocked \subseteq Events
  /\ Modes \subseteq {"incremental", "reseed"}
  /\ Faults \subseteq FaultKinds

VARIABLES
  upstream,   \* upstream[c][e]: Google's copy, and when it last changed
  clock,      \* clock[c]: changes made to calendar c so far
  token,      \* token[c]: CalendarSetting.sync_token, a clock value
  row,        \* row[e]: the CachedEvent and its source calendars
  job,        \* where _run_sync_job_worker is
  abortReq,   \* abort_requested of the job's record
  abortEvent, \* the threading.Event shared by the pool
  fetch,      \* fetch[c]: the CalendarSyncWorker of calendar c
  queue,      \* the bounded queue
  pills,      \* poison pills stop() has still to put
  worker,     \* worker[w]: the task a pool thread is at
  errors,     \* some CalendarProgress has error_count > 0
  result,     \* the status of the last job
  submitted,  \* history: the tasks this job has put on the queue, without
              \* those whose ban could not be looked up
  merged,     \* history: ids persisted as a duplicate of another row
  lossy,      \* history: a task was dropped or failed, or a process died
  hidden      \* hidden[c]: history: cancellations a full fetch did not report

upVars   == <<upstream, clock>>
histVars == <<submitted, merged, lossy, hidden>>
vars == <<upVars, token, row, job, abortReq, abortEvent, fetch, queue, pills,
          worker, errors, result, histVars>>

Content == [hash : Hashes, end : Ends]
Poison  == [kind |-> "poison"]
NoFetch == [pc |-> "off", token |-> NoToken, todo |-> {}, dels |-> {},
            next |-> NoToken]
IdleWorker == [pc |-> "idle"]

NoCopy == [state |-> "none", at |-> 0]
NoRow  == [present |-> FALSE, gone |-> FALSE, sources |-> {}]

Init ==
  /\ upstream = [c \in Calendars |-> [e \in Events |-> NoCopy]]
  /\ clock = [c \in Calendars |-> 0]
  /\ token = [c \in Calendars |-> NoToken]
  /\ row = [e \in Events |-> NoRow]
  /\ job = "idle"
  /\ abortReq = FALSE
  /\ abortEvent = FALSE
  /\ fetch = [c \in Calendars |-> NoFetch]
  /\ queue = <<>>
  /\ pills = 0
  /\ worker = [w \in Workers |-> IdleWorker]
  /\ errors = FALSE
  /\ result = "none"
  /\ submitted = {}
  /\ merged = {}
  /\ lossy = FALSE
  /\ hidden = [c \in Calendars |-> {}]

-----------------------------------------------------------------------------
(* Google (external): an organizer adds, edits, cancels or restores an     *)
(* event.                                                                  *)
UpstreamChange(c, e, copy) ==
  /\ clock[c] < MaxChanges
  /\ clock' = [clock EXCEPT ![c] = @ + 1]
  /\ upstream' = [upstream EXCEPT ![c][e] = copy]
  /\ hidden' = [hidden EXCEPT ![c] = @ \ {e}]
  /\ UNCHANGED <<token, row, job, abortReq, abortEvent, fetch, queue, pills,
                 worker, errors, result, submitted, merged, lossy>>

Edit(c, e) ==
  \E x \in Content :
    /\ upstream[c][e].state = "live" => x # upstream[c][e].content
    /\ UpstreamChange(c, e, [state |-> "live", at |-> clock[c] + 1,
                             content |-> x])

Cancel(c, e) ==
  /\ upstream[c][e].state = "live"
  /\ UpstreamChange(c, e, [upstream[c][e] EXCEPT !.state = "cancelled",
                                                 !.at = clock[c] + 1])

(* Google's answer to get_events: with a token, what changed since, the    *)
(* cancelled events among it; without one, the live events only.           *)
Changed(c, t) == {e \in Carries[c] : upstream[c][e].at > t}
Live(c)       == {e \in Carries[c] : upstream[c][e].state = "live"}
NextTokens(c) == {clock[c]} \cup (IF "notoken" \in Faults THEN {NoToken}
                                  ELSE {})

-----------------------------------------------------------------------------
(* A job starts: a reseed clears every token, the tokens are read, the     *)
(* pool and one fetch thread per calendar are started.                     *)
StartSync(mode) ==
  /\ job = "idle"
  /\ token' = IF mode = "reseed" THEN [c \in Calendars |-> NoToken] ELSE token
  /\ fetch' = [c \in Calendars |->
                [NoFetch EXCEPT !.pc = "fetching", !.token = token'[c]]]
  /\ job' = "fetching"
  /\ abortReq' = FALSE
  /\ abortEvent' = FALSE
  /\ worker' = [w \in Workers |-> IdleWorker]
  /\ errors' = FALSE
  /\ result' = "none"
  /\ submitted' = {}
  /\ UNCHANGED <<upVars, row, queue, pills, merged, lossy, hidden>>

(* abort_job, seen by should_abort.                                        *)
RequestAbort ==
  /\ "abort" \in Faults
  /\ job # "idle"
  /\ ~abortReq
  /\ abortReq' = TRUE
  /\ UNCHANGED <<upVars, token, row, job, abortEvent, fetch, queue, pills,
                 worker, errors, result, histVars>>

-----------------------------------------------------------------------------
(* CalendarSyncWorker.run.                                                 *)

Fetched(c, es, ds, next) ==
  fetch' = [fetch EXCEPT ![c] =
             [pc |-> "submitting", token |-> @.token,
              todo |-> {[cal |-> c, id |-> e,
                         content |-> upstream[c][e].content] : e \in es},
              dels |-> ds, next |-> next]]

FetchIncremental(c) ==
  /\ fetch[c].pc = "fetching"
  /\ fetch[c].token # NoToken
  /\ LET changed == Changed(c, fetch[c].token)
     IN  Fetched(c, changed \cap Live(c), changed \ Live(c), clock[c])
  /\ UNCHANGED <<upVars, token, row, job, abortReq, abortEvent, queue, pills,
                 worker, errors, result, histVars>>

(* _fetch_with_410_fallback: an answer without a token means that the      *)
(* token has expired.  The stored one is cleared before the full fetch.    *)
ExpireToken(c) ==
  /\ Faults \cap {"expiry", "notoken"} # {}
  /\ fetch[c].pc = "fetching"
  /\ fetch[c].token # NoToken
  /\ token' = [token EXCEPT ![c] = NoToken]
  /\ fetch' = [fetch EXCEPT ![c].token = NoToken]
  /\ UNCHANGED <<upVars, row, job, abortReq, abortEvent, queue, pills, worker,
                 errors, result, histVars>>

FetchFull(c) ==
  /\ fetch[c].pc = "fetching"
  /\ fetch[c].token = NoToken
  /\ \E next \in NextTokens(c) : Fetched(c, Live(c), {}, next)
  /\ hidden' = [hidden EXCEPT ![c] =
                  {e \in Carries[c] : upstream[c][e].state = "cancelled"}]
  /\ UNCHANGED <<upVars, token, row, job, abortReq, abortEvent, queue, pills,
                 worker, errors, result, submitted, merged, lossy>>

(* EventPipelineProcessor.submit blocks while the queue is full.           *)
Submit(c) ==
  /\ fetch[c].pc = "submitting"
  /\ Len(queue) < MaxQueue
  /\ \E task \in fetch[c].todo :
       /\ queue' = Append(queue, task)
       /\ submitted' = submitted \cup {task}
       /\ fetch' = [fetch EXCEPT ![c].todo = @ \ {task}]
  /\ UNCHANGED <<upVars, token, row, job, abortReq, abortEvent, pills, worker,
                 errors, result, merged, lossy, hidden>>

(* _reconcile_deletes: one transaction.  An event people can see waits for *)
(* an admin, any other is removed at once; "gone" stands for both.         *)
Reconcile(c) ==
  /\ fetch[c].pc = "submitting"
  /\ fetch[c].todo = {}
  /\ row' = [e \in Events |->
              IF e \in fetch[c].dels /\ row[e].present
              THEN [row[e] EXCEPT !.gone = TRUE] ELSE row[e]]
  /\ fetch' = [fetch EXCEPT ![c].pc = "reconciled"]
  /\ UNCHANGED <<upVars, token, job, abortReq, abortEvent, queue, pills,
                 worker, errors, result, histVars>>

(* Mutant: the token is saved without waiting for the deletions.           *)
SaveTokenFirst(c) ==
  /\ fetch[c].pc \in {"submitting", "reconciled"}
  /\ fetch[c].todo = {}
  /\ token' = IF fetch[c].next = NoToken THEN token
              ELSE [token EXCEPT ![c] = fetch[c].next]
  /\ fetch' = [fetch EXCEPT ![c].pc = "processing"]
  /\ UNCHANGED <<upVars, row, job, abortReq, abortEvent, queue, pills, worker,
                 errors, result, histVars>>

(* _save_sync_token, when Google gave one.                                 *)
SaveToken(c) ==
  /\ fetch[c].pc = "reconciled"
  /\ token' = IF fetch[c].next = NoToken THEN token
              ELSE [token EXCEPT ![c] = fetch[c].next]
  /\ fetch' = [fetch EXCEPT ![c].pc = "processing"]
  /\ UNCHANGED <<upVars, row, job, abortReq, abortEvent, queue, pills, worker,
                 errors, result, histVars>>

(* Any exception ends the calendar as failed, its token not saved.         *)
FetchFails(c) ==
  /\ \/ fetch[c].pc = "fetching" /\ "api" \in Faults
     \/ fetch[c].pc \in {"submitting", "reconciled"} /\ fetch[c].todo = {}
        /\ "db" \in Faults
  /\ fetch' = [fetch EXCEPT ![c].pc = "failed"]
  /\ UNCHANGED <<upVars, token, row, job, abortReq, abortEvent, queue, pills,
                 worker, errors, result, histVars>>

(* Mutant: one pill short.                                                 *)
BeginStopShort ==
  /\ job = "fetching"
  /\ \A c \in Calendars : fetch[c].pc \in {"processing", "failed"}
  /\ abortEvent' = abortReq
  /\ job' = "stopping"
  /\ pills' = Cardinality(Workers) - 1
  /\ UNCHANGED <<upVars, token, row, abortReq, fetch, queue, worker, errors,
                 result, histVars>>

(* All fetches have ended: the abort request is looked at, once, and       *)
(* processor.stop() begins.                                                *)
BeginStop ==
  /\ job = "fetching"
  /\ \A c \in Calendars : fetch[c].pc \in {"processing", "failed"}
  /\ abortEvent' = abortReq
  /\ job' = "stopping"
  /\ pills' = Cardinality(Workers)
  /\ UNCHANGED <<upVars, token, row, abortReq, fetch, queue, worker, errors,
                 result, histVars>>

PutPill ==
  /\ pills > 0
  /\ Len(queue) < MaxQueue
  /\ queue' = Append(queue, Poison)
  /\ pills' = pills - 1
  /\ UNCHANGED <<upVars, token, row, job, abortReq, abortEvent, fetch, worker,
                 errors, result, histVars>>

-----------------------------------------------------------------------------
(* EventPipelineProcessor._worker and _process_one.                        *)

(* The next item: a pill ends the thread, an abort drops the task, and a   *)
(* banned event is skipped.                                                *)
Get(w) ==
  /\ worker[w].pc = "idle"
  /\ job # "idle"
  /\ queue # <<>>
  /\ queue' = Tail(queue)
  /\ LET item == Head(queue)
         drop == item # Poison /\ abortEvent
     IN  /\ worker' = [worker EXCEPT ![w] =
              IF item = Poison THEN [pc |-> "exited"]
              ELSE IF drop \/ item.id \in Blocked THEN IdleWorker
              ELSE [pc |-> "taken", task |-> item]]
         /\ lossy' = (lossy \/ drop)
  /\ UNCHANGED <<upVars, token, row, job, abortReq, abortEvent, fetch, pills,
                 errors, result, submitted, merged,
                 hidden>>

(* The enrichment stages run on a transient buffer.                        *)
Enrich(w) ==
  /\ worker[w].pc = "taken"
  /\ worker' = [worker EXCEPT ![w] = [@ EXCEPT !.pc = "enriched"]]
  /\ UNCHANGED <<upVars, token, row, job, abortReq, abortEvent, fetch, queue,
                 pills, errors, result, histVars>>

(* The except clause of _worker only logs.                                 *)
PrecheckFails(w) ==
  /\ "precheck" \in Faults
  /\ worker[w].pc = "taken"
  /\ worker' = [worker EXCEPT ![w] = IdleWorker]
  /\ submitted' = submitted \ {worker[w].task}
  /\ lossy' = TRUE
  /\ UNCHANGED <<upVars, token, row, job, abortReq, abortEvent, fetch, queue,
                 pills, errors, result, merged, hidden>>

(* Mutant: a failed event is logged but not counted.                       *)
TaskFailsQuietly(w) ==
  /\ worker' = [worker EXCEPT ![w] = IdleWorker]
  /\ lossy' = TRUE
  /\ UNCHANGED <<upVars, token, row, job, abortReq, abortEvent, fetch, queue,
                 pills, errors, result, submitted, merged,
                 hidden>>

(* inc_enriched_failed, and the event is given up.                         *)
TaskFails(w) ==
  /\ worker' = [worker EXCEPT ![w] = IdleWorker]
  /\ errors' = TRUE
  /\ lossy' = TRUE
  /\ UNCHANGED <<upVars, token, row, job, abortReq, abortEvent, fetch, queue,
                 pills, result, submitted, merged,
                 hidden>>

EnrichFails(w) ==
  /\ "enrich" \in Faults
  /\ worker[w].pc = "taken"
  /\ TaskFails(w)

(* "Abort gate before touching the DB".                                    *)
AbortGate(w) ==
  /\ worker[w].pc = "enriched"
  /\ abortEvent
  /\ worker' = [worker EXCEPT ![w] = IdleWorker]
  /\ lossy' = TRUE
  /\ UNCHANGED <<upVars, token, row, job, abortReq, abortEvent, fetch, queue,
                 pills, errors, result, submitted, merged,
                 hidden>>

(* The rows an unknown id counts as a duplicate of.                        *)
Canonical(hash) ==
  {e \in Events : row[e].present /\ ~row[e].gone /\ row[e].content.hash = hash}

(* _persist_with_dedup, its reads.  What it decides is written when the    *)
(* transaction commits, and other workers commit in between.  A known id   *)
(* with the same hash counts as unchanged, unless its coordinates or links *)
(* were missing or its extractor is out of date.                           *)
Decision(task) ==
  LET known == row[task.id]
  IN  IF known.present
      THEN {[action |-> a, target |-> task.id,
             linked |-> task.cal \in known.sources]
             : a \in IF known.content.hash = task.content.hash
                     THEN {"unchanged", "updated"} ELSE {"updated"}}
      ELSE IF Canonical(task.content.hash) # {}
      THEN {[action |-> "deduped", target |-> e,
             linked |-> task.cal \in row[e].sources]
             : e \in Canonical(task.content.hash)}
      ELSE {[action |-> "new", target |-> task.id, linked |-> FALSE]}

Decide(w) ==
  /\ worker[w].pc = "enriched"
  /\ ~abortEvent
  /\ \E d \in Decision(worker[w].task) :
       worker' = [worker EXCEPT ![w] =
                   [pc |-> "decided", task |-> @.task, plan |-> d]]
  /\ UNCHANGED <<upVars, token, row, job, abortReq, abortEvent, fetch, queue,
                 pills, errors, result, histVars>>

(* The commit breaks a key if another worker has inserted the row or the   *)
(* source link since; merging default tags into the canonical row raises   *)
(* (_upsert_event_tag names a Tag the module does not import).             *)
Conflict(w) ==
  LET t == worker[w].task
      d == worker[w].plan
  IN  \/ d.action = "new" /\ row[t.id].present
      \/ ~d.linked /\ t.cal \in row[d.target].sources
      \/ d.action = "deduped" /\ t.cal \in Tagged

Persist(w) ==
  LET t == worker[w].task
      d == worker[w].plan
      linked(r) == [r EXCEPT !.sources = @ \cup {t.cal}]
      written == [present |-> TRUE, content |-> t.content, gone |-> FALSE,
                  sources |-> row[t.id].sources \cup {t.cal}]
  IN  /\ worker[w].pc = "decided"
      /\ ~Conflict(w)
      /\ row' = [row EXCEPT ![d.target] =
                  IF d.action \in {"new", "updated"} THEN written
                  ELSE linked(@)]
      /\ merged' = IF d.action = "deduped" THEN merged \cup {t.id}
                   ELSE merged \ {t.id}
      /\ worker' = [worker EXCEPT ![w] = IdleWorker]
      /\ UNCHANGED <<upVars, token, job, abortReq, abortEvent, fetch, queue,
                     pills, errors, result, submitted, lossy,
                     hidden>>

PersistFails(w) ==
  /\ worker[w].pc = "decided"
  /\ Conflict(w) \/ "db" \in Faults
  /\ TaskFails(w)

-----------------------------------------------------------------------------
(* stop() returns when the queue is joined and the pool has shut down; the *)
(* totals decide the status.  Events without coordinates count as warnings.*)
Finish ==
  /\ job = "stopping"
  /\ pills = 0
  /\ queue = <<>>
  /\ \A w \in Workers : worker[w].pc = "exited"
  /\ job' = "idle"
  /\ result' \in IF abortEvent THEN {"aborted"}
                 ELSE IF errors \/ \E c \in Calendars : fetch[c].pc = "failed"
                 THEN {"warning"} ELSE {"completed", "warning"}
  /\ fetch' = [c \in Calendars |-> NoFetch]
  /\ UNCHANGED <<upVars, token, row, abortReq, abortEvent, queue, pills,
                 worker, errors, histVars>>

(* The process dies (external); the database is what is left.              *)
Crash ==
  /\ "crash" \in Faults
  /\ job # "idle"
  /\ job' = "idle"
  /\ result' = "failed"
  /\ fetch' = [c \in Calendars |-> NoFetch]
  /\ queue' = <<>>
  /\ pills' = 0
  /\ worker' = [w \in Workers |-> IdleWorker]
  /\ lossy' = TRUE
  /\ UNCHANGED <<upVars, token, row, abortReq, abortEvent, errors, submitted, merged,
                 hidden>>

FetchStep(c) ==
  \/ FetchIncremental(c) \/ ExpireToken(c) \/ FetchFull(c) \/ Submit(c)
  \/ Reconcile(c) \/ SaveToken(c) \/ FetchFails(c)

PoolStep(w) ==
  \/ Get(w) \/ Enrich(w) \/ PrecheckFails(w) \/ EnrichFails(w)
  \/ AbortGate(w) \/ Decide(w) \/ Persist(w) \/ PersistFails(w)

Next ==
  \/ \E c \in Calendars : \E e \in Carries[c] : Edit(c, e) \/ Cancel(c, e)
  \/ \E mode \in Modes : StartSync(mode)
  \/ RequestAbort
  \/ \E c \in Calendars : FetchStep(c)
  \/ \E w \in Workers : PoolStep(w)
  \/ BeginStop \/ PutPill \/ Finish \/ Crash

Spec == Init /\ [][Next]_vars

-----------------------------------------------------------------------------
(* Properties.                                                             *)

Task == [cal : Calendars, id : Events, content : Content]
Tokens == 0..MaxChanges \cup {NoToken}

(* The state has the shape of the code's; the queue respects its bound.    *)
TypeOK ==
  /\ clock \in [Calendars -> 0..MaxChanges]
  /\ token \in [Calendars -> Tokens]
  /\ \A e \in Events :
       row[e] = NoRow \/ row[e] \in [present : {TRUE}, content : Content,
                                     gone : BOOLEAN,
                                     sources : SUBSET Calendars]
  /\ job \in {"idle", "fetching", "stopping"}
  /\ \A c \in Calendars :
       /\ fetch[c].todo \subseteq Task
       /\ fetch[c].token \in Tokens /\ fetch[c].next \in Tokens
  /\ Len(queue) <= MaxQueue
  /\ \A k \in 1..Len(queue) : queue[k] = Poison \/ queue[k] \in Task
  /\ pills \in 0..Cardinality(Workers)
  /\ result \in {"none", "completed", "warning", "aborted", "failed"}
  /\ submitted \subseteq Task /\ merged \subseteq Events
  /\ hidden \in [Calendars -> SUBSET Events]

(* A job that reports "completed" has stored every event it fetched: as a  *)
(* row of its own with content fetched for it, merged into a duplicate, or *)
(* skipped because it is banned.  Losses may only hide behind "warning",   *)
(* "aborted" or "failed"; the one exception is an event whose ban could    *)
(* not be looked up, which is logged and counted nowhere.                  *)
CompletedMeansPersisted ==
  job = "idle" /\ result = "completed" =>
    \A t \in submitted :
      \/ t.id \in Blocked \cup merged
      \/ /\ row[t.id].present
         /\ \E u \in submitted : /\ u.id = t.id
                                 /\ u.content.hash = row[t.id].content.hash

Exclusive == \A c, d \in Calendars : c # d => Carries[c] \cap Carries[d] = {}

(* Between jobs a saved sync token tells the truth: unless some task was   *)
(* lost, every live event Google will not report again is in the database  *)
(* as it is at Google.  Failing fetches, expired and missing tokens,       *)
(* reseeds and a bounded queue never make it lie.                          *)
CheckpointMirrored ==
  Exclusive /\ job = "idle" /\ ~lossy =>
    \A c \in Calendars : \A e \in Carries[c] \ (Blocked \cup merged) :
      /\ token[c] # NoToken
      /\ upstream[c][e].state = "live"
      /\ upstream[c][e].at <= token[c]
      => /\ row[e].present
         /\ row[e].content.hash = upstream[c][e].content.hash

(* The same is true of cancellations, except the ones a full fetch hid by *)
(* reporting live events only: whatever fails, what Google will not report *)
(* again is removed here, or was never reported at all.                    *)
DeletionsMirrored ==
  Exclusive /\ job = "idle" /\ ~lossy =>
    \A c \in Calendars : \A e \in Carries[c] \ hidden[c] :
      /\ token[c] # NoToken
      /\ upstream[c][e].state = "cancelled"
      /\ upstream[c][e].at <= token[c]
      => (row[e].present => row[e].gone)

(* Nothing a saved token lets Google skip is missing here, live events and  *)
(* cancellations alike (_save_sync_token after the calendar's last task).   *)
Mirrored == TypeOK /\ CheckpointMirrored /\ DeletionsMirrored

(* Every thread keeps running; upstream edits and aborts are free.         *)
Fairness ==
  /\ \A c \in Calendars : WF_vars(FetchStep(c))
  /\ \A w \in Workers : WF_vars(PoolStep(w))
  /\ WF_vars(BeginStop) /\ WF_vars(PutPill) /\ WF_vars(Finish)

FairSpec == Spec /\ Fairness

(* Every job ends: the pills get past the bounded queue, and each worker   *)
(* takes exactly one, whatever fails or is aborted.                        *)
JobTerminates == job # "idle" ~> job = "idle"

=============================================================================
