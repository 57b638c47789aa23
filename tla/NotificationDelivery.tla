------------------------ MODULE NotificationDelivery ------------------------
(***************************************************************************)
(* Delivery of notification rows by post-request jobs and by the dispatch  *)
(* tick: the job handlers of push_jobs, event_message_instant,             *)
(* event_revisions, promo_codes, suggestions and schedules, the fan-out    *)
(* sweep and the activity pass of scheduler.run_notification_dispatch_once *)
(* composed with the queue of module JobQueue that runs the handlers.      *)
(*                                                                         *)
(* A handler is one database transaction: it claims rows with FOR UPDATE   *)
(* SKIP LOCKED, sends email and push row by row, and stamps what it sent   *)
(* in the one commit at its end.  Sending cannot be rolled back.           *)
(***************************************************************************)
EXTENDS JobQueue

CONSTANTS
  Rows,     \* Notification rows
  Mixes,    \* the assignments of kinds to rows that are looked at
  KeyOf,    \* KeyOf[r]: the job that delivers r
  Batches,  \* the sets of rows committed together, each with one key
  Email,    \* rows whose recipient keeps this kind's email on
  Push,     \* rows whose recipient keeps this kind's push on
  Ticks,    \* processes running the dispatch loop
  Faults,   \* which of FaultKinds this environment exhibits
  MaxSpoiled \* lost transactions per row (a bound)

FaultKinds ==
  { "crash",     \* the process dies
    "stop",      \* the process is shut down in order
    "error",     \* a handler's transaction fails (lost connection, raised send)
    "lock",      \* the dispatch lock cannot be taken: the tick goes ahead
    "age",       \* the row outlives the sweep's window
    "withdraw" } \* the job's subject is withdrawn before it is delivered

FanoutKinds == {"change", "removed", "publication", "promo", "decision"}
FastKinds   == {"message", "activity"}

ASSUME DeliveryAssumption ==
  /\ Mixes \subseteq [Rows -> FanoutKinds \cup FastKinds]
  /\ KeyOf \in [Rows -> Keys]
  /\ \A b \in Batches : b \subseteq Rows /\ b # {}
  /\ Email \subseteq Rows /\ Push \subseteq Rows
  /\ Ticks \cap TaskIds = {}
  /\ Faults \subseteq FaultKinds
  /\ MaxSpoiled \in Nat

VARIABLES
  kind,      \* kind[r]: the row's kind, fixed by the request that writes it
  made,      \* rows committed
  emailed,   \* rows with emailed_at (instant_emailed_at for messages)
  pushed,    \* rows with pushed_at
  stale,     \* rows older than the window the sweep looks at
  withdrawn, \* keys whose promo code, decision or event no longer stands
  run,       \* run[w]: the handler transaction runner w is in
  sweep,     \* sweep[w]: what tick w has yet to run; NoKey is the activity pass
  locker,    \* the tick holding the dispatch advisory lock, or NoKey
  emails,    \* emails[r]: emails sent for r (history)
  pushes,    \* pushes[r]: pushes sent for r (history)
  spoiled    \* spoiled[r]: transactions lost after handling r (history)

dbVars   == <<kind, made, emailed, pushed, stale, withdrawn>>
tickVars == <<sweep, locker>>
sentVars == <<emails, pushes>>
vars == <<queueVars, dbVars, run, tickVars, sentVars, spoiled>>

Runners == TaskIds \cup Ticks

Passes == {"fanout", "rich", "generic"}

Idle == [pc |-> "idle", pass |-> "fanout", todo |-> {}, done |-> {},
         mailed |-> {}, stamped |-> {}, transient |-> FALSE]

TypeOK ==
  /\ QueueTypeOK
  /\ kind \in [Rows -> FanoutKinds \cup FastKinds]
  /\ made \subseteq Rows /\ emailed \subseteq made /\ pushed \subseteq made
  /\ stale \subseteq Rows
  /\ withdrawn \subseteq Keys
  /\ run \in [Runners -> [pc : {"idle", "due", "open", "over"},
                          pass : Passes, todo : SUBSET made,
                          done : SUBSET made, mailed : SUBSET made,
                          stamped : SUBSET made, transient : BOOLEAN]]
  /\ sweep \in [Ticks -> SUBSET (Keys \cup {NoKey})]
  /\ locker \in Ticks \cup {NoKey}
  /\ \A r \in Rows : emails[r] \in Nat /\ pushes[r] \in Nat /\ spoiled[r] \in Nat

Init ==
  /\ QueueInit
  /\ kind \in Mixes
  /\ made = {} /\ emailed = {} /\ pushed = {} /\ stale = {}
  /\ withdrawn = {}
  /\ run = [w \in Runners |-> Idle]
  /\ sweep = [w \in Ticks |-> {}]
  /\ locker = NoKey
  /\ emails = [r \in Rows |-> 0]
  /\ pushes = [r \in Rows |-> 0]
  /\ spoiled = [r \in Rows |-> 0]

-----------------------------------------------------------------------------
(* A request commits its rows and enqueues their job: the commit hook of
   push_jobs for the fast kinds, the route itself for the others. *)
Create(b) ==
  /\ b \cap made = {}
  /\ made' = made \cup b
  /\ Enqueue(KeyOf[CHOOSE r \in b : TRUE])
  /\ UNCHANGED <<kind, emailed, pushed, stale, withdrawn, run, tickVars, sentVars, spoiled>>

(* A code is unapproved, a decision reversed or an event deleted: only the
   handlers of these kinds look. *)
Withdraw(k) ==
  /\ "withdraw" \in Faults
  /\ \E r \in Rows : KeyOf[r] = k /\ kind[r] \in {"publication", "promo", "decision"}
  /\ withdrawn' = withdrawn \cup {k}
  /\ UNCHANGED <<queueVars, kind, made, emailed, pushed, stale, run, tickVars, sentVars, spoiled>>

Age(r) ==
  /\ "age" \in Faults
  /\ r \in made
  /\ stale' = stale \cup {r}
  /\ UNCHANGED <<queueVars, kind, made, emailed, pushed, withdrawn, run, tickVars, sentVars, spoiled>>

-----------------------------------------------------------------------------
(* The handlers.                                                            *)

Locked(r) == \E w \in Runners : r \in run[w].todo \cup run[w].done

(* What each handler does with a row it meets: whether its SELECT picks the
   row, which channels it sends, whether a channel it did not send is stamped
   all the same, and whether a transient push failure is retried. *)
Once(picks) ==
  [picks |-> picks, email |-> TRUE, push |-> TRUE, consume |-> FALSE, retry |-> FALSE]

Missing(r) == r \notin emailed \/ r \notin pushed

DeliverChange(r) == Once(Missing(r))

(* Picks every row of the event, and looks at the stamps one by one. *)
DeliverRemoved(r) == Once(TRUE)

DeliverPublication(r) == Once(KeyOf[r] \notin withdrawn /\ Missing(r))

DeliverPromo(r) == Once(KeyOf[r] \notin withdrawn /\ Missing(r))

DeliverDecision(r) ==
  [Once(KeyOf[r] \notin withdrawn /\ r \notin emailed) EXCEPT !.push = FALSE]

(* event_message_instant: the rich pass of a deliver job. *)
DeliverMessage(r) == [Once(r \notin stale /\ Missing(r)) EXCEPT !.retry = TRUE]

(* activity_email.run_once for a feature without a digest: whatever it
   considered is stamped, except a push that failed transiently. *)
DeliverActivity(r) ==
  [Once(r \notin stale /\ (IF kind[r] = "message" THEN Missing(r) ELSE r \notin pushed))
     EXCEPT !.email = kind[r] = "message", !.consume = TRUE, !.retry = TRUE]

Handler(r, pass) ==
  CASE pass = "generic"        -> DeliverActivity(r)
    [] kind[r] = "message"     -> DeliverMessage(r)
    [] kind[r] = "change"      -> DeliverChange(r)
    [] kind[r] = "removed"     -> DeliverRemoved(r)
    [] kind[r] = "publication" -> DeliverPublication(r)
    [] kind[r] = "promo"       -> DeliverPromo(r)
    [] kind[r] = "decision"    -> DeliverDecision(r)

KindsOf(pass) ==
  CASE pass = "fanout"  -> FanoutKinds
    [] pass = "rich"    -> {"message"}
    [] pass = "generic" -> FastKinds

(* Rows the job of k, or for NoKey the tick's activity pass over every
   recipient, selects in a pass. *)
Selected(k, pass) ==
  { r \in made : /\ k \in {KeyOf[r], NoKey}
                 /\ kind[r] \in KindsOf(pass)
                 /\ Handler(r, pass).picks }

(* Mutant: a plain SELECT. *)
OpenedUnlocked(k, pass) ==
  [Idle EXCEPT !.pc = "open", !.pass = pass, !.todo = Selected(k, pass)]

(* The SELECT ... FOR UPDATE SKIP LOCKED that opens the transaction. *)
Opened(k, pass) ==
  [Idle EXCEPT !.pc = "open", !.pass = pass,
               !.todo = {r \in Selected(k, pass) : ~Locked(r)}]

(* The transaction once row r was handled: e tells whether it was emailed and
   p what the push sender answered. *)
Handled(w, r, e, p) ==
  LET h == Handler(r, run[w].pass)
  IN  [run[w] EXCEPT !.todo = @ \ {r}, !.done = @ \cup {r},
                     !.mailed = IF e \/ (h.consume /\ h.email)
                                THEN @ \cup {r} ELSE @,
                     !.stamped = IF p = "ok" \/ (h.consume /\ p = "none")
                                 THEN @ \cup {r} ELSE @,
                     !.transient = @ \/ (p = "transient" /\ h.retry)]

(* One row of the loop: an email, then a push, each sent when it is wanted
   and not stamped yet.  e and p are what the senders answer. *)
Send(w, r, e, p) ==
  LET h == Handler(r, run[w].pass)
  IN  /\ run[w].pc = "open"
      /\ r \in run[w].todo
      /\ e => h.email /\ r \in Email /\ r \notin emailed
      /\ p # "none" => h.push /\ r \in Push /\ r \notin pushed
      /\ emails' = [emails EXCEPT ![r] = IF e THEN @ + 1 ELSE @]
      /\ pushes' = [pushes EXCEPT ![r] = IF p = "ok" THEN @ + 1 ELSE @]
      /\ run' = [run EXCEPT ![w] = Handled(w, r, e, p)]
      /\ UNCHANGED <<queueVars, dbVars, tickVars, spoiled>>

(* session.commit(): the stamps become visible and the rows unlocked. *)
CommitRun(w) ==
  /\ run[w].pc = "open"
  /\ run[w].todo = {}
  /\ emailed' = emailed \cup run[w].mailed
  /\ pushed' = pushed \cup run[w].stamped
  /\ run' = [run EXCEPT ![w] = [Idle EXCEPT !.pc = "over", !.pass = run[w].pass,
                                            !.transient = run[w].transient]]
  /\ UNCHANGED <<queueVars, kind, made, stale, withdrawn, tickVars, sentVars, spoiled>>

Spoil(W) ==
  [r \in Rows |-> spoiled[r] + Cardinality({w \in W : r \in run[w].done})]

Spoilable(W) == \A r \in Rows : Spoil(W)[r] <= MaxSpoiled

(* The handler raises before its commit: everything it wrote is undone. *)
AbortRun(w) ==
  /\ "error" \in Faults
  /\ run[w].pc = "open"
  /\ Spoilable({w})
  /\ run' = [run EXCEPT ![w] = [Idle EXCEPT !.pc = "over"]]
  /\ spoiled' = Spoil({w})
  /\ UNCHANGED <<queueVars, dbVars, tickVars, sentVars>>

-----------------------------------------------------------------------------
(* Jobs.                                                                    *)

(* A deliver job starts with the event messages; a fan-out job has one pass. *)
FirstPass(k) ==
  IF \E r \in Rows : KeyOf[r] = k /\ kind[r] \in FastKinds THEN "rich" ELSE "fanout"

BeginJob(t) ==
  /\ Begin(t)
  /\ run' = [run EXCEPT ![t] = [Idle EXCEPT !.pc = "due", !.pass = FirstPass(task[t].key)]]
  /\ UNCHANGED <<dbVars, tickVars, sentVars, spoiled>>

ClaimJob(t) ==
  /\ run[t].pc = "due"
  /\ run' = [run EXCEPT ![t] = Opened(task[t].key, run[t].pass)]
  /\ UNCHANGED <<queueVars, dbVars, tickVars, sentVars, spoiled>>

(* push_jobs.deliver_for_recipient goes on to the generic pass only when no
   message push is left to retry. *)
NextPass(t) ==
  /\ run[t].pc = "over"
  /\ run[t].pass = "rich"
  /\ ~run[t].transient
  /\ run' = [run EXCEPT ![t] = [Idle EXCEPT !.pc = "due", !.pass = "generic"]]
  /\ UNCHANGED <<queueVars, dbVars, tickVars, sentVars, spoiled>>

(* A transient push failure is raised as RetryLater once committed. *)
EndJob(t) ==
  /\ run[t].pc = "over"
  /\ run[t].pass = "rich" => run[t].transient
  /\ IF run[t].transient /\ task[t].pc = "running" /\ task[t].attempt < MaxAttempts
     THEN Retry(t)
     ELSE End(t)
  /\ run' = [run EXCEPT ![t] = Idle]
  /\ UNCHANGED <<dbVars, tickVars, sentVars, spoiled>>

-----------------------------------------------------------------------------
(* The dispatch tick.                                                       *)

(* Mutant: a row counts as delivered once one of its channels is. *)
SweptUntouched(r) ==
  /\ r \in made
  /\ r \notin stale
  /\ r \notin emailed /\ r \notin pushed

(* sweep_fanout_jobs: which rows it still counts as undelivered. *)
Swept(r) ==
  /\ r \in made
  /\ r \notin stale
  /\ \/ kind[r] \in {"change", "decision"} /\ r \notin emailed
     \/ kind[r] \in {"publication", "promo"} /\ (r \notin emailed \/ r \notin pushed)

SweepJobs == {KeyOf[r] : r \in {q \in Rows : Swept(q)}}

(* A tick that finds the lock held skips; one that cannot ask for it goes
   ahead without. *)
TickBegin(w) ==
  /\ run[w].pc = "idle"
  /\ sweep[w] = {}
  /\ \/ locker = NoKey /\ locker' = w
     \/ "lock" \in Faults /\ UNCHANGED locker
  /\ sweep' = [sweep EXCEPT ![w] = SweepJobs \cup {NoKey}]
  /\ UNCHANGED <<queueVars, dbVars, run, sentVars, spoiled>>

(* The sweep runs each job's handler in turn, then activity_email.run_once
   runs over every recipient. *)
TickRun(w, k) ==
  /\ run[w].pc = "idle"
  /\ k \in sweep[w]
  /\ k = NoKey => sweep[w] = {NoKey}
  /\ sweep' = [sweep EXCEPT ![w] = @ \ {k}]
  /\ run' = [run EXCEPT ![w] = Opened(k, IF k = NoKey THEN "generic" ELSE "fanout")]
  /\ UNCHANGED <<queueVars, dbVars, locker, sentVars, spoiled>>

TickNext(w) ==
  /\ run[w].pc = "over"
  /\ run' = [run EXCEPT ![w] = Idle]
  /\ locker' = IF locker = w /\ sweep[w] = {} THEN NoKey ELSE locker
  /\ UNCHANGED <<queueVars, dbVars, sweep, sentVars, spoiled>>

-----------------------------------------------------------------------------
(* Losing a process: the open transactions roll back, and the session that
   held the dispatch lock is gone. *)
CrashQueue ==
  /\ "crash" \in Faults
  /\ up
  /\ Spoilable(TaskIds)
  /\ QueueCrash
  /\ run' = [w \in Runners |-> IF w \in TaskIds THEN Idle ELSE run[w]]
  /\ spoiled' = Spoil(TaskIds)
  /\ UNCHANGED <<dbVars, tickVars, sentVars>>

CrashTick(w) ==
  /\ "crash" \in Faults
  /\ run[w].pc # "idle" \/ sweep[w] # {}
  /\ Spoilable({w})
  /\ run' = [run EXCEPT ![w] = Idle]
  /\ sweep' = [sweep EXCEPT ![w] = {}]
  /\ locker' = IF locker = w THEN NoKey ELSE locker
  /\ spoiled' = Spoil({w})
  /\ UNCHANGED <<queueVars, dbVars, sentVars>>

StopQueue == "stop" \in Faults /\ Stop

QueueStep ==
  /\ \/ Start
     \/ StopQueue
     \/ \E k \in Keys : Coalesce(k)
     \/ \E k \in Keys, t \in TaskIds : Schedule(k, t)
     \/ \E t \in TaskIds : Wake(t)
  /\ UNCHANGED <<dbVars, run, tickVars, sentVars, spoiled>>

Answers == {"ok", "none", "transient"}

Next ==
  \/ QueueStep
  \/ \E b \in Batches : Create(b)
  \/ \E k \in Keys : Withdraw(k)
  \/ \E r \in Rows : Age(r)
  \/ \E w \in Runners, r \in Rows, e \in BOOLEAN, p \in Answers : Send(w, r, e, p)
  \/ \E w \in Runners : CommitRun(w) \/ AbortRun(w)
  \/ \E t \in TaskIds : BeginJob(t) \/ ClaimJob(t) \/ NextPass(t) \/ EndJob(t)
  \/ \E w \in Ticks : TickBegin(w) \/ TickNext(w) \/ CrashTick(w)
  \/ \E w \in Ticks, k \in Keys \cup {NoKey} : TickRun(w, k)
  \/ CrashQueue

Spec == Init /\ [][Next]_vars

(* Threads and ticks go on; a process that keeps coming back gets through a
   tick in the end, and a mail or push provider that is asked again and again
   answers well in the end. *)
Fairness ==
  /\ \A w \in Ticks :
       /\ WF_vars(TickBegin(w))
       /\ WF_vars(TickNext(w))
       /\ \A k \in Keys \cup {NoKey} : SF_vars(TickRun(w, k))
  /\ \A w \in Runners :
       /\ SF_vars(CommitRun(w))
       /\ WF_vars(\E r \in Rows, e \in BOOLEAN, p \in Answers : Send(w, r, e, p))
  /\ \A r \in Rows :
       /\ SF_vars(\E w \in Runners, p \in Answers : Send(w, r, TRUE, p))
       /\ SF_vars(\E w \in Runners, e \in BOOLEAN : Send(w, r, e, "ok"))

FairSpec == Spec /\ Fairness

-----------------------------------------------------------------------------
(* Where a row stands on either channel: stamped, handled by a transaction
   that has yet to commit, or due. *)
PhaseOf(r, stamps, handled) ==
  IF r \notin made THEN "none"
  ELSE IF r \in stamps THEN "done"
  ELSE IF \E w \in Runners : r \in handled[w] THEN "handled" ELSE "due"

MailPhase == [r \in Rows |-> PhaseOf(r, emailed, [w \in Runners |-> run[w].mailed])]
PushPhase == [r \in Rows |-> PhaseOf(r, pushed, [w \in Runners |-> run[w].stamped])]

Mails  == INSTANCE SendOnce WITH phase <- MailPhase, sent <- emails, lost <- spoiled
Pushes == INSTANCE SendOnce WITH phase <- PushPhase, sent <- pushes, lost <- spoiled

(* Whatever mix of jobs, retries and ticks handles a row, each of its channels
   does what SendOnce promises: one email and one push, of which only a
   transaction lost after sending can cost a second one, and nothing once the
   row is stamped (FOR UPDATE SKIP LOCKED, emailed_at, pushed_at). *)
DeliveredOnce == []TypeOK /\ Mails!OnceSpec /\ Pushes!OnceSpec

(* What the dispatch tick is there for: a job lost to a restart or given up
   only delays what the sweep covers. *)
SweptChannelsDone(r) ==
  CASE kind[r] \in {"change", "decision"}   -> r \in emailed
    [] kind[r] \in {"publication", "promo"} -> r \in emailed /\ r \in pushed
    [] kind[r] = "activity"                 -> r \in pushed
    [] kind[r] = "message"                  -> r \in emailed /\ r \in pushed
    [] OTHER                                -> TRUE

SweepDelivers ==
  \A r \in Email \cap Push :
    r \in made ~> SweptChannelsDone(r) \/ r \in stale \/ KeyOf[r] \in withdrawn
=============================================================================
