------------------------- MODULE SyncPipelineProofs -------------------------
(***************************************************************************)
(* What a sync may claim, for any calendars, events and workers, any       *)
(* queue and any faults: a job that reports "completed" stored everything  *)
(* it fetched, and a saved sync token hides nothing that is missing here.  *)
(***************************************************************************)
EXTENDS SyncPipeline, FiniteSetTheorems, TLAPS

Copies == {NoCopy} \cup
          [state : {"live", "cancelled"}, at : Nat, content : Content]
RowRecord == [present : {TRUE}, content : Content, gone : BOOLEAN,
              sources : SUBSET Calendars]
Plans == [action : {"new", "updated", "unchanged", "deduped"},
          target : Events, linked : BOOLEAN]
WorkerRecord ==
  [pc : {"idle", "exited"}] \cup
  [pc : {"taken", "enriched"}, task : Task] \cup
  [pc : {"decided"}, task : Task, plan : Plans]
FetchRecord ==
  [pc : {"off", "fetching", "submitting", "reconciled", "processing", "failed"},
   token : Tokens, todo : SUBSET Task, dels : SUBSET Events, next : Tokens]

Typed ==
  /\ upstream \in [Calendars -> [Events -> Copies]]
  /\ clock \in [Calendars -> 0..MaxChanges]
  /\ token \in [Calendars -> Tokens]
  /\ row \in [Events -> {NoRow} \cup RowRecord]
  /\ job \in {"idle", "fetching", "stopping"}
  /\ abortReq \in BOOLEAN /\ abortEvent \in BOOLEAN
  /\ fetch \in [Calendars -> FetchRecord]
  /\ queue \in Seq({Poison} \cup Task) /\ Len(queue) <= MaxQueue
  /\ pills \in 0..Cardinality(Workers)
  /\ worker \in [Workers -> WorkerRecord]
  /\ errors \in BOOLEAN
  /\ result \in {"none", "completed", "warning", "aborted", "failed"}
  /\ submitted \subseteq Task /\ merged \subseteq Events
  /\ lossy \in BOOLEAN
  /\ hidden \in [Calendars -> SUBSET Events]

\* A worker that has a task, and where a task can be between its submission
\* and its end.
Busy(w) == worker[w].pc \in {"taken", "enriched", "decided"}
InQueue(t) == \E k \in 1..Len(queue) : queue[k] = t
InPool(t) == \E w \in Workers : Busy(w) /\ worker[w].task = t
InHand(t) == InQueue(t) \/ InPool(t)

\* Tasks whose ban can still fail to be looked up.
Unchecked(t) ==
  InQueue(t) \/ \E w \in Workers : worker[w].pc = "taken" /\ worker[w].task = t

Same(t, u) == t.cal = u.cal /\ t.id = u.id

\* Where the job is and where its threads are go together.
JobPhases ==
  /\ job = "idle" => /\ queue = <<>> /\ pills = 0
                     /\ \A w \in Workers : ~Busy(w)
                     /\ \A c \in Calendars : fetch[c] = NoFetch
  /\ job = "stopping" =>
       \A c \in Calendars : fetch[c].pc \in {"processing", "failed"}
  /\ \A c \in Calendars : fetch[c].pc # "submitting" => fetch[c].todo = {}
  /\ abortEvent => abortReq

\* A calendar submits an event once in a job, so at any time a task is in one
\* place only.
SubmittedOnce ==
  /\ \A c \in Calendars : \A t \in fetch[c].todo :
       /\ t.cal = c /\ t.id \in Carries[c]
       /\ \A u \in fetch[c].todo : Same(t, u) => t = u
       /\ \A u \in submitted : ~Same(t, u)
  /\ \A c \in Calendars : fetch[c].pc = "fetching" =>
       \A u \in submitted : u.cal # c
  /\ \A t \in Task : InHand(t) => t \in submitted /\ t.id \in Carries[t.cal]

OnePlace ==
  /\ \A i, j \in 1..Len(queue) :
       i # j /\ queue[i] # Poison /\ queue[j] # Poison => ~Same(queue[i], queue[j])
  /\ \A w, v \in Workers :
       w # v /\ Busy(w) /\ Busy(v) => ~Same(worker[w].task, worker[v].task)
  /\ \A i \in 1..Len(queue), w \in Workers :
       queue[i] # Poison /\ Busy(w) => ~Same(queue[i], worker[w].task)

\* What a worker decided still fits the rows when it commits.
PlansFit ==
  \A w \in Workers : worker[w].pc = "decided" =>
    LET d == worker[w].plan IN
    /\ d.action # "deduped" => d.target = worker[w].task.id
    /\ d.action \in {"unchanged", "deduped"} => row[d.target].present

HandInv == JobPhases /\ SubmittedOnce /\ OnePlace /\ PlansFit

-----------------------------------------------------------------------------
\* The row of an event has the content of a task that is past its checks.
Kept(e) ==
  /\ row[e].present
  /\ \E u \in submitted : /\ u.id = e /\ ~Unchecked(u)
                          /\ u.content.hash = row[e].content.hash

\* Until the process dies every task is on its way, or banned, merged or
\* stored, or its loss was counted.
AccountInv ==
  /\ job # "idle" \/ result = "completed" =>
       \A t \in submitted :
         \/ InHand(t) \/ t.id \in Blocked \cup merged \/ Kept(t.id)
         \/ errors \/ abortEvent
  /\ \A w \in Workers :
       worker[w].pc = "decided" /\ worker[w].plan.action = "unchanged"
         => Kept(worker[w].task.id)
  /\ job = "idle" /\ result = "completed" => ~errors /\ ~abortEvent

-----------------------------------------------------------------------------
\* A token is never ahead of the calendar, and a fetch starts from the saved one.
TokensBehind ==
  \A c \in Calendars :
    /\ token[c] # NoToken => token[c] <= clock[c]
    /\ fetch[c].next # NoToken => fetch[c].next <= clock[c]
    /\ fetch[c].pc = "fetching" => fetch[c].token = token[c]
    /\ \A e \in Events : upstream[c][e].at <= clock[c]

\* A task on its way has Google's content, or Google has changed the event
\* since the fetch and will report it again.
Fresh(t) ==
  LET copy == upstream[t.cal][t.id] IN
  \/ copy.state = "live" /\ copy.content = t.content
  \/ /\ token[t.cal] # NoToken => copy.at > token[t.cal]
     /\ fetch[t.cal].next # NoToken => copy.at > fetch[t.cal].next

Pending(t) == InHand(t) \/ t \in fetch[t.cal].todo

TasksFresh == \A t \in Task : Pending(t) => Fresh(t)

Stored(c, e) ==
  row[e].present /\ row[e].content.hash = upstream[c][e].content.hash

OnItsWay(c, e) ==
  \E t \in Task : /\ Pending(t) /\ t.cal = c /\ t.id = e
                  /\ t.content.hash = upstream[c][e].content.hash

\* What Google will not report after tk is stored or on its way.
Covered(c, tk) ==
  \A e \in Carries[c] \ (Blocked \cup merged) :
    upstream[c][e].state = "live" /\ upstream[c][e].at <= tk
      => Stored(c, e) \/ OnItsWay(c, e)

LiveCovered ==
  Exclusive /\ ~lossy =>
    \A c \in Calendars :
      /\ token[c] # NoToken => Covered(c, token[c])
      /\ fetch[c].pc \in {"submitting", "reconciled"} /\ fetch[c].next # NoToken
           => Covered(c, fetch[c].next)

\* ... and what it has cancelled by then is gone, or in ds.
Removed(c, tk, ds) ==
  \A e \in Carries[c] \ hidden[c] :
    upstream[c][e].state = "cancelled" /\ upstream[c][e].at <= tk
      => (row[e].present => row[e].gone) \/ e \in ds

DeletionsCovered ==
  Exclusive =>
    \A c \in Calendars :
      /\ token[c] # NoToken => Removed(c, token[c], {})
      /\ fetch[c].next # NoToken =>
           /\ fetch[c].pc = "submitting" => Removed(c, fetch[c].next, fetch[c].dels)
           /\ fetch[c].pc = "reconciled" => Removed(c, fetch[c].next, {})

\* A row that counted as unchanged is not changed by anyone else.
UnchangedFits ==
  Exclusive =>
    \A w \in Workers :
      worker[w].pc = "decided" /\ worker[w].plan.action = "unchanged" =>
        LET t == worker[w].task IN
        row[t.id].present /\ row[t.id].content.hash = t.content.hash

MirrorInv == TokensBehind /\ TasksFresh /\ LiveCovered /\ DeletionsCovered /\ UnchangedFits

PipelineInv == HandInv /\ AccountInv /\ MirrorInv

\* A step after which the tasks of D, and no others, are out of hand.
Dropping(D) ==
  \A t \in Task : /\ InHand(t)' <=> InHand(t) /\ t \notin D
                  /\ Unchecked(t)' => Unchecked(t)

-----------------------------------------------------------------------------
(* Types *)

LEMMA TokenType == NoToken \in Tokens /\ 0..MaxChanges \subseteq Tokens /\ \A t \in Tokens : t # NoToken => t \in 0..MaxChanges
BY DEF Tokens

LEMMA RecordsTyped ==
  /\ NoFetch \in FetchRecord /\ IdleWorker \in WorkerRecord
  /\ [pc |-> "exited"] \in WorkerRecord
  /\ \A x \in FetchRecord : x.token \in Tokens /\ x.next \in Tokens
       /\ x.todo \in SUBSET Task /\ x.dels \in SUBSET Events
BY TokenType DEF NoFetch, FetchRecord, IdleWorker, WorkerRecord

LEMMA TaskIs ==
  \A t \in Task : t.cal \in Calendars /\ t.id \in Events /\ t.content \in Content /\ t # Poison
<1>1. ASSUME NEW t \in Task
      PROVE  t # Poison
  <2>1. "cal" \in DOMAIN t
    BY DEF Task
  <2>2. "cal" \notin DOMAIN Poison
    BY DEF Poison
  <2> QED
    BY <2>1, <2>2
<1> QED
  BY <1>1 DEF Task

LEMMA WorkerIs ==
  ASSUME Typed, NEW w \in Workers
  PROVE  /\ worker[w] \in WorkerRecord
         /\ worker[w].pc \in {"idle", "exited", "taken", "enriched", "decided"}
         /\ Busy(w) => worker[w].task \in Task
         /\ worker[w].pc = "decided" => worker[w].plan \in Plans
BY DEF Typed, WorkerRecord, Busy

LEMMA CopyIs ==
  ASSUME Typed, NEW c \in Calendars, NEW e \in Events
  PROVE  /\ upstream[c][e] \in Copies
         /\ upstream[c][e].at \in Nat
         /\ upstream[c][e].state \in {"none", "live", "cancelled"}
         /\ upstream[c][e].state # "none" => upstream[c][e].content \in Content
         /\ upstream[c][e].state = "none" => upstream[c][e].at = 0
<1>1. upstream[c][e] \in Copies
  BY DEF Typed
<1> QED
  BY <1>1 DEF Copies, NoCopy

LEMMA RowIs ==
  ASSUME Typed, NEW e \in Events
  PROVE  /\ row[e] \in {NoRow} \cup RowRecord
         /\ row[e].present \in BOOLEAN /\ row[e].sources \subseteq Calendars
         /\ row[e].present => row[e] \in RowRecord /\ row[e].content \in Content
<1>1. row[e] \in {NoRow} \cup RowRecord
  BY DEF Typed
<1>2. CASE row[e] = NoRow
  BY <1>2 DEF NoRow
<1>3. CASE row[e] \in RowRecord
  BY <1>3 DEF RowRecord
<1> QED
  BY <1>1, <1>2, <1>3

LEMMA CarriesIs ==
  \A c \in Calendars : Carries[c] \subseteq Events
BY PipelineAssumption

LEMMA QueueIs ==
  ASSUME Typed
  PROVE  /\ Len(queue) \in Nat
         /\ \A k \in 1..Len(queue) : queue[k] = Poison \/ queue[k] \in Task
         /\ queue # <<>> =>
              /\ Len(queue) > 0 /\ Head(queue) = queue[1]
              /\ Tail(queue) \in Seq({Poison} \cup Task)
              /\ Len(Tail(queue)) = Len(queue) - 1
              /\ \A k \in 1..Len(queue) - 1 : Tail(queue)[k] = queue[k + 1]
         /\ \A x \in {Poison} \cup Task :
              /\ Append(queue, x) \in Seq({Poison} \cup Task)
              /\ Len(Append(queue, x)) = Len(queue) + 1
              /\ \A k \in 1..Len(queue) : Append(queue, x)[k] = queue[k]
              /\ Append(queue, x)[Len(queue) + 1] = x
<1>1. queue \in Seq({Poison} \cup Task)
  BY DEF Typed
<1> QED
  BY <1>1

-----------------------------------------------------------------------------
LEMMA InitTyped == Init => Typed
<1> SUFFICES ASSUME Init PROVE Typed
  OBVIOUS
<1>1. NoCopy \in Copies /\ NoToken \in Tokens /\ NoRow \in {NoRow} \cup RowRecord
  BY TokenType DEF Copies
<1>2. upstream \in [Calendars -> [Events -> Copies]]
  BY <1>1 DEF Init
<1>3. clock \in [Calendars -> 0..MaxChanges] /\ token \in [Calendars -> Tokens]
  BY <1>1, PipelineAssumption DEF Init
<1>4. row \in [Events -> {NoRow} \cup RowRecord]
  BY <1>1 DEF Init
<1>5. fetch \in [Calendars -> FetchRecord] /\ worker \in [Workers -> WorkerRecord]
  BY RecordsTyped DEF Init
<1>6. queue \in Seq({Poison} \cup Task) /\ Len(queue) <= MaxQueue
  BY PipelineAssumption DEF Init
<1>7. hidden \in [Calendars -> SUBSET Events]
  BY DEF Init
<1>8. Cardinality(Workers) \in Nat
  BY PipelineAssumption, FS_CardinalityType
<1>9. pills \in 0..Cardinality(Workers)
  BY <1>8 DEF Init
<1>10. /\ job \in {"idle", "fetching", "stopping"}
       /\ abortReq \in BOOLEAN /\ abortEvent \in BOOLEAN /\ errors \in BOOLEAN
       /\ result \in {"none", "completed", "warning", "aborted", "failed"}
       /\ submitted \subseteq Task /\ merged \subseteq Events /\ lossy \in BOOLEAN
  BY DEF Init
<1> QED
  BY <1>2, <1>3, <1>4, <1>5, <1>6, <1>7, <1>9, <1>10 DEF Typed

LEMMA ChangeTyped ==
  ASSUME Typed, NEW c \in Calendars, NEW e \in Carries[c], Edit(c, e) \/ Cancel(c, e)
  PROVE  /\ Typed'
         /\ \E copy \in Copies : UpstreamChange(c, e, copy) /\ copy.at = clock[c] + 1
                                 /\ copy.state \in {"live", "cancelled"}
<1>1. e \in Events /\ clock[c] \in Nat
  BY CarriesIs, PipelineAssumption DEF Typed
<1>2. PICK copy \in Copies : UpstreamChange(c, e, copy) /\ copy.at = clock[c] + 1
                             /\ copy.state \in {"live", "cancelled"}
  <2>1. CASE Edit(c, e)
    <3> PICK x \in Content : UpstreamChange(c, e, [state |-> "live", at |-> clock[c] + 1,
                                                   content |-> x])
      BY <2>1 DEF Edit
    <3>1. [state |-> "live", at |-> clock[c] + 1, content |-> x] \in Copies
      BY <1>1 DEF Copies
    <3> QED
      BY <3>1
  <2>2. CASE Cancel(c, e)
    <3> PICK copy : copy = [upstream[c][e] EXCEPT !.state = "cancelled", !.at = clock[c] + 1]
      OBVIOUS
    <3>0. upstream[c][e] \in Copies /\ upstream[c][e].state = "live"
      BY <1>1, <2>2, CopyIs DEF Cancel
    <3>1. upstream[c][e] \in [state : {"live", "cancelled"}, at : Nat, content : Content]
      BY <3>0 DEF Copies, NoCopy
    <3>2. copy \in [state : {"live", "cancelled"}, at : Nat, content : Content]
          /\ copy.at = clock[c] + 1 /\ copy.state = "cancelled"
      <4> PICK x \in [state : {"live", "cancelled"}, at : Nat, content : Content] :
            x = upstream[c][e]
        BY <3>1
      <4> PICK n \in Nat : n = clock[c] + 1
        BY <1>1
      <4>1. copy = [x EXCEPT !.state = "cancelled", !.at = n]
        OBVIOUS
      <4> QED
        BY <4>1
    <3>3. UpstreamChange(c, e, copy)
      BY <2>2 DEF Cancel
    <3> QED
      BY <3>2, <3>3 DEF Copies
  <2> QED
    BY <2>1, <2>2
<1>3. /\ clock' = [clock EXCEPT ![c] = @ + 1] /\ clock[c] < MaxChanges
      /\ upstream' = [upstream EXCEPT ![c][e] = copy]
      /\ hidden' = [hidden EXCEPT ![c] = @ \ {e}]
      /\ UNCHANGED <<token, row, job, abortReq, abortEvent, fetch, queue, pills,
                     worker, errors, result, submitted, merged, lossy>>
  BY <1>2 DEF UpstreamChange
<1>4. clock' \in [Calendars -> 0..MaxChanges] /\ hidden' \in [Calendars -> SUBSET Events]
  BY <1>3, PipelineAssumption DEF Typed
<1>5. upstream' \in [Calendars -> [Events -> Copies]]
  BY <1>1, <1>2, <1>3 DEF Typed
<1>6. Typed'
  BY <1>3, <1>4, <1>5 DEF Typed
<1> QED
  BY <1>2, <1>6

LEMMA StartTyped ==
  ASSUME Typed, NEW mode \in Modes, StartSync(mode)
  PROVE  Typed'
<1>1. token' \in [Calendars -> Tokens]
  BY TokenType DEF StartSync, Typed
<1>2. fetch' \in [Calendars -> FetchRecord]
  <2>1. \A t \in Tokens : [NoFetch EXCEPT !.pc = "fetching", !.token = t] \in FetchRecord
    BY TokenType DEF NoFetch, FetchRecord
  <2> QED
    BY <1>1, <2>1 DEF StartSync
<1>3. worker' \in [Workers -> WorkerRecord]
  BY RecordsTyped DEF StartSync
<1> QED
  BY <1>1, <1>2, <1>3 DEF StartSync, Typed, upVars

LEMMA FetchTyped ==
  ASSUME Typed, NEW c \in Calendars, FetchStep(c)
  PROVE  Typed'
<1>1. fetch[c] \in FetchRecord /\ fetch[c].token \in Tokens /\ fetch[c].next \in Tokens
      /\ fetch[c].todo \subseteq Task /\ fetch[c].dels \subseteq Events
  BY RecordsTyped DEF Typed
<1>2. ASSUME NEW es, es \subseteq Live(c), NEW ds, ds \subseteq Events,
             NEW next \in Tokens, Fetched(c, es, ds, next)
      PROVE  fetch' \in [Calendars -> FetchRecord]
  <2>1. ASSUME NEW e \in es
        PROVE  [cal |-> c, id |-> e, content |-> upstream[c][e].content] \in Task
    <3>1. e \in Events /\ upstream[c][e].state = "live"
      BY <1>2, CarriesIs DEF Live
    <3> QED
      BY <3>1, CopyIs DEF Task
  <2>2. {[cal |-> c, id |-> e, content |-> upstream[c][e].content] : e \in es} \subseteq Task
    BY <2>1
  <2> DEFINE f == [pc |-> "submitting", token |-> fetch[c].token,
                   todo |-> {[cal |-> c, id |-> e, content |-> upstream[c][e].content] : e \in es},
                   dels |-> ds, next |-> next]
  <2>3. f \in FetchRecord
    BY <1>1, <1>2, <2>2 DEF FetchRecord
  <2>4. fetch' = [fetch EXCEPT ![c] = f]
    BY <1>2 DEF Fetched, Typed
  <2> HIDE DEF f
  <2> QED
    BY <2>3, <2>4 DEF Typed
<1>3. clock[c] \in Tokens /\ NextTokens(c) \subseteq Tokens
  BY TokenType DEF NextTokens, Typed
<1>4. CASE FetchIncremental(c)
  <2>1. Fetched(c, Changed(c, fetch[c].token) \cap Live(c),
                Changed(c, fetch[c].token) \ Live(c), clock[c])
    BY <1>4 DEF FetchIncremental
  <2>2. Changed(c, fetch[c].token) \ Live(c) \subseteq Events
    BY CarriesIs DEF Changed
  <2>3. fetch' \in [Calendars -> FetchRecord]
    BY <1>2, <1>3, <2>1, <2>2
  <2> QED
    BY <1>4, <2>3 DEF FetchIncremental, Typed, upVars, histVars
<1>5. CASE ExpireToken(c)
  <2>1. /\ token' = [token EXCEPT ![c] = NoToken]
        /\ fetch' = [fetch EXCEPT ![c].token = NoToken]
        /\ UNCHANGED <<upVars, row, job, abortReq, abortEvent, queue, pills, worker,
                       errors, result, histVars>>
    BY <1>5 DEF ExpireToken
  <2>2. token' \in [Calendars -> Tokens]
    BY <2>1, TokenType DEF Typed
  <2>3. [fetch[c] EXCEPT !.token = NoToken] \in FetchRecord
    BY <1>1, TokenType DEF FetchRecord
  <2>4. fetch' \in [Calendars -> FetchRecord]
    BY <2>1, <2>3 DEF Typed
  <2> QED
    BY <2>1, <2>2, <2>4 DEF Typed, upVars, histVars
<1>6. CASE FetchFull(c)
  <2>1. PICK next \in NextTokens(c) : Fetched(c, Live(c), {}, next)
    BY <1>6 DEF FetchFull
  <2>2. fetch' \in [Calendars -> FetchRecord]
    BY <1>2, <1>3, <2>1
  <2>3. hidden' \in [Calendars -> SUBSET Events]
    BY <1>6, CarriesIs DEF FetchFull, Typed
  <2> QED
    BY <1>6, <2>2, <2>3 DEF FetchFull, Typed, upVars, histVars
<1>7. CASE Submit(c)
  <2>1. PICK task \in fetch[c].todo :
          /\ queue' = Append(queue, task)
          /\ submitted' = submitted \cup {task}
          /\ fetch' = [fetch EXCEPT ![c].todo = @ \ {task}]
    BY <1>7 DEF Submit
  <2>2. /\ queue' \in Seq({Poison} \cup Task) /\ Len(queue') = Len(queue) + 1
        /\ Len(queue) \in Nat
    BY <1>1, <2>1, QueueIs
  <2>3. Len(queue') <= MaxQueue
    BY <1>7, <2>2, PipelineAssumption DEF Submit
  <2>4. [fetch[c] EXCEPT !.todo = @ \ {task}] \in FetchRecord
    BY <1>1 DEF FetchRecord
  <2>5. fetch' \in [Calendars -> FetchRecord]
    BY <2>1, <2>4 DEF Typed
  <2>6. submitted' \subseteq Task
    BY <1>1, <2>1 DEF Typed
  <2> QED
    BY <1>7, <2>2, <2>3, <2>5, <2>6 DEF Submit, Typed, upVars, histVars
<1>8. ASSUME NEW pc \in {"reconciled", "processing", "failed"},
             fetch' = [fetch EXCEPT ![c].pc = pc]
      PROVE  fetch' \in [Calendars -> FetchRecord]
  <2>1. [fetch[c] EXCEPT !.pc = pc] \in FetchRecord
    BY <1>1 DEF FetchRecord
  <2> QED
    BY <1>8, <2>1 DEF Typed
<1>9. CASE Reconcile(c)
  <2>1. fetch' \in [Calendars -> FetchRecord]
    BY <1>8, <1>9 DEF Reconcile
  <2>2. ASSUME NEW e \in Events, row[e].present
        PROVE  [row[e] EXCEPT !.gone = TRUE] \in RowRecord
    BY <2>2, RowIs DEF RowRecord
  <2>3. row' \in [Events -> {NoRow} \cup RowRecord]
    BY <1>9, <2>2 DEF Reconcile, Typed
  <2> QED
    BY <1>9, <2>1, <2>3 DEF Reconcile, Typed, upVars, histVars
<1>10. CASE SaveToken(c)
  <2>1. fetch' \in [Calendars -> FetchRecord]
    BY <1>8, <1>10 DEF SaveToken
  <2>2. token' \in [Calendars -> Tokens]
    BY <1>1, <1>10 DEF SaveToken, Typed
  <2> QED
    BY <1>10, <2>1, <2>2 DEF SaveToken, Typed, upVars, histVars
<1>11. CASE FetchFails(c)
  <2>1. fetch' \in [Calendars -> FetchRecord]
    BY <1>8, <1>11 DEF FetchFails
  <2> QED
    BY <1>11, <2>1 DEF FetchFails, Typed, upVars, histVars
<1> QED
  BY <1>4, <1>5, <1>6, <1>7, <1>9, <1>10, <1>11 DEF FetchStep

LEMMA DecisionIs ==
  ASSUME Typed, NEW t \in Task, NEW d \in Decision(t)
  PROVE  /\ d \in Plans
         /\ d.action # "deduped" => d.target = t.id
         /\ d.action \in {"unchanged", "deduped"} => row[d.target].present
         /\ d.action = "unchanged" => row[t.id].content.hash = t.content.hash
<1>1. t.id \in Events
  BY TaskIs
<1>2. ASSUME NEW a \in {"unchanged", "updated"}, NEW l \in BOOLEAN,
             row[t.id].present,
             d = [action |-> a, target |-> t.id, linked |-> l],
             a = "unchanged" => row[t.id].content.hash = t.content.hash
      PROVE  /\ d \in Plans
             /\ d.action # "deduped" => d.target = t.id
             /\ d.action \in {"unchanged", "deduped"} => row[d.target].present
             /\ d.action = "unchanged" => row[t.id].content.hash = t.content.hash
  BY <1>1, <1>2 DEF Plans
<1>3. CASE row[t.id].present
  <2>1. \E a \in IF row[t.id].content.hash = t.content.hash
                 THEN {"unchanged", "updated"} ELSE {"updated"} :
          d = [action |-> a, target |-> t.id, linked |-> t.cal \in row[t.id].sources]
    BY <1>3 DEF Decision
  <2>2. PICK a \in {"unchanged", "updated"} :
          /\ d = [action |-> a, target |-> t.id, linked |-> t.cal \in row[t.id].sources]
          /\ a = "unchanged" => row[t.id].content.hash = t.content.hash
    BY <2>1
  <2>3. (t.cal \in row[t.id].sources) \in BOOLEAN
    OBVIOUS
  <2> QED
    BY <1>2, <1>3, <2>2, <2>3
<1>4. CASE ~row[t.id].present /\ Canonical(t.content.hash) # {}
  <2>1. PICK e \in Canonical(t.content.hash) :
          d = [action |-> "deduped", target |-> e, linked |-> t.cal \in row[e].sources]
    BY <1>4 DEF Decision
  <2>2. e \in Events /\ row[e].present
    BY DEF Canonical
  <2>3. (t.cal \in row[e].sources) \in BOOLEAN
    OBVIOUS
  <2> QED
    BY <2>1, <2>2, <2>3 DEF Plans
<1>5. CASE ~row[t.id].present /\ Canonical(t.content.hash) = {}
  <2>1. d = [action |-> "new", target |-> t.id, linked |-> FALSE]
    BY <1>5 DEF Decision
  <2> QED
    BY <1>1, <2>1 DEF Plans
<1> QED
  BY <1>3, <1>4, <1>5

LEMMA ReleaseTyped ==
  ASSUME Typed, NEW w \in Workers, worker' = [worker EXCEPT ![w] = IdleWorker]
  PROVE  worker' \in [Workers -> WorkerRecord]
BY RecordsTyped DEF Typed

LEMMA PersistRow ==
  ASSUME Typed, NEW w \in Workers, Persist(w), PlansFit
  PROVE  /\ worker[w].task \in Task /\ worker[w].plan \in Plans
         /\ row' \in [Events -> {NoRow} \cup RowRecord]
         /\ \A e \in Events : e # worker[w].plan.target => row'[e] = row[e]
         /\ LET e == worker[w].plan.target IN
            /\ row'[e].present
            /\ worker[w].plan.action \in {"new", "updated"} =>
                 e = worker[w].task.id /\ row'[e].content = worker[w].task.content
                 /\ ~row'[e].gone
            /\ worker[w].plan.action \in {"unchanged", "deduped"} =>
                 row[e].present /\ row'[e].content = row[e].content
                 /\ row'[e].gone = row[e].gone
<1> PICK t : t = worker[w].task
  OBVIOUS
<1> PICK d : d = worker[w].plan
  OBVIOUS
<1> PICK written : written = [present |-> TRUE, content |-> t.content, gone |-> FALSE,
                              sources |-> row[t.id].sources \cup {t.cal}]
  OBVIOUS
<1> PICK linked : linked = [row[d.target] EXCEPT !.sources = @ \cup {t.cal}]
  OBVIOUS
<1>1. t \in Task /\ d \in Plans /\ worker[w].pc = "decided"
  BY WorkerIs DEF Persist, Busy
<1>2. /\ t.id \in Events /\ t.cal \in Calendars /\ t.content \in Content
      /\ d.target \in Events /\ d.action \in {"new", "updated", "unchanged", "deduped"}
  BY <1>1, TaskIs DEF Plans
<1>3. /\ d.action \in {"new", "updated"} => d.target = t.id
      /\ d.action \in {"unchanged", "deduped"} => row[d.target].present
  BY <1>1 DEF PlansFit
<1>4. row' = [row EXCEPT ![d.target] =
                IF d.action \in {"new", "updated"} THEN written ELSE linked]
  BY DEF Persist
<1>5. written \in RowRecord /\ written.present /\ ~written.gone
      /\ written.content = t.content
  BY <1>2, RowIs DEF RowRecord
<1>6. d.action \in {"unchanged", "deduped"} =>
        /\ linked \in RowRecord /\ linked.content = row[d.target].content
        /\ linked.present /\ linked.gone = row[d.target].gone
  <2> HAVE d.action \in {"unchanged", "deduped"}
  <2> PICK r \in RowRecord : r = row[d.target]
    BY <1>2, <1>3, RowIs
  <2> PICK S : S = r.sources \cup {t.cal}
    OBVIOUS
  <2>1. linked = [r EXCEPT !.sources = S]
    OBVIOUS
  <2>2. S \in SUBSET Calendars
    BY <1>2 DEF RowRecord
  <2>3. linked \in RowRecord
    BY <2>1, <2>2 DEF RowRecord
  <2> QED
    BY <2>1, <2>3 DEF RowRecord
<1>7. row \in [Events -> {NoRow} \cup RowRecord]
  BY DEF Typed
<1>8. row' \in [Events -> {NoRow} \cup RowRecord]
  BY <1>2, <1>4, <1>5, <1>6, <1>7
<1>9. \A e \in Events : e # d.target => row'[e] = row[e]
  BY <1>4, <1>7
<1>10. row'[d.target] = IF d.action \in {"new", "updated"} THEN written ELSE linked
  BY <1>2, <1>4, <1>7
<1> QED
  BY <1>1, <1>2, <1>3, <1>5, <1>6, <1>8, <1>9, <1>10

LEMMA PoolTyped ==
  ASSUME Typed, PlansFit, NEW w \in Workers, PoolStep(w)
  PROVE  Typed'
<1>1. CASE Get(w)
  <2>1. /\ queue' = Tail(queue) /\ queue # <<>>
        /\ worker' = [worker EXCEPT ![w] =
              IF Head(queue) = Poison THEN [pc |-> "exited"]
              ELSE IF (Head(queue) # Poison /\ abortEvent) \/ Head(queue).id \in Blocked
              THEN IdleWorker
              ELSE [pc |-> "taken", task |-> Head(queue)]]
        /\ lossy' \in BOOLEAN
    BY <1>1 DEF Get, Typed
  <2>2. /\ Head(queue) \in {Poison} \cup Task /\ Len(queue') <= MaxQueue
        /\ queue' \in Seq({Poison} \cup Task)
    BY <2>1, QueueIs, PipelineAssumption DEF Typed
  <2>3. Head(queue) \in Task => [pc |-> "taken", task |-> Head(queue)] \in WorkerRecord
    BY DEF WorkerRecord
  <2>4. worker' \in [Workers -> WorkerRecord]
    BY <2>1, <2>2, <2>3, RecordsTyped DEF Typed
  <2> QED
    BY <1>1, <2>1, <2>2, <2>4 DEF Get, Typed, upVars
<1>2. CASE Enrich(w)
  <2>1. [worker[w] EXCEPT !.pc = "enriched"] \in WorkerRecord
    BY <1>2, WorkerIs DEF Enrich, WorkerRecord
  <2>2. worker' \in [Workers -> WorkerRecord]
    BY <1>2, <2>1 DEF Enrich, Typed
  <2> QED
    BY <1>2, <2>2 DEF Enrich, Typed, upVars, histVars
<1>3. CASE PrecheckFails(w)
  BY <1>3, ReleaseTyped DEF PrecheckFails, Typed, upVars
<1>4. CASE EnrichFails(w)
  BY <1>4, ReleaseTyped DEF EnrichFails, TaskFails, Typed, upVars
<1>5. CASE AbortGate(w)
  BY <1>5, ReleaseTyped DEF AbortGate, Typed, upVars
<1>6. CASE Decide(w)
  <2>1. PICK d \in Decision(worker[w].task) :
          worker' = [worker EXCEPT ![w] =
                      [pc |-> "decided", task |-> worker[w].task, plan |-> d]]
    BY <1>6 DEF Decide, Typed
  <2>2. worker[w].task \in Task
    BY <1>6, WorkerIs DEF Decide, Busy
  <2>3. PICK t \in Task : t = worker[w].task
    BY <2>2
  <2>4. d \in Decision(t)
    BY <2>3
  <2>5. d \in Plans
    BY <2>4, DecisionIs
  <2>6. [pc |-> "decided", task |-> t, plan |-> d] \in WorkerRecord
    BY <2>5 DEF WorkerRecord
  <2>7. worker' \in [Workers -> WorkerRecord]
    BY <2>1, <2>3, <2>6 DEF Typed
  <2> QED
    BY <1>6, <2>7 DEF Decide, Typed, upVars, histVars
<1>7. CASE Persist(w)
  <2>1. worker[w].task.id \in Events
    BY <1>7, PersistRow, TaskIs
  <2>2. merged' \subseteq Events
    BY <1>7, <2>1 DEF Persist, Typed
  <2>3. worker' \in [Workers -> WorkerRecord]
    BY <1>7, ReleaseTyped DEF Persist
  <2>4. row' \in [Events -> {NoRow} \cup RowRecord]
    BY <1>7, PersistRow
  <2> QED
    BY <1>7, <2>2, <2>3, <2>4 DEF Persist, Typed, upVars
<1>8. CASE PersistFails(w)
  BY <1>8, ReleaseTyped DEF PersistFails, TaskFails, Typed, upVars
<1> QED
  BY <1>1, <1>2, <1>3, <1>4, <1>5, <1>6, <1>7, <1>8 DEF PoolStep

LEMMA NextTyped ==
  ASSUME Typed, PlansFit, [Next]_vars
  PROVE  Typed'
<1>1. CASE UNCHANGED vars
  BY <1>1 DEF Typed, vars, upVars, histVars
<1>2. CASE RequestAbort
  BY <1>2 DEF RequestAbort, Typed, upVars, histVars
<1>3. CASE BeginStop
  <2>1. Cardinality(Workers) \in Nat
    BY PipelineAssumption, FS_CardinalityType
  <2> QED
    BY <1>3, <2>1 DEF BeginStop, Typed, upVars, histVars
<1>4. CASE PutPill
  <2>1. /\ queue' \in Seq({Poison} \cup Task) /\ Len(queue') <= MaxQueue
    BY <1>4, QueueIs, PipelineAssumption DEF PutPill
  <2>2. pills' \in 0..Cardinality(Workers)
    BY <1>4, PipelineAssumption, FS_CardinalityType DEF PutPill, Typed
  <2> QED
    BY <1>4, <2>1, <2>2 DEF PutPill, Typed, upVars, histVars
<1>5. CASE Finish
  <2>1. fetch' \in [Calendars -> FetchRecord]
    BY <1>5, RecordsTyped DEF Finish
  <2>2. result' \in {"none", "completed", "warning", "aborted", "failed"}
    BY <1>5 DEF Finish
  <2> QED
    BY <1>5, <2>1, <2>2 DEF Finish, Typed, upVars, histVars
<1>6. CASE Crash
  <2>1. /\ fetch' \in [Calendars -> FetchRecord] /\ worker' \in [Workers -> WorkerRecord]
        /\ queue' \in Seq({Poison} \cup Task) /\ Len(queue') <= MaxQueue
        /\ pills' \in 0..Cardinality(Workers)
    BY <1>6, RecordsTyped, PipelineAssumption, FS_CardinalityType DEF Crash, Typed
  <2> QED
    BY <1>6, <2>1 DEF Crash, Typed, upVars
<1>7. ASSUME NEW c \in Calendars, NEW e \in Carries[c], Edit(c, e) \/ Cancel(c, e)
      PROVE  Typed'
  BY <1>7, ChangeTyped
<1>8. ASSUME NEW mode \in Modes, StartSync(mode)
      PROVE  Typed'
  BY <1>8, StartTyped
<1>9. ASSUME NEW c \in Calendars, FetchStep(c)
      PROVE  Typed'
  BY <1>9, FetchTyped
<1>10. ASSUME NEW w \in Workers, PoolStep(w)
      PROVE  Typed'
  BY <1>10, PoolTyped
<1> QED
  BY <1>1, <1>2, <1>3, <1>4, <1>5, <1>6, <1>7, <1>8, <1>9, <1>10 DEF Next

-----------------------------------------------------------------------------
(* Where the tasks are after a step *)

LEMMA StillMoves ==
  ASSUME UNCHANGED <<queue, worker>>
  PROVE  Dropping({}) /\ (OnePlace => OnePlace')
BY DEF Dropping, InHand, InQueue, InPool, Unchecked, Busy, OnePlace

LEMMA HandCalm ==
  ASSUME Typed, queue = <<>>, \A w \in Workers : ~Busy(w)
  PROVE  \A t \in Task : ~InHand(t) /\ ~Unchecked(t)
BY DEF InHand, InQueue, InPool, Unchecked, Busy

LEMMA ClearMoves ==
  ASSUME Typed, queue' = <<>>, \A w \in Workers : ~Busy(w)'
  PROVE  OnePlace' /\ \A t \in Task : ~InHand(t)' /\ ~Unchecked(t)'
BY DEF InHand, InQueue, InPool, Unchecked, Busy, OnePlace

LEMMA PillMoves ==
  ASSUME Typed, OnePlace, queue' = Append(queue, Poison), worker' = worker
  PROVE  Dropping({}) /\ OnePlace'
<1>1. /\ Len(queue') = Len(queue) + 1 /\ Len(queue) \in Nat
      /\ \A k \in 1..Len(queue) : queue'[k] = queue[k]
      /\ queue'[Len(queue) + 1] = Poison
  BY QueueIs
<1>2. \A k \in 1..Len(queue') : queue'[k] # Poison =>
        k \in 1..Len(queue) /\ queue'[k] = queue[k]
  BY <1>1
<1>3. \A t \in Task : InQueue(t)' <=> InQueue(t)
  <2> TAKE t \in Task
  <2>1. t # Poison
    BY TaskIs
  <2>2. InQueue(t) => InQueue(t)'
    BY <1>1 DEF InQueue
  <2>3. InQueue(t)' => InQueue(t)
    BY <1>2, <2>1 DEF InQueue
  <2> QED
    BY <2>2, <2>3
<1>4. Dropping({})
  BY <1>3 DEF Dropping, InHand, InPool, Unchecked, Busy
<1>5. OnePlace'
  BY <1>2 DEF OnePlace, Busy
<1> QED
  BY <1>4, <1>5

LEMMA SubmitMoves ==
  ASSUME Typed, OnePlace, NEW task \in Task,
         \A u \in submitted : ~Same(task, u),
         \A t \in Task : InHand(t) => t \in submitted,
         queue' = Append(queue, task), worker' = worker
  PROVE  /\ OnePlace'
         /\ \A t \in Task : /\ InHand(t)' <=> InHand(t) \/ t = task
                            /\ Unchecked(t)' => Unchecked(t) \/ t = task
<1>1. /\ Len(queue') = Len(queue) + 1 /\ Len(queue) \in Nat
      /\ \A k \in 1..Len(queue) : queue'[k] = queue[k]
      /\ queue'[Len(queue) + 1] = task
  BY QueueIs
<1>2. \A k \in 1..Len(queue') : \/ k = Len(queue) + 1 /\ queue'[k] = task
                                \/ k \in 1..Len(queue) /\ queue'[k] = queue[k]
  BY <1>1
<1>3. \A t \in Task : InQueue(t)' <=> InQueue(t) \/ t = task
  <2> TAKE t \in Task
  <2>1. InQueue(t) => InQueue(t)'
    BY <1>1 DEF InQueue
  <2>2. t = task => InQueue(t)'
    BY <1>1 DEF InQueue
  <2>3. InQueue(t)' => InQueue(t) \/ t = task
    BY <1>2 DEF InQueue
  <2> QED
    BY <2>1, <2>2, <2>3
<1>4. \A t \in Task : /\ InHand(t)' <=> InHand(t) \/ t = task
                      /\ Unchecked(t)' => Unchecked(t) \/ t = task
  BY <1>3 DEF InHand, InPool, Unchecked, Busy
<1>5. \A t \in Task : InHand(t) => ~Same(task, t) /\ ~Same(t, task)
  BY DEF Same
<1>6. \A k \in 1..Len(queue) : queue[k] # Poison =>
        ~Same(task, queue[k]) /\ ~Same(queue[k], task)
  BY <1>5, QueueIs DEF InHand, InQueue
<1>7. \A w \in Workers : Busy(w) => ~Same(task, worker[w].task)
  BY <1>5, WorkerIs DEF InHand, InPool
<1>8. \A i, j \in 1..Len(queue') :
        i # j /\ queue'[i] # Poison /\ queue'[j] # Poison => ~Same(queue'[i], queue'[j])
  BY <1>2, <1>6 DEF OnePlace
<1>9. \A w \in Workers : Busy(w)' <=> Busy(w)
  BY DEF Busy
<1>10. \A i \in 1..Len(queue'), w \in Workers :
         queue'[i] # Poison /\ Busy(w) => ~Same(queue'[i], worker[w].task)
  BY <1>2, <1>7 DEF OnePlace
<1> QED
  BY <1>4, <1>8, <1>9, <1>10 DEF OnePlace

LEMMA AdvanceMoves ==
  ASSUME Typed, OnePlace, NEW w \in Workers, Busy(w), NEW r \in WorkerRecord,
         r.pc \in {"enriched", "decided"}, r.task = worker[w].task,
         worker' = [worker EXCEPT ![w] = r], queue' = queue
  PROVE  Dropping({}) /\ OnePlace'
<1>1. worker'[w] = r /\ \A v \in Workers : v # w => worker'[v] = worker[v]
  BY DEF Typed
<1>2. \A v \in Workers : /\ Busy(v)' <=> Busy(v)
                         /\ Busy(v) => worker'[v].task = worker[v].task
                         /\ worker'[v].pc = "taken" => worker[v].pc = "taken" /\ v # w
  BY <1>1 DEF Busy
<1>3. Dropping({})
  BY <1>1, <1>2 DEF Dropping, InHand, InQueue, InPool, Unchecked
<1>4. OnePlace'
  BY <1>2 DEF OnePlace
<1> QED
  BY <1>3, <1>4

LEMMA ReleaseMoves ==
  ASSUME Typed, OnePlace, NEW w \in Workers, Busy(w),
         worker' = [worker EXCEPT ![w] = IdleWorker], queue' = queue
  PROVE  /\ Dropping({worker[w].task}) /\ OnePlace'
         /\ worker[w].task \in Task /\ InHand(worker[w].task)
         /\ \A t \in Task : InHand(t)' => ~Same(t, worker[w].task)
<1>1. worker'[w] = IdleWorker /\ \A v \in Workers : v # w => worker'[v] = worker[v]
  BY DEF Typed
<1>2. \A v \in Workers : /\ Busy(v)' <=> Busy(v) /\ v # w
                         /\ Busy(v)' => worker'[v] = worker[v]
  BY <1>1 DEF Busy, IdleWorker
<1>3. OnePlace'
  BY <1>2 DEF OnePlace
<1>4. worker[w].task \in Task /\ InHand(worker[w].task)
  BY WorkerIs DEF InHand, InPool
<1>5. ASSUME NEW t \in Task, InHand(t)'
      PROVE  InHand(t) /\ ~Same(t, worker[w].task)
  <2>1. CASE InQueue(t)'
    <3>1. InQueue(t)
      BY <2>1 DEF InQueue
    <3>2. t # Poison
      BY TaskIs
    <3> QED
      BY <3>1, <3>2 DEF InHand, InQueue, OnePlace
  <2>2. CASE InPool(t)'
    <3> PICK v \in Workers : Busy(v)' /\ worker'[v].task = t
      BY <2>2 DEF InPool
    <3>1. Busy(v) /\ v # w /\ worker[v].task = t
      BY <1>2
    <3> QED
      BY <3>1 DEF InHand, InPool, OnePlace
  <2> QED
    BY <1>5, <2>1, <2>2 DEF InHand
<1>6. ASSUME NEW t \in Task, InHand(t), t # worker[w].task
      PROVE  InHand(t)'
  <2>1. CASE InQueue(t)
    BY <2>1 DEF InHand, InQueue
  <2>2. CASE InPool(t)
    BY <1>2, <1>6, <2>2 DEF InHand, InPool
  <2> QED
    BY <1>6, <2>1, <2>2 DEF InHand
<1>7. ASSUME NEW t \in Task, Unchecked(t)'
      PROVE  Unchecked(t)
  BY <1>1, <1>7 DEF Unchecked, InQueue, IdleWorker
<1>9. Dropping({worker[w].task})
  <2>1. ASSUME NEW t \in Task
        PROVE  InHand(t)' <=> InHand(t) /\ t # worker[w].task
    <3>1. Same(worker[w].task, worker[w].task)
      BY DEF Same
    <3> QED
      BY <1>5, <1>6, <3>1
  <2> QED
    BY <1>7, <2>1 DEF Dropping
<1> QED
  BY <1>3, <1>4, <1>5, <1>9

LEMMA GetMoves ==
  ASSUME Typed, OnePlace, NEW w \in Workers, Get(w)
  PROVE  /\ OnePlace'
         /\ \E D \in SUBSET Task :
              /\ Dropping(D)
              /\ D # {} => (abortEvent /\ lossy') \/ \A t \in D : t.id \in Blocked
         /\ worker'[w].pc \in {"idle", "exited", "taken"}
         /\ \A v \in Workers : v # w => worker'[v] = worker[v]
<1>1. /\ queue # <<>> /\ queue' = Tail(queue) /\ worker[w].pc = "idle"
      /\ worker' = [worker EXCEPT ![w] =
            IF Head(queue) = Poison THEN [pc |-> "exited"]
            ELSE IF (Head(queue) # Poison /\ abortEvent) \/ Head(queue).id \in Blocked
            THEN IdleWorker
            ELSE [pc |-> "taken", task |-> Head(queue)]]
      /\ lossy' = (lossy \/ (Head(queue) # Poison /\ abortEvent))
  BY DEF Get
<1>2. /\ Len(queue) \in Nat /\ Len(queue) > 0 /\ Head(queue) = queue[1]
      /\ Len(queue') = Len(queue) - 1
      /\ \A k \in 1..Len(queue') : queue'[k] = queue[k + 1] /\ k + 1 \in 1..Len(queue)
      /\ \A k \in 1..Len(queue) : k # 1 => k - 1 \in 1..Len(queue') /\ queue'[k - 1] = queue[k]
      /\ Head(queue) = Poison \/ Head(queue) \in Task
  BY <1>1, QueueIs
<1>3. \A i, j \in 1..Len(queue') :
        i # j /\ queue'[i] # Poison /\ queue'[j] # Poison => ~Same(queue'[i], queue'[j])
  <2> TAKE i, j \in 1..Len(queue')
  <2>1. i + 1 \in 1..Len(queue) /\ j + 1 \in 1..Len(queue)
        /\ queue'[i] = queue[i + 1] /\ queue'[j] = queue[j + 1]
    BY <1>2
  <2>2. i # j => i + 1 # j + 1
    BY <1>2
  <2> QED
    BY <2>1, <2>2 DEF OnePlace
<1>4. \A k \in 1..Len(queue') : queue'[k] # Poison /\ Head(queue) # Poison =>
        ~Same(queue'[k], Head(queue)) /\ ~Same(Head(queue), queue'[k])
  <2> TAKE k \in 1..Len(queue')
  <2>1. k + 1 \in 1..Len(queue) /\ 1 \in 1..Len(queue) /\ k + 1 # 1
        /\ queue'[k] = queue[k + 1] /\ Head(queue) = queue[1]
    BY <1>2
  <2> QED
    BY <2>1 DEF OnePlace
<1>5. \A k \in 1..Len(queue'), v \in Workers :
        queue'[k] # Poison /\ Busy(v) => ~Same(queue'[k], worker[v].task)
  BY <1>2 DEF OnePlace
<1>6. \A v \in Workers : Head(queue) # Poison /\ Busy(v) =>
        ~Same(Head(queue), worker[v].task) /\ ~Same(worker[v].task, Head(queue))
  <2>1. 1 \in 1..Len(queue) /\ Head(queue) = queue[1]
    BY <1>2
  <2> QED
    BY <2>1 DEF OnePlace, Same
<1>7. \A v \in Workers : v # w => worker'[v] = worker[v]
  BY <1>1 DEF Typed
<1>8. ~Busy(w)
  BY <1>1 DEF Busy
<1>9. \A t \in Task : InQueue(t) <=> InQueue(t)' \/ t = Head(queue)
  <2> TAKE t \in Task
  <2>1. InQueue(t)' => InQueue(t)
    BY <1>2 DEF InQueue
  <2>2. t = Head(queue) => InQueue(t)
    BY <1>2 DEF InQueue
  <2>3. InQueue(t) => InQueue(t)' \/ t = Head(queue)
    BY <1>2 DEF InQueue
  <2> QED
    BY <2>1, <2>2, <2>3
<1>10. CASE Head(queue) # Poison /\ ~abortEvent /\ Head(queue).id \notin Blocked
  <2>1. worker'[w] = [pc |-> "taken", task |-> Head(queue)]
    BY <1>1, <1>10 DEF Typed
  <2>2. worker'[w].pc = "taken" /\ worker'[w].task = Head(queue)
    BY <2>1
  <2>3. \A v \in Workers : /\ Busy(v)' <=> Busy(v) \/ v = w
                           /\ v # w => worker'[v] = worker[v]
    BY <1>7, <2>2 DEF Busy
  <2>4. \A t \in Task : InPool(t)' <=> InPool(t) \/ t = Head(queue)
    <3> TAKE t \in Task
    <3>1. InPool(t) => InPool(t)'
      BY <1>8, <2>3 DEF InPool
    <3>2. t = Head(queue) => InPool(t)'
      BY <2>2, <2>3 DEF InPool
    <3>3. InPool(t)' => InPool(t) \/ t = Head(queue)
      BY <2>2, <2>3 DEF InPool
    <3> QED
      BY <3>1, <3>2, <3>3
  <2>5. \A t \in Task : Unchecked(t)' => Unchecked(t)
    BY <1>7, <1>9, <2>2 DEF Unchecked
  <2>6. Dropping({})
    BY <1>9, <2>4, <2>5 DEF Dropping, InHand
  <2>7. OnePlace'
    <3>1. \A i \in 1..Len(queue'), v \in Workers :
            queue'[i] # Poison /\ Busy(v)' => ~Same(queue'[i], worker'[v].task)
      BY <1>4, <1>5, <1>10, <2>2, <2>3
    <3>2. \A v, u \in Workers :
            v # u /\ Busy(v)' /\ Busy(u)' => ~Same(worker'[v].task, worker'[u].task)
      BY <1>6, <1>10, <2>2, <2>3 DEF OnePlace
    <3> QED
      BY <1>3, <3>1, <3>2 DEF OnePlace
  <2> QED
    BY <1>7, <2>2, <2>6, <2>7
<1>11. CASE Head(queue) = Poison \/ abortEvent \/ Head(queue).id \in Blocked
  <2>1. worker'[w].pc \in {"idle", "exited"}
    BY <1>1, <1>11 DEF Typed, IdleWorker
  <2>2. \A v \in Workers : /\ Busy(v)' <=> Busy(v)
                           /\ Busy(v) => worker'[v] = worker[v]
    BY <1>7, <1>8, <2>1 DEF Busy
  <2>3. \A t \in Task : InPool(t)' <=> InPool(t)
    BY <2>2 DEF InPool
  <2>4. \A t \in Task : Unchecked(t)' => Unchecked(t)
    BY <1>7, <1>9, <2>1 DEF Unchecked
  <2>5. OnePlace'
    BY <1>3, <1>5, <2>2 DEF OnePlace
  <2>6. \A t \in Task : t = Head(queue) => ~InQueue(t)' /\ ~InPool(t)
    <3> SUFFICES ASSUME NEW t \in Task, t = Head(queue)
                 PROVE  ~InQueue(t)' /\ ~InPool(t)
      OBVIOUS
    <3>1. t # Poison /\ Same(t, t)
      BY TaskIs DEF Same
    <3>2. ~InQueue(t)'
      BY <1>4, <3>1 DEF InQueue
    <3>3. ~InPool(t)
      BY <1>6, <3>1 DEF InPool
    <3> QED
      BY <3>2, <3>3
  <2> DEFINE D == {t \in Task : t = Head(queue)}
  <2>7. Dropping(D)
    BY <1>9, <2>3, <2>4, <2>6 DEF Dropping, InHand
  <2>8. \A t \in D : (abortEvent /\ lossy') \/ t.id \in Blocked
    <3> TAKE t \in D
    <3>1. t # Poison /\ t = Head(queue)
      BY TaskIs
    <3> QED
      BY <1>1, <1>11, <3>1
  <2>9. D # {} => (abortEvent /\ lossy') \/ \A t \in D : t.id \in Blocked
    BY <2>8
  <2> QED
    BY <1>7, <2>1, <2>5, <2>7, <2>9
<1> QED
  BY <1>10, <1>11

-----------------------------------------------------------------------------
(* Fetches and workers after a step *)

LEMMA FetchedIs ==
  ASSUME Typed, NEW c \in Calendars, NEW es, NEW ds, NEW next, Fetched(c, es, ds, next)
  PROVE  /\ fetch'[c].pc = "submitting" /\ fetch'[c].dels = ds /\ fetch'[c].next = next
         /\ fetch'[c].todo = {[cal |-> c, id |-> e, content |-> upstream[c][e].content] : e \in es}
         /\ \A d \in Calendars : d # c => fetch'[d] = fetch[d]
<1>1. fetch'[c] = [pc |-> "submitting", token |-> fetch[c].token,
                   todo |-> {[cal |-> c, id |-> e, content |-> upstream[c][e].content] : e \in es},
                   dels |-> ds, next |-> next]
  BY DEF Fetched, Typed
<1>2. \A d \in Calendars : d # c => fetch'[d] = fetch[d]
  BY DEF Fetched, Typed
<1> QED
  BY <1>1, <1>2

LEMMA PhaseIs ==
  ASSUME Typed, NEW c \in Calendars, NEW pc, fetch' = [fetch EXCEPT ![c].pc = pc]
  PROVE  /\ fetch'[c].pc = pc /\ fetch'[c].todo = fetch[c].todo
         /\ fetch'[c].dels = fetch[c].dels /\ fetch'[c].next = fetch[c].next
         /\ fetch'[c].token = fetch[c].token
         /\ \A d \in Calendars : d # c => fetch'[d] = fetch[d]
<1>1. fetch[c] \in FetchRecord
  BY DEF Typed
<1>2. fetch'[c] = [fetch[c] EXCEPT !.pc = pc] /\ \A d \in Calendars : d # c => fetch'[d] = fetch[d]
  BY DEF Typed
<1> QED
  BY <1>1, <1>2 DEF FetchRecord

LEMMA SubmitIs ==
  ASSUME Typed, NEW c \in Calendars, Submit(c)
  PROVE  \E task \in fetch[c].todo :
           /\ task \in Task
           /\ queue' = Append(queue, task) /\ submitted' = submitted \cup {task}
           /\ fetch'[c].todo = fetch[c].todo \ {task}
           /\ fetch'[c].pc = fetch[c].pc /\ fetch'[c].dels = fetch[c].dels
           /\ fetch'[c].next = fetch[c].next /\ fetch'[c].token = fetch[c].token
           /\ \A d \in Calendars : d # c => fetch'[d] = fetch[d]
<1> PICK task \in fetch[c].todo :
      /\ queue' = Append(queue, task) /\ submitted' = submitted \cup {task}
      /\ fetch' = [fetch EXCEPT ![c].todo = @ \ {task}]
  BY DEF Submit
<1>1. fetch[c] \in FetchRecord /\ task \in Task
  BY RecordsTyped DEF Typed
<1>2. fetch'[c] = [fetch[c] EXCEPT !.todo = fetch[c].todo \ {task}]
      /\ \A d \in Calendars : d # c => fetch'[d] = fetch[d]
  BY DEF Typed
<1> QED
  BY <1>1, <1>2 DEF FetchRecord

LEMMA StartIs ==
  ASSUME Typed, NEW mode \in Modes, StartSync(mode), NEW c \in Calendars
  PROVE  /\ fetch'[c].pc = "fetching" /\ fetch'[c].token = token'[c]
         /\ fetch'[c].todo = {} /\ fetch'[c].dels = {} /\ fetch'[c].next = NoToken
         /\ token'[c] = NoToken \/ token'[c] = token[c]
BY DEF StartSync, NoFetch, Typed

LEMMA PoolMoves ==
  ASSUME Typed, OnePlace, NEW w \in Workers, PoolStep(w)
  PROVE  /\ OnePlace'
         /\ \E D \in SUBSET Task :
              /\ Dropping(D)
              /\ \A t \in D : \/ t.id \in Blocked
                              \/ lossy' /\ (errors' \/ abortEvent' \/ t \notin submitted')
                              \/ Persist(w) /\ t = worker[w].task
         /\ \A t \in submitted : InHand(t)' \/ ~Unchecked(t) => t \in submitted'
         /\ submitted' \subseteq submitted
         /\ (errors => errors') /\ (lossy => lossy')
         /\ UNCHANGED <<upstream, clock, token, job, abortReq, abortEvent, fetch, pills,
                        result, hidden>>
         /\ \A v \in Workers : v # w => worker'[v] = worker[v]
         /\ Busy(w) \/ job # "idle"
<1>1. CASE Get(w)
  <2>1. UNCHANGED <<upstream, clock, token, job, abortReq, abortEvent, fetch, pills,
                    errors, result, submitted, hidden>>
        /\ (lossy => lossy') /\ job # "idle"
    BY <1>1 DEF Get, upVars
  <2> QED
    BY <1>1, <2>1, GetMoves
<1>2. ASSUME Busy(w), NEW r \in WorkerRecord, r.pc \in {"enriched", "decided"},
             r.task = worker[w].task, worker' = [worker EXCEPT ![w] = r],
             UNCHANGED <<upVars, token, row, job, abortReq, abortEvent, fetch, queue,
                         pills, errors, result, histVars>>
      PROVE  /\ OnePlace' /\ \E D \in SUBSET Task : D = {} /\ Dropping(D)
             /\ \A t \in submitted : InHand(t)' \/ ~Unchecked(t) => t \in submitted'
             /\ submitted' \subseteq submitted
             /\ (errors => errors') /\ (lossy => lossy')
             /\ UNCHANGED <<upstream, clock, token, job, abortReq, abortEvent, fetch, pills,
                            result, hidden>>
             /\ \A v \in Workers : v # w => worker'[v] = worker[v]
  BY <1>2, AdvanceMoves DEF upVars, histVars, Typed
<1>3. CASE Enrich(w)
  <2>1. Busy(w) /\ [worker[w] EXCEPT !.pc = "enriched"] \in WorkerRecord
        /\ [worker[w] EXCEPT !.pc = "enriched"].task = worker[w].task
        /\ [worker[w] EXCEPT !.pc = "enriched"].pc = "enriched"
    BY <1>3, WorkerIs DEF Enrich, WorkerRecord, Busy
  <2>2. worker' = [worker EXCEPT ![w] = [worker[w] EXCEPT !.pc = "enriched"]]
        /\ UNCHANGED <<upVars, token, row, job, abortReq, abortEvent, fetch, queue,
                       pills, errors, result, histVars>>
    BY <1>3 DEF Enrich, Typed
  <2>3. PICK r \in WorkerRecord : r = [worker[w] EXCEPT !.pc = "enriched"]
    BY <2>1
  <2> QED
    BY <1>2, <2>1, <2>2, <2>3
<1>4. CASE Decide(w)
  <2>1. PICK d \in Decision(worker[w].task) :
          worker' = [worker EXCEPT ![w] =
                      [pc |-> "decided", task |-> worker[w].task, plan |-> d]]
    BY <1>4 DEF Decide, Typed
  <2>2. Busy(w) /\ worker[w].task \in Task
    BY <1>4, WorkerIs DEF Decide, Busy
  <2>3. PICK t \in Task : t = worker[w].task
    BY <2>2
  <2>4. d \in Plans
    BY <2>3, DecisionIs
  <2>5. PICK r : r = [pc |-> "decided", task |-> t, plan |-> d]
    OBVIOUS
  <2>6. r \in WorkerRecord /\ r.pc = "decided" /\ r.task = worker[w].task
    BY <2>3, <2>4, <2>5 DEF WorkerRecord
  <2>7. UNCHANGED <<upVars, token, row, job, abortReq, abortEvent, fetch, queue,
                    pills, errors, result, histVars>>
        /\ worker' = [worker EXCEPT ![w] = r]
    BY <1>4, <2>1, <2>3, <2>5 DEF Decide
  <2> QED
    BY <1>2, <2>2, <2>6, <2>7
<1>5. ASSUME Busy(w), worker' = [worker EXCEPT ![w] = IdleWorker], queue' = queue,
             UNCHANGED <<upVars, token, job, abortReq, abortEvent, fetch, pills, result,
                         hidden>>,
             (errors => errors') /\ (lossy => lossy'),
             submitted' = submitted \/ (/\ submitted' = submitted \ {worker[w].task}
                                        /\ worker[w].pc = "taken"),
             Persist(w) \/ (lossy' /\ (errors' \/ abortEvent' \/ worker[w].task \notin submitted'))
      PROVE  /\ OnePlace' /\ Dropping({worker[w].task}) /\ worker[w].task \in Task
             /\ \A t \in submitted : InHand(t)' \/ ~Unchecked(t) => t \in submitted'
             /\ submitted' \subseteq submitted
             /\ \A v \in Workers : v # w => worker'[v] = worker[v]
  <2>1. /\ OnePlace' /\ Dropping({worker[w].task}) /\ worker[w].task \in Task
        /\ \A v \in Workers : v # w => worker'[v] = worker[v]
    BY <1>5, ReleaseMoves DEF Typed
  <2>2. ASSUME NEW t \in submitted, InHand(t)' \/ ~Unchecked(t)
        PROVE  t \in submitted'
    <3>1. t \in Task
      BY DEF Typed
    <3>2. InHand(t)' => t # worker[w].task
      BY <2>1, <3>1 DEF Dropping
    <3>3. ~Unchecked(t) /\ worker[w].pc = "taken" => t # worker[w].task
      BY DEF Unchecked
    <3> QED
      BY <1>5, <2>2, <3>2, <3>3
  <2> QED
    BY <1>5, <2>1, <2>2
<1>6. CASE PrecheckFails(w)
  <2>1. /\ Busy(w) /\ worker' = [worker EXCEPT ![w] = IdleWorker] /\ queue' = queue
        /\ UNCHANGED <<upVars, token, job, abortReq, abortEvent, fetch, pills, result,
                       hidden>>
        /\ (errors => errors') /\ lossy'
        /\ submitted' = submitted \ {worker[w].task} /\ worker[w].pc = "taken"
    BY <1>6 DEF PrecheckFails, Busy
  <2> QED
    BY <1>5, <2>1 DEF upVars
<1>7. CASE EnrichFails(w) \/ PersistFails(w)
  <2>1. /\ Busy(w) /\ worker' = [worker EXCEPT ![w] = IdleWorker] /\ queue' = queue
        /\ UNCHANGED <<upVars, token, job, abortReq, abortEvent, fetch, pills, result,
                       hidden>>
        /\ errors' /\ lossy' /\ submitted' = submitted
    BY <1>7 DEF EnrichFails, PersistFails, TaskFails, Busy
  <2> QED
    BY <1>5, <2>1 DEF upVars
<1>8. CASE AbortGate(w)
  <2>1. /\ Busy(w) /\ worker' = [worker EXCEPT ![w] = IdleWorker] /\ queue' = queue
        /\ UNCHANGED <<upVars, token, job, abortReq, abortEvent, fetch, pills, result,
                       hidden>>
        /\ (errors => errors') /\ lossy' /\ abortEvent' /\ submitted' = submitted
    BY <1>8 DEF AbortGate, Busy
  <2> QED
    BY <1>5, <2>1 DEF upVars
<1>9. CASE Persist(w)
  <2>1. /\ Busy(w) /\ worker' = [worker EXCEPT ![w] = IdleWorker] /\ queue' = queue
        /\ UNCHANGED <<upVars, token, job, abortReq, abortEvent, fetch, pills, result,
                       hidden>>
        /\ (errors => errors') /\ (lossy => lossy') /\ submitted' = submitted
    BY <1>9 DEF Persist, Busy
  <2> QED
    BY <1>5, <1>9, <2>1 DEF upVars
<1> QED
  BY <1>1, <1>3, <1>4, <1>6, <1>7, <1>8, <1>9 DEF PoolStep

-----------------------------------------------------------------------------
(* Phases of a job *)

LEMMA FetchRuns ==
  ASSUME Typed, JobPhases, NEW c \in Calendars, FetchStep(c)
  PROVE  /\ job = "fetching" /\ fetch[c].pc \in {"fetching", "submitting", "reconciled"}
         /\ UNCHANGED <<upstream, clock, job, abortReq, abortEvent, pills, worker, errors,
                        result, merged, lossy>>
<1>1. fetch[c].pc \in {"fetching", "submitting", "reconciled"}
  BY DEF FetchStep, FetchIncremental, ExpireToken, FetchFull, Submit, Reconcile,
         SaveToken, FetchFails
<1>2. UNCHANGED <<upstream, clock, job, abortReq, abortEvent, pills, worker, errors,
                  result, merged, lossy>>
  BY DEF FetchStep, FetchIncremental, ExpireToken, FetchFull, Submit, Reconcile,
         SaveToken, FetchFails, upVars, histVars
<1>3. fetch[c] # NoFetch
  BY <1>1 DEF NoFetch
<1>4. job \in {"idle", "fetching", "stopping"}
  BY DEF Typed
<1>5. job # "idle"
  BY <1>3 DEF JobPhases
<1>6. job # "stopping"
  BY <1>1 DEF JobPhases
<1> QED
  BY <1>1, <1>2, <1>4, <1>5, <1>6

LEMMA FetchPhases ==
  ASSUME Typed, JobPhases, NEW c \in Calendars, FetchStep(c)
  PROVE  JobPhases'
<1>1. /\ job = "fetching"
      /\ UNCHANGED <<job, abortReq, abortEvent>>
  BY FetchRuns
<1>2. /\ fetch'[c].pc # "submitting" => fetch'[c].todo = {}
      /\ \A d \in Calendars : d # c => fetch'[d] = fetch[d]
  <2>1. CASE FetchIncremental(c)
    BY <2>1, FetchedIs DEF FetchIncremental
  <2>2. CASE FetchFull(c)
    <3> PICK next \in NextTokens(c) : Fetched(c, Live(c), {}, next)
      BY <2>2 DEF FetchFull
    <3> QED
      BY FetchedIs
  <2>3. CASE ExpireToken(c)
    <3>1. fetch[c] \in FetchRecord
      BY DEF Typed
    <3>2. fetch'[c] = [fetch[c] EXCEPT !.token = NoToken]
          /\ \A d \in Calendars : d # c => fetch'[d] = fetch[d]
      BY <2>3 DEF ExpireToken, Typed
    <3>3. fetch'[c].pc = fetch[c].pc /\ fetch'[c].todo = fetch[c].todo
      BY <3>1, <3>2 DEF FetchRecord
    <3> QED
      BY <3>2, <3>3 DEF JobPhases
  <2>4. CASE Submit(c)
    BY <2>4, SubmitIs DEF Submit
  <2>5. CASE Reconcile(c)
    BY <2>5, PhaseIs DEF Reconcile
  <2>6. CASE SaveToken(c)
    BY <2>6, PhaseIs DEF SaveToken, JobPhases
  <2>7. CASE FetchFails(c)
    BY <2>7, PhaseIs DEF FetchFails, JobPhases
  <2> QED
    BY <2>1, <2>2, <2>3, <2>4, <2>5, <2>6, <2>7 DEF FetchStep
<1> QED
  BY <1>1, <1>2 DEF JobPhases

\* What a job's start, a crash and the end of a job leave: nothing in hand.
LEMMA IdleMoves ==
  ASSUME Typed, HandInv, (\E mode \in Modes : StartSync(mode)) \/ Finish \/ Crash
  PROVE  /\ queue' = <<>> /\ \A w \in Workers : ~Busy(w)'
         /\ \A c \in Calendars : fetch'[c].todo = {} /\ fetch'[c].next = NoToken
                                 /\ fetch'[c].pc \in {"off", "fetching"}
         /\ job' = "idle" => \A c \in Calendars : fetch'[c] = NoFetch
         /\ pills' = 0
         /\ UNCHANGED <<upstream, clock, row, merged, hidden>>
<1>1. ASSUME NEW mode \in Modes, StartSync(mode)
      PROVE  /\ queue' = <<>> /\ \A w \in Workers : ~Busy(w)'
             /\ \A c \in Calendars : fetch'[c].todo = {} /\ fetch'[c].next = NoToken
                                     /\ fetch'[c].pc \in {"off", "fetching"}
             /\ job' # "idle"
             /\ pills' = 0
             /\ UNCHANGED <<upstream, clock, row, merged, hidden>>
  BY <1>1, StartIs DEF StartSync, HandInv, JobPhases, Busy, IdleWorker, upVars
<1>2. CASE Finish
  BY <1>2 DEF Finish, Busy, NoFetch, upVars, histVars, Typed
<1>3. CASE Crash
  BY <1>3 DEF Crash, Busy, NoFetch, IdleWorker, upVars
<1> QED
  BY <1>1, <1>2, <1>3

LEMMA PhasesNext ==
  ASSUME Typed, HandInv, [Next]_vars
  PROVE  JobPhases'
<1>1. CASE UNCHANGED vars
  BY <1>1 DEF HandInv, JobPhases, Busy, vars, upVars, histVars
<1>2. CASE RequestAbort
  BY <1>2 DEF HandInv, JobPhases, Busy, RequestAbort, upVars, histVars
<1>3. CASE BeginStop
  BY <1>3 DEF HandInv, JobPhases, Busy, BeginStop, upVars, histVars
<1>4. CASE PutPill
  BY <1>4 DEF HandInv, JobPhases, Busy, PutPill, upVars, histVars
<1>5. CASE (\E mode \in Modes : StartSync(mode)) \/ Finish \/ Crash
  <2>0. ASSUME NEW mode \in Modes, StartSync(mode)
        PROVE  job' = "fetching" /\ ~abortEvent'
    BY <2>0 DEF StartSync
  <2>3. Finish \/ Crash => /\ job' = "idle"
                           /\ (abortEvent' => abortEvent) /\ (abortReq => abortReq')
    BY DEF Finish, Crash
  <2>4. abortEvent => abortReq
    BY DEF HandInv, JobPhases
  <2>1. job' \in {"idle", "fetching"} /\ (abortEvent' => abortReq')
    BY <1>5, <2>0, <2>3, <2>4
  <2> QED
    BY <1>5, <2>1, IdleMoves DEF JobPhases, NoFetch
<1>6. ASSUME NEW c \in Calendars, NEW e \in Carries[c], Edit(c, e) \/ Cancel(c, e)
      PROVE  JobPhases'
  <2>1. UNCHANGED <<job, abortReq, abortEvent, fetch, queue, pills, worker>>
    BY <1>6 DEF Edit, Cancel, UpstreamChange
  <2> QED
    BY <2>1 DEF HandInv, JobPhases, Busy
<1>7. ASSUME NEW c \in Calendars, FetchStep(c)
      PROVE  JobPhases'
  BY <1>7, FetchPhases DEF HandInv
<1>8. ASSUME NEW w \in Workers, PoolStep(w)
      PROVE  JobPhases'
  <2>1. UNCHANGED <<job, abortReq, abortEvent, fetch, pills>> /\ (Busy(w) \/ job # "idle")
    BY <1>8, PoolMoves DEF HandInv
  <2> QED
    BY <2>1 DEF HandInv, JobPhases
<1> QED
  BY <1>1, <1>2, <1>3, <1>4, <1>5, <1>6, <1>7, <1>8 DEF Next

-----------------------------------------------------------------------------
(* Each task is in one place *)

LEMMA PlacesNext ==
  ASSUME Typed, HandInv, [Next]_vars
  PROVE  OnePlace'
<1>1. CASE UNCHANGED <<queue, worker>>
  BY <1>1, StillMoves DEF HandInv
<1>2. CASE PutPill
  BY <1>2, PillMoves DEF PutPill, HandInv
<1>3. CASE (\E mode \in Modes : StartSync(mode)) \/ Finish \/ Crash
  BY <1>3, IdleMoves, ClearMoves
<1>4. ASSUME NEW c \in Calendars, FetchStep(c)
      PROVE  OnePlace'
  <2>1. CASE Submit(c)
    <3>1. PICK task \in fetch[c].todo :
            task \in Task /\ queue' = Append(queue, task)
      BY <2>1, SubmitIs
    <3>2. worker' = worker
      BY <2>1 DEF Submit
    <3>3. \A u \in submitted : ~Same(task, u)
      BY DEF HandInv, SubmittedOnce
    <3>4. \A t \in Task : InHand(t) => t \in submitted
      BY DEF HandInv, SubmittedOnce
    <3> QED
      BY <3>1, <3>2, <3>3, <3>4, SubmitMoves DEF HandInv
  <2>2. ~Submit(c) => UNCHANGED <<queue, worker>>
    BY <1>4 DEF FetchStep, FetchIncremental, ExpireToken, FetchFull, Reconcile,
                SaveToken, FetchFails
  <2> QED
    BY <1>1, <2>1, <2>2
<1>5. ASSUME NEW w \in Workers, PoolStep(w)
      PROVE  OnePlace'
  BY <1>5, PoolMoves DEF HandInv
<1>6. ASSUME NEW c \in Calendars, NEW e \in Carries[c], Edit(c, e) \/ Cancel(c, e)
      PROVE  UNCHANGED <<queue, worker>>
  BY <1>6 DEF Edit, Cancel, UpstreamChange
<1>7. UNCHANGED vars \/ RequestAbort \/ BeginStop => UNCHANGED <<queue, worker>>
  BY DEF vars, RequestAbort, BeginStop
<1> QED
  BY <1>1, <1>2, <1>3, <1>4, <1>5, <1>6, <1>7 DEF Next

LEMMA SubmittedKeeps ==
  ASSUME Typed, SubmittedOnce, UNCHANGED fetch, submitted' \subseteq submitted,
         \A t \in Task : InHand(t)' => InHand(t) /\ t \in submitted'
  PROVE  SubmittedOnce'
BY DEF SubmittedOnce

LEMMA FetchSubmits ==
  ASSUME Typed, HandInv, NEW c \in Calendars, FetchStep(c)
  PROVE  SubmittedOnce'
<1>0. SubmittedOnce
  BY DEF HandInv
<1>1. ASSUME ~Submit(c),
             fetch'[c].pc = "fetching" => fetch[c].pc = "fetching",
             \A d \in Calendars : d # c => fetch'[d] = fetch[d],
             \A t \in fetch'[c].todo :
               /\ t.cal = c /\ t.id \in Carries[c]
               /\ \A u \in fetch'[c].todo : Same(t, u) => t = u
               /\ \A u \in submitted : ~Same(t, u)
      PROVE  SubmittedOnce'
  <2>1. UNCHANGED <<queue, worker, submitted>>
    BY <1>1 DEF FetchStep, FetchIncremental, ExpireToken, FetchFull, Reconcile,
                SaveToken, FetchFails, histVars
  <2>2. Dropping({})
    BY <2>1, StillMoves
  <2>3. \A t \in Task : InHand(t)' => t \in submitted' /\ t.id \in Carries[t.cal]
    BY <1>0, <2>1, <2>2 DEF SubmittedOnce, Dropping
  <2>4. \A d \in Calendars : \A t \in fetch'[d].todo :
          /\ t.cal = d /\ t.id \in Carries[d]
          /\ \A u \in fetch'[d].todo : Same(t, u) => t = u
          /\ \A u \in submitted' : ~Same(t, u)
    <3> TAKE d \in Calendars
    <3>1. CASE d = c
      BY <1>1, <2>1, <3>1
    <3>2. CASE d # c
      BY <1>0, <1>1, <2>1, <3>2 DEF SubmittedOnce
    <3> QED
      BY <3>1, <3>2
  <2>5. \A d \in Calendars : fetch'[d].pc = "fetching" => \A u \in submitted' : u.cal # d
    BY <1>0, <1>1, <2>1 DEF SubmittedOnce
  <2> QED
    BY <2>3, <2>4, <2>5 DEF SubmittedOnce
<1>2. ASSUME NEW es, es \subseteq Carries[c], NEW ds, NEW next, Fetched(c, es, ds, next),
             fetch[c].pc = "fetching", ~Submit(c)
      PROVE  SubmittedOnce'
  <2>1. \A t \in fetch'[c].todo : \E e \in es :
          t = [cal |-> c, id |-> e, content |-> upstream[c][e].content]
    BY <1>2, FetchedIs
  <2>2. \A t \in fetch'[c].todo :
          /\ t.cal = c /\ t.id \in Carries[c]
          /\ \A u \in fetch'[c].todo : Same(t, u) => t = u
          /\ \A u \in submitted : ~Same(t, u)
    <3> TAKE t \in fetch'[c].todo
    <3>1. PICK e \in es : t = [cal |-> c, id |-> e, content |-> upstream[c][e].content]
      BY <2>1
    <3>2. t.cal = c /\ t.id = e
      BY <3>1
    <3>3. \A u \in fetch'[c].todo : Same(t, u) => t = u
      <4> SUFFICES ASSUME NEW u \in fetch'[c].todo, Same(t, u)
                   PROVE  t = u
        OBVIOUS
      <4>1. PICK g \in es : u = [cal |-> c, id |-> g, content |-> upstream[c][g].content]
        BY <2>1
      <4>2. u.id = g
        BY <4>1
      <4> QED
        BY <3>1, <3>2, <4>1, <4>2 DEF Same
    <3>4. \A u \in submitted : ~Same(t, u)
      BY <1>0, <1>2, <3>2 DEF Same, SubmittedOnce
    <3> QED
      BY <1>2, <3>2, <3>3, <3>4
  <2>3. fetch'[c].pc = "submitting" /\ \A d \in Calendars : d # c => fetch'[d] = fetch[d]
    BY <1>2, FetchedIs
  <2> QED
    BY <1>1, <1>2, <2>2, <2>3
<1>3. ASSUME NEW pc, pc # "fetching", fetch' = [fetch EXCEPT ![c].pc = pc], ~Submit(c)
      PROVE  SubmittedOnce'
  <2>1. /\ fetch'[c].pc # "fetching" /\ fetch'[c].todo = fetch[c].todo
        /\ \A d \in Calendars : d # c => fetch'[d] = fetch[d]
    BY <1>3, PhaseIs
  <2> QED
    BY <1>0, <1>1, <1>3, <2>1 DEF SubmittedOnce
<1>4. CASE Submit(c)
  <2>1. PICK task \in fetch[c].todo :
           /\ task \in Task
           /\ queue' = Append(queue, task) /\ submitted' = submitted \cup {task}
           /\ fetch'[c].todo = fetch[c].todo \ {task}
           /\ fetch'[c].pc = fetch[c].pc
           /\ \A d \in Calendars : d # c => fetch'[d] = fetch[d]
    BY <1>4, SubmitIs
  <2>2. worker' = worker /\ fetch[c].pc = "submitting"
    BY <1>4 DEF Submit
  <2>3. \A t \in Task : InHand(t) => t \in submitted
    BY <1>0 DEF SubmittedOnce
  <2>4. /\ task.cal = c /\ task.id \in Carries[c] /\ \A u \in submitted : ~Same(task, u)
        /\ \A u \in fetch[c].todo : Same(task, u) => u = task
    BY <1>0 DEF SubmittedOnce
  <2>5. \A t \in Task : InHand(t)' <=> InHand(t) \/ t = task
    BY <2>1, <2>2, <2>3, <2>4, SubmitMoves DEF HandInv
  <2>6. \A t \in Task : InHand(t)' => t \in submitted' /\ t.id \in Carries[t.cal]
    BY <1>0, <2>1, <2>4, <2>5 DEF SubmittedOnce
  <2>7. \A d \in Calendars : \A t \in fetch'[d].todo :
          /\ t.cal = d /\ t.id \in Carries[d]
          /\ \A u \in fetch'[d].todo : Same(t, u) => t = u
          /\ \A u \in submitted' : ~Same(t, u)
    <3> TAKE d \in Calendars
    <3> TAKE t \in fetch'[d].todo
    <3>1. t \in fetch[d].todo /\ fetch'[d].todo \subseteq fetch[d].todo
          /\ (d = c => t # task)
      BY <2>1
    <3>2. ~Same(t, task)
      BY <1>0, <2>4, <3>1 DEF Same, SubmittedOnce
    <3> QED
      BY <1>0, <2>1, <3>1, <3>2 DEF SubmittedOnce
  <2>8. \A d \in Calendars : fetch'[d].pc = "fetching" => \A u \in submitted' : u.cal # d
    BY <1>0, <2>1, <2>2, <2>4 DEF SubmittedOnce
  <2> QED
    BY <2>6, <2>7, <2>8 DEF SubmittedOnce
<1>5. CASE FetchIncremental(c) /\ ~Submit(c)
  <2>1. /\ Fetched(c, Changed(c, fetch[c].token) \cap Live(c),
                  Changed(c, fetch[c].token) \ Live(c), clock[c])
        /\ fetch[c].pc = "fetching"
    BY <1>5 DEF FetchIncremental
  <2> PICK es : es = Changed(c, fetch[c].token) \cap Live(c)
    OBVIOUS
  <2> PICK ds : ds = Changed(c, fetch[c].token) \ Live(c)
    OBVIOUS
  <2> PICK next : next = clock[c]
    OBVIOUS
  <2>2. es \subseteq Carries[c]
    BY DEF Live
  <2>3. Fetched(c, es, ds, next)
    BY <2>1
  <2> QED
    BY <1>2, <1>5, <2>1, <2>2, <2>3
<1>6. CASE FetchFull(c) /\ ~Submit(c)
  <2>1. PICK next \in NextTokens(c) : Fetched(c, Live(c), {}, next)
    BY <1>6 DEF FetchFull
  <2> PICK es : es = Live(c)
    OBVIOUS
  <2>2. es \subseteq Carries[c] /\ fetch[c].pc = "fetching"
    BY <1>6 DEF Live, FetchFull
  <2> QED
    BY <1>2, <1>6, <2>1, <2>2
<1>7. CASE ExpireToken(c) /\ ~Submit(c)
  <2>1. fetch[c] \in FetchRecord
    BY DEF Typed
  <2>2. fetch'[c] = [fetch[c] EXCEPT !.token = NoToken]
        /\ \A d \in Calendars : d # c => fetch'[d] = fetch[d]
    BY <1>7 DEF ExpireToken, Typed
  <2>3. fetch'[c].pc = fetch[c].pc /\ fetch'[c].todo = fetch[c].todo
    BY <2>1, <2>2 DEF FetchRecord
  <2> QED
    BY <1>0, <1>1, <1>7, <2>2, <2>3 DEF SubmittedOnce
<1>8. CASE (Reconcile(c) \/ SaveToken(c) \/ FetchFails(c)) /\ ~Submit(c)
  BY <1>3, <1>8 DEF Reconcile, SaveToken, FetchFails
<1> QED
  BY <1>4, <1>5, <1>6, <1>7, <1>8 DEF FetchStep

LEMMA SubmittedNext ==
  ASSUME Typed, HandInv, [Next]_vars
  PROVE  SubmittedOnce'
<1>0. SubmittedOnce
  BY DEF HandInv
<1>1. ASSUME Dropping({}), UNCHANGED <<fetch, submitted>>
      PROVE  SubmittedOnce'
  BY <1>0, <1>1 DEF SubmittedOnce, Dropping
<1>2. CASE PutPill
  <2>1. Dropping({}) /\ UNCHANGED <<fetch, submitted>>
    BY <1>2, PillMoves DEF PutPill, HandInv, histVars
  <2> QED
    BY <1>1, <2>1
<1>3. CASE (\E mode \in Modes : StartSync(mode)) \/ Finish \/ Crash
  <2>1. \A t \in Task : ~InHand(t)'
    BY <1>3, IdleMoves, ClearMoves
  <2>2. \A c \in Calendars : fetch'[c].todo = {}
    BY <1>3, IdleMoves
  <2>4. ASSUME NEW mode \in Modes, StartSync(mode)
        PROVE  submitted' = {}
    BY <2>4 DEF StartSync
  <2>3. \A c \in Calendars : fetch'[c].pc = "fetching" => submitted' = {}
    BY <1>3, <2>4 DEF Finish, Crash, NoFetch
  <2> QED
    BY <2>1, <2>2, <2>3 DEF SubmittedOnce
<1>4. ASSUME NEW c \in Calendars, FetchStep(c)
      PROVE  SubmittedOnce'
  BY <1>4, FetchSubmits
<1>5. ASSUME NEW w \in Workers, PoolStep(w)
      PROVE  SubmittedOnce'
  <2>1. /\ \E D \in SUBSET Task : Dropping(D)
        /\ \A t \in submitted : InHand(t)' => t \in submitted'
        /\ submitted' \subseteq submitted /\ fetch' = fetch
    BY <1>5, PoolMoves DEF HandInv
  <2>2. \A t \in Task : InHand(t)' => InHand(t)
    BY <2>1 DEF Dropping
  <2>3. \A t \in Task : InHand(t)' => InHand(t) /\ t \in submitted'
    BY <1>0, <2>1, <2>2 DEF SubmittedOnce
  <2> QED
    BY <1>0, <2>1, <2>3, SubmittedKeeps
<1>6. CASE UNCHANGED <<queue, worker, fetch, submitted>>
  BY <1>1, <1>6, StillMoves
<1>7. ASSUME NEW c \in Calendars, NEW e \in Carries[c], Edit(c, e) \/ Cancel(c, e)
      PROVE  UNCHANGED <<queue, worker, fetch, submitted>>
  BY <1>7 DEF Edit, Cancel, UpstreamChange
<1>8. UNCHANGED vars \/ RequestAbort \/ BeginStop => UNCHANGED <<queue, worker, fetch, submitted>>
  BY DEF vars, RequestAbort, BeginStop, histVars
<1> QED
  BY <1>2, <1>3, <1>4, <1>5, <1>6, <1>7, <1>8 DEF Next

-----------------------------------------------------------------------------
(* What becomes of the rows, and of what was decided about them *)

LEMMA ReconcileRow ==
  ASSUME Typed, NEW c \in Calendars, Reconcile(c), NEW e \in Events
  PROVE  /\ row'[e].present = row[e].present
         /\ row[e].present => /\ row'[e].content = row[e].content
                              /\ row[e].gone \/ e \in fetch[c].dels => row'[e].gone
<1>1. row'[e] = IF e \in fetch[c].dels /\ row[e].present
                THEN [row[e] EXCEPT !.gone = TRUE] ELSE row[e]
  BY DEF Reconcile
<1>2. row[e].present => row[e] \in RowRecord
  BY RowIs
<1> QED
  BY <1>1, <1>2 DEF RowRecord

\* Only two steps write rows, and neither loses one.
LEMMA RowsNext ==
  ASSUME Typed, HandInv, [Next]_vars
  PROVE  /\ \A e \in Events : row[e].present => row'[e].present
         /\ \/ UNCHANGED row
            \/ \E c \in Calendars : Reconcile(c)
            \/ \E w \in Workers : Persist(w)
<1>1. ASSUME NEW w \in Workers, Persist(w)
      PROVE  \A e \in Events : row[e].present => row'[e].present
  <2>1. worker[w].plan.target \in Events
    BY <1>1, PersistRow DEF HandInv, Plans
  <2> QED
    BY <1>1, <2>1, PersistRow DEF HandInv
<1>2. ASSUME NEW c \in Calendars, Reconcile(c)
      PROVE  \A e \in Events : row[e].present => row'[e].present
  BY <1>2, ReconcileRow
<1>3. ASSUME NEW c \in Calendars, FetchStep(c), ~Reconcile(c)
      PROVE  UNCHANGED row
  BY <1>3 DEF FetchStep, FetchIncremental, ExpireToken, FetchFull, Submit,
              SaveToken, FetchFails
<1>4. ASSUME NEW w \in Workers, PoolStep(w), ~Persist(w)
      PROVE  UNCHANGED row
  BY <1>4 DEF PoolStep, Get, Enrich, PrecheckFails, EnrichFails, TaskFails, AbortGate,
              Decide, PersistFails
<1>5. ASSUME NEW c \in Calendars, NEW e \in Carries[c], Edit(c, e) \/ Cancel(c, e)
      PROVE  UNCHANGED row
  BY <1>5 DEF Edit, Cancel, UpstreamChange
<1>6. (\E mode \in Modes : StartSync(mode)) \/ Finish \/ Crash => UNCHANGED row
  BY IdleMoves
<1>7. UNCHANGED vars \/ RequestAbort \/ BeginStop \/ PutPill => UNCHANGED row
  BY DEF vars, RequestAbort, BeginStop, PutPill
<1>8. \/ UNCHANGED row
      \/ \E c \in Calendars : Reconcile(c)
      \/ \E w \in Workers : Persist(w)
  BY <1>3, <1>4, <1>5, <1>6, <1>7 DEF Next
<1> QED
  BY <1>1, <1>2, <1>8

LEMMA DecidedNext ==
  ASSUME Typed, HandInv, [Next]_vars, NEW v \in Workers, worker'[v].pc = "decided"
  PROVE  worker'[v] = worker[v] \/ (Decide(v) /\ UNCHANGED <<row, submitted>>)
<1>1. ASSUME NEW w \in Workers, PoolStep(w), ~Decide(w), v = w
      PROVE  FALSE
  <2>1. ASSUME worker' = [worker EXCEPT ![w] = IdleWorker] PROVE FALSE
    BY <1>1, <2>1 DEF Typed, IdleWorker
  <2>2. CASE Get(w)
    BY <1>1, <2>2, GetMoves DEF HandInv
  <2>3. CASE Enrich(w)
    <3>1. worker[w] \in WorkerRecord /\ worker[w].pc = "taken"
          /\ worker'[w] = [worker[w] EXCEPT !.pc = "enriched"]
      BY <2>3 DEF Enrich, Typed
    <3>2. worker'[w].pc = "enriched"
      BY <3>1 DEF WorkerRecord
    <3> QED
      BY <1>1, <3>2
  <2> QED
    BY <1>1, <2>1, <2>2, <2>3 DEF PoolStep, PrecheckFails, EnrichFails, TaskFails,
         AbortGate, Persist, PersistFails
<1>2. ASSUME NEW w \in Workers, PoolStep(w)
      PROVE  worker'[v] = worker[v] \/ Decide(v)
  <2>1. v # w => worker'[v] = worker[v]
    BY <1>2, PoolMoves DEF HandInv
  <2> QED
    BY <1>1, <1>2, <2>1
<1>3. ASSUME (\E mode \in Modes : StartSync(mode)) \/ Finish \/ Crash
      PROVE  FALSE
  BY <1>3, IdleMoves DEF Busy
<1>4. ASSUME NEW c \in Calendars, FetchStep(c)
      PROVE  UNCHANGED worker
  BY <1>4, FetchRuns DEF HandInv
<1>5. ASSUME NEW c \in Calendars, NEW e \in Carries[c], Edit(c, e) \/ Cancel(c, e)
      PROVE  UNCHANGED worker
  BY <1>5 DEF Edit, Cancel, UpstreamChange
<1>6. UNCHANGED vars \/ RequestAbort \/ BeginStop \/ PutPill => UNCHANGED worker
  BY DEF vars, RequestAbort, BeginStop, PutPill
<1>7. Decide(v) => UNCHANGED <<row, submitted>>
  BY DEF Decide, histVars
<1> QED
  BY <1>2, <1>3, <1>4, <1>5, <1>6, <1>7 DEF Next

LEMMA DecideIs ==
  ASSUME Typed, NEW w \in Workers, Decide(w)
  PROVE  /\ worker[w].pc = "enriched" /\ worker[w].task \in Task
         /\ worker'[w].task = worker[w].task /\ worker'[w].plan \in Plans
         /\ worker'[w].plan.action # "deduped" =>
              worker'[w].plan.target = worker[w].task.id
         /\ worker'[w].plan.action \in {"unchanged", "deduped"} =>
              row[worker'[w].plan.target].present
         /\ worker'[w].plan.action = "unchanged" =>
              row[worker[w].task.id].content.hash = worker[w].task.content.hash
<1>1. PICK d \in Decision(worker[w].task) :
        worker' = [worker EXCEPT ![w] =
                    [pc |-> "decided", task |-> worker[w].task, plan |-> d]]
  BY DEF Decide, Typed
<1>2. worker[w].pc = "enriched" /\ worker[w].task \in Task
  BY WorkerIs DEF Decide, Busy
<1>3. PICK t \in Task : t = worker[w].task
  BY <1>2
<1>4. /\ d \in Plans
      /\ d.action # "deduped" => d.target = t.id
      /\ d.action \in {"unchanged", "deduped"} => row[d.target].present
      /\ d.action = "unchanged" => row[t.id].content.hash = t.content.hash
  BY <1>3, DecisionIs
<1>5. worker'[w] = [pc |-> "decided", task |-> t, plan |-> d]
  BY <1>1, <1>3 DEF Typed
<1>6. worker'[w].task = t /\ worker'[w].plan = d
  BY <1>5
<1> QED
  BY <1>2, <1>3, <1>4, <1>6

LEMMA PlansNext ==
  ASSUME Typed, HandInv, [Next]_vars
  PROVE  PlansFit'
<1> SUFFICES ASSUME NEW v \in Workers, worker'[v].pc = "decided"
             PROVE  LET d == worker'[v].plan IN
                    /\ d.action # "deduped" => d.target = worker'[v].task.id
                    /\ d.action \in {"unchanged", "deduped"} => row'[d.target].present
  BY DEF PlansFit
<1>1. \A e \in Events : row[e].present => row'[e].present
  BY RowsNext
<1>2. CASE worker'[v] = worker[v]
  <2>1. worker[v].plan.target \in Events
    BY <1>2, WorkerIs DEF Plans
  <2> QED
    BY <1>1, <1>2, <2>1 DEF HandInv, PlansFit
<1>3. CASE Decide(v) /\ UNCHANGED <<row, submitted>>
  BY <1>3, DecideIs
<1> QED
  BY <1>2, <1>3, DecidedNext

LEMMA HandNext ==
  ASSUME Typed, HandInv, [Next]_vars
  PROVE  HandInv'
BY PhasesNext, SubmittedNext, PlacesNext, PlansNext DEF HandInv

-----------------------------------------------------------------------------
(* Every task is accounted for *)

Starts == \E mode \in Modes : StartSync(mode)

LEMMA UncheckedIsInHand ==
  \A t : Unchecked(t) => InHand(t)
BY DEF Unchecked, InHand, InPool, Busy

LEMMA PersistIs ==
  ASSUME Typed, HandInv, NEW w \in Workers, Persist(w)
  PROVE  /\ worker[w].task \in Task /\ worker[w].task \in submitted
         /\ submitted' = submitted
         /\ \A t \in Task : t = worker[w].task => ~InHand(t)' /\ ~Unchecked(t)'
         /\ merged' = IF worker[w].plan.action = "deduped"
                      THEN merged \cup {worker[w].task.id}
                      ELSE merged \ {worker[w].task.id}
         /\ worker[w].plan.action \in {"new", "updated", "unchanged", "deduped"}
         /\ worker[w].plan.target \in Events
<1>1. /\ Busy(w) /\ worker' = [worker EXCEPT ![w] = IdleWorker] /\ queue' = queue
      /\ submitted' = submitted /\ worker[w].pc = "decided"
      /\ merged' = IF worker[w].plan.action = "deduped"
                   THEN merged \cup {worker[w].task.id}
                   ELSE merged \ {worker[w].task.id}
  BY DEF Persist, Busy
<1>2. PICK t \in Task : t = worker[w].task
  BY <1>1, WorkerIs
<1>3. InHand(t) /\ Dropping({t})
  BY <1>1, <1>2, ReleaseMoves DEF HandInv
<1>4. ~InHand(t)'
  BY <1>3 DEF Dropping
<1>5. ~Unchecked(t)'
  BY <1>4 DEF Unchecked, InHand, InPool, Busy
<1>6. t \in submitted
  BY <1>3 DEF HandInv, SubmittedOnce
<1>7. \A u \in Task : u = worker[w].task => ~InHand(u)' /\ ~Unchecked(u)'
  BY <1>2, <1>4, <1>5
<1>8. worker[w].plan \in Plans
  BY <1>1, WorkerIs
<1> QED
  BY <1>1, <1>2, <1>6, <1>7, <1>8 DEF Plans

LEMMA WitnessStays ==
  ASSUME Typed, HandInv, [Next]_vars, ~Starts, NEW u \in submitted, ~Unchecked(u)
  PROVE  u \in submitted' /\ ~Unchecked(u)'
<1>0. u \in Task
  BY DEF Typed
<1>1. CASE UNCHANGED <<queue, worker, submitted>>
  BY <1>0, <1>1, StillMoves DEF Dropping
<1>2. CASE PutPill
  BY <1>0, <1>2, PillMoves DEF PutPill, HandInv, histVars, Dropping
<1>3. CASE Finish \/ Crash
  <2>1. \A t \in Task : ~Unchecked(t)'
    BY <1>3, IdleMoves, ClearMoves
  <2>2. submitted' = submitted
    BY <1>3 DEF Finish, Crash, histVars
  <2> QED
    BY <1>0, <2>1, <2>2
<1>4. ASSUME NEW c \in Calendars, Submit(c)
      PROVE  u \in submitted' /\ ~Unchecked(u)'
  <2>1. PICK task \in fetch[c].todo :
           /\ task \in Task
           /\ queue' = Append(queue, task) /\ submitted' = submitted \cup {task}
    BY <1>4, SubmitIs
  <2>2. worker' = worker
    BY <1>4 DEF Submit
  <2>3. \A t \in Task : InHand(t) => t \in submitted
    BY DEF HandInv, SubmittedOnce
  <2>4. \A t \in submitted : ~Same(task, t)
    BY DEF HandInv, SubmittedOnce
  <2>5. Unchecked(u)' => Unchecked(u) \/ u = task
    BY <1>0, <2>1, <2>2, <2>3, <2>4, SubmitMoves DEF HandInv
  <2>6. u # task
    BY <2>4 DEF Same
  <2> QED
    BY <2>1, <2>5, <2>6
<1>5. ASSUME NEW c \in Calendars, FetchStep(c), ~Submit(c)
      PROVE  UNCHANGED <<queue, worker, submitted>>
  BY <1>5 DEF FetchStep, FetchIncremental, ExpireToken, FetchFull, Reconcile,
              SaveToken, FetchFails, histVars
<1>6. ASSUME NEW w \in Workers, PoolStep(w)
      PROVE  u \in submitted' /\ ~Unchecked(u)'
  BY <1>0, <1>6, PoolMoves DEF HandInv, Dropping
<1>7. ASSUME NEW c \in Calendars, NEW e \in Carries[c], Edit(c, e) \/ Cancel(c, e)
      PROVE  UNCHANGED <<queue, worker, submitted>>
  BY <1>7 DEF Edit, Cancel, UpstreamChange
<1>8. UNCHANGED vars \/ RequestAbort \/ BeginStop => UNCHANGED <<queue, worker, submitted>>
  BY DEF vars, RequestAbort, BeginStop, histVars
<1> QED
  BY <1>1, <1>2, <1>3, <1>4, <1>5, <1>6, <1>7, <1>8 DEF Next, Starts

LEMMA KeptStays ==
  ASSUME Typed, HandInv, [Next]_vars, ~Starts, NEW e \in Events, Kept(e)
  PROVE  Kept(e)'
<1> PICK u \in submitted : /\ u.id = e /\ ~Unchecked(u)
                           /\ u.content.hash = row[e].content.hash
  BY DEF Kept
<1>1. u \in submitted' /\ ~Unchecked(u)'
  BY WitnessStays
<1>2. row[e].present /\ row'[e].present
  BY RowsNext DEF Kept
<1>3. CASE row'[e].content = row[e].content
  BY <1>1, <1>2, <1>3 DEF Kept
<1>4. ASSUME NEW c \in Calendars, Reconcile(c)
      PROVE  row'[e].content = row[e].content
  BY <1>2, <1>4, ReconcileRow
<1>5. ASSUME NEW w \in Workers, Persist(w)
      PROVE  Kept(e)'
  <2>1. CASE e # worker[w].plan.target \/ worker[w].plan.action \in {"unchanged", "deduped"}
    BY <1>3, <1>5, <2>1, PersistRow DEF HandInv
  <2>2. CASE e = worker[w].plan.target /\ worker[w].plan.action \in {"new", "updated"}
    <3>1. PICK t \in Task : t = worker[w].task
      BY <1>5, PersistIs
    <3>2. row'[e].content = t.content /\ e = t.id
      BY <1>5, <2>2, <3>1, PersistRow DEF HandInv
    <3>3. t \in submitted' /\ ~Unchecked(t)'
      BY <1>5, <3>1, PersistIs
    <3> QED
      BY <1>2, <3>2, <3>3 DEF Kept
  <2> QED
    BY <1>5, <2>1, <2>2, PersistIs
<1> QED
  BY <1>3, <1>4, <1>5, RowsNext

\* A commit leaves its task merged or kept.
LEMMA PersistKeeps ==
  ASSUME Typed, HandInv, AccountInv, [Next]_vars, ~Starts, NEW w \in Workers, Persist(w)
  PROVE  worker[w].task.id \in merged' \/ \E e \in Events : e = worker[w].task.id /\ Kept(e)'
<1>1. PICK t \in Task : t = worker[w].task
  BY PersistIs
<1>2. t.id \in Events
  BY TaskIs
<1>3. CASE worker[w].plan.action = "deduped"
  BY <1>3, PersistIs
<1>4. CASE worker[w].plan.action \in {"new", "updated"}
  <2>1. row'[t.id].present /\ row'[t.id].content = t.content
    BY <1>1, <1>4, PersistRow DEF HandInv
  <2>2. t \in submitted' /\ ~Unchecked(t)'
    BY <1>1, PersistIs
  <2>3. Kept(t.id)'
    BY <2>1, <2>2 DEF Kept
  <2> QED
    BY <1>1, <1>2, <2>3
<1>5. CASE worker[w].plan.action = "unchanged"
  <2>1. worker[w].pc = "decided"
    BY DEF Persist
  <2>2. PICK e \in Events : e = t.id
    BY <1>2
  <2>3. Kept(e)
    BY <1>1, <1>5, <2>1, <2>2 DEF AccountInv
  <2>4. Kept(e)'
    BY <2>3, KeptStays
  <2> QED
    BY <1>1, <2>2, <2>4
<1> QED
  BY <1>3, <1>4, <1>5, PersistIs

LEMMA DecidedKept ==
  ASSUME Typed, HandInv, AccountInv, [Next]_vars, NEW v \in Workers,
         worker'[v].pc = "decided", worker'[v].plan.action = "unchanged"
  PROVE  \E e \in Events : e = worker'[v].task.id /\ Kept(e)'
<1>1. ~Starts
  <2>1. ~Starts \/ ~Busy(v)'
    BY IdleMoves DEF Starts
  <2> QED
    BY <2>1 DEF Busy
<1>2. worker'[v] = worker[v] \/ Decide(v)
  BY DecidedNext
<1>3. PICK t \in Task : t = worker[v].task /\ t = worker'[v].task
  <2>1. CASE worker'[v] = worker[v]
    BY <2>1, WorkerIs DEF Busy
  <2>2. CASE Decide(v)
    BY <2>2, DecideIs
  <2> QED
    BY <1>2, <2>1, <2>2
<1>4. PICK e \in Events : e = t.id
  BY TaskIs
<1>5. Kept(e)
  <2>1. CASE worker'[v] = worker[v]
    BY <1>3, <1>4, <2>1 DEF AccountInv
  <2>2. CASE Decide(v)
    <3>1. /\ worker[v].pc = "enriched" /\ row[e].present
          /\ row[e].content.hash = t.content.hash
      BY <1>3, <1>4, <2>2, DecideIs
    <3>2. Busy(v) /\ InHand(t)
      BY <1>3, <3>1 DEF Busy, InHand, InPool
    <3>3. Same(t, t) /\ t # Poison
      BY TaskIs DEF Same
    <3>4. ~InQueue(t)
      BY <1>3, <3>2, <3>3 DEF HandInv, OnePlace, InQueue
    <3>5. \A w \in Workers : ~(worker[w].pc = "taken" /\ worker[w].task = t)
      BY <1>3, <3>1, <3>2, <3>3 DEF HandInv, OnePlace, Busy
    <3>6. ~Unchecked(t)
      BY <3>4, <3>5 DEF Unchecked
    <3>7. t \in submitted
      BY <3>2 DEF HandInv, SubmittedOnce
    <3> QED
      BY <1>4, <3>1, <3>6, <3>7 DEF Kept
  <2> QED
    BY <1>2, <2>1, <2>2
<1>6. Kept(e)'
  BY <1>1, <1>5, KeptStays
<1> QED
  BY <1>3, <1>4, <1>6

\* A job's end is the only step that reports "completed".
LEMMA ResultNext ==
  ASSUME Typed, HandInv, [Next]_vars, ~Starts, job' # "idle" \/ result' = "completed"
  PROVE  /\ job # "idle" \/ result = "completed"
         /\ (errors => errors') /\ (abortEvent => abortEvent')
         /\ job' = "idle" => \/ Finish
                             \/ job = "idle" /\ UNCHANGED <<errors, abortEvent, result>>
<1>1. CASE UNCHANGED <<job, errors, abortEvent, result>>
  BY <1>1 DEF Finish, Typed
<1>2. CASE BeginStop
  BY <1>2 DEF BeginStop, HandInv, JobPhases
<1>3. CASE Finish
  BY <1>3 DEF Finish
<1>4. ~Crash
  BY DEF Crash
<1>5. ASSUME NEW c \in Calendars, FetchStep(c)
      PROVE  UNCHANGED <<job, errors, abortEvent, result>>
  BY <1>5, FetchRuns DEF HandInv
<1>6. ASSUME NEW w \in Workers, PoolStep(w)
      PROVE  /\ job # "idle" /\ job' = job /\ (errors => errors') /\ abortEvent' = abortEvent
  <2>1. Busy(w) => job # "idle"
    BY DEF HandInv, JobPhases
  <2> QED
    BY <1>6, <2>1, PoolMoves DEF HandInv
<1>7. ASSUME NEW c \in Calendars, NEW e \in Carries[c], Edit(c, e) \/ Cancel(c, e)
      PROVE  UNCHANGED <<job, errors, abortEvent, result>>
  BY <1>7 DEF Edit, Cancel, UpstreamChange
<1>8. UNCHANGED vars \/ RequestAbort \/ PutPill => UNCHANGED <<job, errors, abortEvent, result>>
  BY DEF vars, RequestAbort, PutPill
<1> QED
  BY <1>1, <1>2, <1>3, <1>4, <1>5, <1>6, <1>7, <1>8 DEF Next, Starts

\* How a task gets out of hand.
LEMMA InHandNext ==
  ASSUME Typed, HandInv, [Next]_vars, ~Starts, ~Crash, NEW t \in Task, InHand(t)
  PROVE  \/ InHand(t)' \/ t.id \in Blocked
         \/ lossy' /\ (errors' \/ abortEvent' \/ t \notin submitted')
         \/ \E w \in Workers : Persist(w) /\ t = worker[w].task
<1>1. CASE UNCHANGED <<queue, worker>>
  BY <1>1, StillMoves DEF Dropping
<1>2. CASE PutPill
  BY <1>2, PillMoves DEF PutPill, HandInv, Dropping
<1>3. ~Finish
  <2>1. Finish => queue = <<>> /\ \A w \in Workers : ~Busy(w)
    BY DEF Finish, Busy
  <2> QED
    BY <2>1, HandCalm
<1>4. ASSUME NEW c \in Calendars, Submit(c)
      PROVE  InHand(t)'
  <2>1. PICK task \in fetch[c].todo :
           task \in Task /\ queue' = Append(queue, task)
    BY <1>4, SubmitIs
  <2>2. worker' = worker
    BY <1>4 DEF Submit
  <2>3. \A u \in Task : InHand(u) => u \in submitted
    BY DEF HandInv, SubmittedOnce
  <2>4. \A u \in submitted : ~Same(task, u)
    BY DEF HandInv, SubmittedOnce
  <2> QED
    BY <2>1, <2>2, <2>3, <2>4, SubmitMoves DEF HandInv
<1>5. ASSUME NEW c \in Calendars, FetchStep(c), ~Submit(c)
      PROVE  UNCHANGED <<queue, worker>>
  BY <1>5 DEF FetchStep, FetchIncremental, ExpireToken, FetchFull, Reconcile,
              SaveToken, FetchFails
<1>6. ASSUME NEW w \in Workers, PoolStep(w)
      PROVE  \/ InHand(t)' \/ t.id \in Blocked
             \/ lossy' /\ (errors' \/ abortEvent' \/ t \notin submitted')
             \/ Persist(w) /\ t = worker[w].task
  <2>1. PICK D \in SUBSET Task :
          /\ Dropping(D)
          /\ \A u \in D : \/ u.id \in Blocked
                          \/ lossy' /\ (errors' \/ abortEvent' \/ u \notin submitted')
                          \/ Persist(w) /\ u = worker[w].task
    BY <1>6, PoolMoves DEF HandInv
  <2>2. InHand(t)' \/ t \in D
    BY <2>1 DEF Dropping
  <2> QED
    BY <2>1, <2>2
<1>7. ASSUME NEW c \in Calendars, NEW e \in Carries[c], Edit(c, e) \/ Cancel(c, e)
      PROVE  UNCHANGED <<queue, worker>>
  BY <1>7 DEF Edit, Cancel, UpstreamChange
<1>8. UNCHANGED vars \/ RequestAbort \/ BeginStop => UNCHANGED <<queue, worker>>
  BY DEF vars, RequestAbort, BeginStop
<1> QED
  BY <1>1, <1>2, <1>3, <1>4, <1>5, <1>6, <1>7, <1>8 DEF Next, Starts

LEMMA SubmittedIs ==
  ASSUME Typed, HandInv, [Next]_vars, ~Starts, NEW t \in submitted', t \notin submitted
  PROVE  InHand(t)'
<1>1. ASSUME NEW c \in Calendars, Submit(c)
      PROVE  InHand(t)'
  <2>1. PICK task \in fetch[c].todo :
           /\ task \in Task /\ queue' = Append(queue, task)
           /\ submitted' = submitted \cup {task}
    BY <1>1, SubmitIs
  <2>2. worker' = worker
    BY <1>1 DEF Submit
  <2>3. \A u \in Task : InHand(u) => u \in submitted
    BY DEF HandInv, SubmittedOnce
  <2>4. \A u \in submitted : ~Same(task, u)
    BY DEF HandInv, SubmittedOnce
  <2>5. \A u \in Task : InHand(u)' <=> InHand(u) \/ u = task
    BY <2>1, <2>2, <2>3, <2>4, SubmitMoves DEF HandInv
  <2> QED
    BY <2>1, <2>5
<1>2. ASSUME NEW c \in Calendars, FetchStep(c), ~Submit(c)
      PROVE  UNCHANGED submitted
  BY <1>2 DEF FetchStep, FetchIncremental, ExpireToken, FetchFull, Reconcile,
              SaveToken, FetchFails, histVars
<1>3. ASSUME NEW w \in Workers, PoolStep(w)
      PROVE  submitted' \subseteq submitted
  BY <1>3, PoolMoves DEF HandInv
<1>4. ASSUME NEW c \in Calendars, NEW e \in Carries[c], Edit(c, e) \/ Cancel(c, e)
      PROVE  UNCHANGED submitted
  BY <1>4 DEF Edit, Cancel, UpstreamChange
<1>5. UNCHANGED vars \/ RequestAbort \/ BeginStop \/ PutPill \/ Finish \/ Crash
        => UNCHANGED submitted
  BY DEF vars, RequestAbort, BeginStop, PutPill, Finish, Crash, histVars
<1> QED
  BY <1>1, <1>2, <1>3, <1>4, <1>5 DEF Next, Starts

\* Only a commit changes what counts as merged.
LEMMA MergedNext ==
  ASSUME Typed, HandInv, [Next]_vars
  PROVE  UNCHANGED merged \/ \E w \in Workers : Persist(w)
<1>1. ASSUME NEW w \in Workers, PoolStep(w), ~Persist(w)
      PROVE  UNCHANGED merged
  BY <1>1 DEF PoolStep, Get, Enrich, PrecheckFails, EnrichFails, TaskFails, AbortGate,
              Decide, PersistFails, histVars
<1>2. ASSUME NEW c \in Calendars, FetchStep(c)
      PROVE  UNCHANGED merged
  BY <1>2, FetchRuns DEF HandInv
<1>3. ASSUME NEW c \in Calendars, NEW e \in Carries[c], Edit(c, e) \/ Cancel(c, e)
      PROVE  UNCHANGED merged
  BY <1>3 DEF Edit, Cancel, UpstreamChange
<1>4. (\E mode \in Modes : StartSync(mode)) \/ Finish \/ Crash => UNCHANGED merged
  BY IdleMoves
<1>5. UNCHANGED vars \/ RequestAbort \/ BeginStop \/ PutPill => UNCHANGED merged
  BY DEF vars, RequestAbort, BeginStop, PutPill, histVars
<1> QED
  BY <1>1, <1>2, <1>3, <1>4, <1>5 DEF Next

LEMMA AccountNext ==
  ASSUME Typed, HandInv, AccountInv, [Next]_vars
  PROVE  AccountInv'
<1>1. ASSUME job' # "idle" \/ result' = "completed", NEW t \in submitted'
      PROVE  \/ InHand(t)' \/ t.id \in Blocked \cup merged' \/ Kept(t.id)'
             \/ errors' \/ abortEvent'
  <2>1. ~Starts
    BY <1>1 DEF Starts, StartSync
  <2>2. CASE t \notin submitted
    BY <1>1, <2>1, <2>2, SubmittedIs
  <2>3. CASE t \in submitted
    <3>1. t \in Task /\ t.id \in Events
      BY <2>3, TaskIs DEF Typed
    <3>2. ~Crash
      BY <1>1 DEF Crash
    <3>3. \/ InHand(t) \/ t.id \in Blocked \cup merged \/ Kept(t.id)
          \/ errors \/ abortEvent
      BY <1>1, <2>1, <2>3, ResultNext DEF AccountInv
    <3>4. (errors => errors') /\ (abortEvent => abortEvent')
      BY <1>1, <2>1, ResultNext
    <3>5. PICK e \in Events : e = t.id
      BY <3>1
    <3>6. Kept(e) => Kept(e)'
      BY <2>1, KeptStays
    <3>7. ASSUME NEW w \in Workers, Persist(w), e = worker[w].task.id
          PROVE  e \in merged' \/ Kept(e)'
      BY <2>1, <3>7, PersistKeeps
    <3>8. CASE InHand(t)
      BY <1>1, <2>1, <3>1, <3>2, <3>5, <3>7, <3>8, InHandNext
    <3>9. CASE e \in merged
      <4>1. CASE UNCHANGED merged
        BY <3>5, <3>9, <4>1
      <4>2. ASSUME NEW w \in Workers, Persist(w)
            PROVE  e \in merged' \/ Kept(e)'
        BY <3>7, <3>9, <4>2, PersistIs
      <4> QED
        BY <3>5, <4>1, <4>2, MergedNext
    <3> QED
      BY <3>3, <3>4, <3>5, <3>6, <3>8, <3>9
  <2> QED
    BY <2>2, <2>3
<1>2. ASSUME NEW v \in Workers, worker'[v].pc = "decided",
             worker'[v].plan.action = "unchanged"
      PROVE  Kept(worker[v].task.id)'
  BY <1>2, DecidedKept
<1>3. job' = "idle" /\ result' = "completed" => ~errors' /\ ~abortEvent'
  <2> SUFFICES ASSUME job' = "idle", result' = "completed"
               PROVE  ~errors' /\ ~abortEvent'
    OBVIOUS
  <2>1. ~Starts
    BY DEF Starts, StartSync
  <2>2. CASE Finish
    BY <2>2 DEF Finish
  <2>3. CASE job = "idle" /\ UNCHANGED <<errors, abortEvent, result>>
    BY <2>3 DEF AccountInv
  <2> QED
    BY <2>1, <2>2, <2>3, ResultNext
<1> QED
  BY <1>1, <1>2, <1>3 DEF AccountInv

-----------------------------------------------------------------------------
(* What a saved token promises *)

LEMMA LossyNext ==
  ASSUME Typed, HandInv, [Next]_vars
  PROVE  lossy => lossy'
<1>1. ASSUME NEW w \in Workers, PoolStep(w)
      PROVE  lossy => lossy'
  BY <1>1, PoolMoves DEF HandInv
<1>2. ASSUME NEW c \in Calendars, FetchStep(c)
      PROVE  lossy => lossy'
  BY <1>2, FetchRuns DEF HandInv
<1>3. ASSUME NEW c \in Calendars, NEW e \in Carries[c], Edit(c, e) \/ Cancel(c, e)
      PROVE  lossy => lossy'
  BY <1>3 DEF Edit, Cancel, UpstreamChange
<1>4. ASSUME NEW mode \in Modes, StartSync(mode)
      PROVE  lossy => lossy'
  BY <1>4 DEF StartSync
<1>5. UNCHANGED vars \/ RequestAbort \/ BeginStop \/ PutPill \/ Finish \/ Crash
        => (lossy => lossy')
  BY DEF vars, RequestAbort, BeginStop, PutPill, Finish, Crash, histVars
<1> QED
  BY <1>1, <1>2, <1>3, <1>4, <1>5 DEF Next

\* Google's copy of an event stays, or is newer than anything read so far.
LEMMA UpstreamNext ==
  ASSUME Typed, HandInv, [Next]_vars, NEW c \in Calendars, NEW e \in Events
  PROVE  /\ clock[c] \in Nat /\ clock'[c] \in Nat /\ clock[c] <= clock'[c]
         /\ \/ /\ upstream'[c][e] = upstream[c][e]
               /\ (e \in hidden'[c] <=> e \in hidden[c]) \/ FetchFull(c)
            \/ upstream'[c][e].at = clock[c] + 1 /\ clock'[c] = clock[c] + 1
<1>0. clock[c] \in Nat
  BY PipelineAssumption DEF Typed
<1>1. CASE UNCHANGED <<upstream, clock, hidden>>
  BY <1>0, <1>1
<1>2. ASSUME NEW d \in Calendars, NEW g \in Carries[d], Edit(d, g) \/ Cancel(d, g)
      PROVE  /\ clock'[c] \in Nat /\ clock[c] <= clock'[c]
             /\ \/ /\ upstream'[c][e] = upstream[c][e]
                   /\ e \in hidden'[c] <=> e \in hidden[c]
                \/ upstream'[c][e].at = clock[c] + 1 /\ clock'[c] = clock[c] + 1
  <2>1. PICK copy \in Copies : UpstreamChange(d, g, copy) /\ copy.at = clock[d] + 1
    BY <1>2, ChangeTyped
  <2>2. g \in Events
    BY CarriesIs
  <2>3. /\ clock' = [clock EXCEPT ![d] = @ + 1]
        /\ upstream' = [upstream EXCEPT ![d][g] = copy]
        /\ hidden' = [hidden EXCEPT ![d] = @ \ {g}]
    BY <2>1 DEF UpstreamChange
  <2>4. clock'[c] = IF c = d THEN clock[c] + 1 ELSE clock[c]
    BY <2>3 DEF Typed
  <2>5. upstream'[c][e] = IF c = d /\ e = g THEN copy ELSE upstream[c][e]
    BY <2>2, <2>3 DEF Typed
  <2>6. ~(c = d /\ e = g) => (e \in hidden'[c] <=> e \in hidden[c])
    BY <2>3 DEF Typed
  <2> QED
    BY <1>0, <2>1, <2>4, <2>5, <2>6
<1>3. ASSUME NEW d \in Calendars, FetchStep(d)
      PROVE  /\ UNCHANGED <<upstream, clock>>
             /\ (e \in hidden'[c] <=> e \in hidden[c]) \/ FetchFull(c)
  <2>1. UNCHANGED <<upstream, clock>>
    BY <1>3, FetchRuns DEF HandInv
  <2>2. CASE FetchFull(d)
    BY <2>1, <2>2 DEF FetchFull, Typed
  <2>3. CASE ~FetchFull(d)
    BY <1>3, <2>1, <2>3 DEF FetchStep, FetchIncremental, ExpireToken, Submit, Reconcile,
              SaveToken, FetchFails, histVars
  <2> QED
    BY <2>2, <2>3
<1>4. ASSUME NEW w \in Workers, PoolStep(w)
      PROVE  UNCHANGED <<upstream, clock, hidden>>
  BY <1>4, PoolMoves DEF HandInv
<1>5. (\E mode \in Modes : StartSync(mode)) \/ Finish \/ Crash
        => UNCHANGED <<upstream, clock, hidden>>
  BY IdleMoves
<1>6. UNCHANGED vars \/ RequestAbort \/ BeginStop \/ PutPill
        => UNCHANGED <<upstream, clock, hidden>>
  BY DEF vars, RequestAbort, BeginStop, PutPill, upVars, histVars
<1> QED
  BY <1>0, <1>1, <1>2, <1>3, <1>4, <1>5, <1>6 DEF Next

\* What a step of a calendar's fetch does to its token and to its answer.
LEMMA FetchOwn ==
  ASSUME Typed, HandInv, NEW c \in Calendars, FetchStep(c)
  PROVE  /\ \/ token'[c] = token[c] \/ token'[c] = NoToken
            \/ /\ SaveToken(c) /\ token'[c] = fetch[c].next
               /\ fetch[c].pc = "reconciled"
         /\ \/ FetchIncremental(c) \/ FetchFull(c)
            \/ /\ fetch'[c].next = fetch[c].next /\ fetch'[c].dels = fetch[c].dels
               /\ fetch'[c].todo \subseteq fetch[c].todo
               /\ \/ fetch'[c].pc = fetch[c].pc
                  \/ fetch'[c].pc \in {"processing", "failed"}
                  \/ Reconcile(c) /\ fetch'[c].pc = "reconciled" /\ fetch[c].pc = "submitting"
         /\ fetch'[c].pc = "fetching" => fetch'[c].token = NoToken /\ token'[c] = NoToken
         /\ \A d \in Calendars : d # c => fetch'[d] = fetch[d] /\ token'[d] = token[d]
<1>1. CASE FetchIncremental(c)
  BY <1>1, FetchedIs DEF FetchIncremental
<1>2. CASE FetchFull(c)
  <2>1. PICK next \in NextTokens(c) : Fetched(c, Live(c), {}, next)
    BY <1>2 DEF FetchFull
  <2>2. token' = token
    BY <1>2 DEF FetchFull
  <2> QED
    BY <1>2, <2>1, <2>2, FetchedIs
<1>3. CASE ExpireToken(c)
  <2>1. fetch[c] \in FetchRecord
    BY DEF Typed
  <2>2. /\ fetch'[c] = [fetch[c] EXCEPT !.token = NoToken] /\ token'[c] = NoToken
        /\ \A d \in Calendars : d # c => fetch'[d] = fetch[d] /\ token'[d] = token[d]
    BY <1>3 DEF ExpireToken, Typed
  <2>3. /\ fetch'[c].pc = fetch[c].pc /\ fetch'[c].todo = fetch[c].todo
        /\ fetch'[c].next = fetch[c].next /\ fetch'[c].dels = fetch[c].dels
        /\ fetch'[c].token = NoToken
    BY <2>1, <2>2 DEF FetchRecord
  <2> QED
    BY <2>2, <2>3
<1>4. CASE Submit(c)
  BY <1>4, SubmitIs DEF Submit
<1>5. CASE Reconcile(c)
  BY <1>5, PhaseIs DEF Reconcile
<1>6. CASE SaveToken(c)
  <2>1. \A d \in Calendars : token'[d] = IF d = c /\ fetch[c].next # NoToken
                                        THEN fetch[c].next ELSE token[d]
    BY <1>6 DEF SaveToken, Typed
  <2>2. fetch[c].pc = "reconciled" /\ fetch' = [fetch EXCEPT ![c].pc = "processing"]
    BY <1>6 DEF SaveToken
  <2>3. /\ fetch'[c].pc = "processing" /\ fetch'[c].todo = fetch[c].todo
        /\ fetch'[c].dels = fetch[c].dels /\ fetch'[c].next = fetch[c].next
        /\ \A d \in Calendars : d # c => fetch'[d] = fetch[d]
    BY <2>2, PhaseIs
  <2>4. token'[c] = token[c] \/ token'[c] = fetch[c].next
    BY <2>1
  <2>5. \A d \in Calendars : d # c => token'[d] = token[d]
    BY <2>1
  <2> QED
    BY <1>6, <2>2, <2>3, <2>4, <2>5
<1>7. CASE FetchFails(c)
  <2>1. fetch' = [fetch EXCEPT ![c].pc = "failed"] /\ token' = token
    BY <1>7 DEF FetchFails
  <2>2. /\ fetch'[c].pc = "failed" /\ fetch'[c].todo = fetch[c].todo
        /\ fetch'[c].dels = fetch[c].dels /\ fetch'[c].next = fetch[c].next
        /\ \A d \in Calendars : d # c => fetch'[d] = fetch[d]
    BY <2>1, PhaseIs
  <2> QED
    BY <2>1, <2>2
<1> QED
  BY <1>1, <1>2, <1>3, <1>4, <1>5, <1>6, <1>7 DEF FetchStep

\* The same for any step and any calendar.
LEMMA FetchNext ==
  ASSUME Typed, HandInv, [Next]_vars, NEW c \in Calendars
  PROVE  /\ \/ token'[c] = token[c] \/ token'[c] = NoToken
            \/ /\ SaveToken(c) /\ token'[c] = fetch[c].next
               /\ fetch[c].pc = "reconciled"
         /\ \/ FetchIncremental(c) \/ FetchFull(c)
            \/ fetch'[c].next = NoToken /\ fetch'[c].todo = {}
            \/ /\ fetch'[c].next = fetch[c].next /\ fetch'[c].dels = fetch[c].dels
               /\ fetch'[c].todo \subseteq fetch[c].todo
               /\ \/ fetch'[c].pc = fetch[c].pc
                  \/ fetch'[c].pc \in {"processing", "failed"}
                  \/ Reconcile(c) /\ fetch'[c].pc = "reconciled" /\ fetch[c].pc = "submitting"
         /\ fetch'[c].pc = "fetching" =>
              fetch'[c].token = token'[c] \/ (fetch'[c] = fetch[c] /\ token'[c] = token[c])
<1>1. CASE fetch'[c] = fetch[c] /\ token'[c] = token[c]
  BY <1>1
<1>2. ASSUME NEW d \in Calendars, FetchStep(d)
      PROVE  FetchStep(c) \/ (fetch'[c] = fetch[c] /\ token'[c] = token[c])
  BY <1>2, FetchOwn
<1>3. CASE FetchStep(c)
  BY <1>3, FetchOwn
<1>4. CASE (\E mode \in Modes : StartSync(mode)) \/ Finish \/ Crash
  <2>1. fetch'[c].todo = {} /\ fetch'[c].next = NoToken
    BY <1>4, IdleMoves
  <2>2. ASSUME NEW mode \in Modes, StartSync(mode)
        PROVE  /\ token'[c] = token[c] \/ token'[c] = NoToken
               /\ fetch'[c].token = token'[c]
    BY <2>2, StartIs
  <2>3. Finish \/ Crash => token'[c] = token[c] /\ fetch'[c].pc = "off"
    BY DEF Finish, Crash, NoFetch
  <2> QED
    BY <1>4, <2>1, <2>2, <2>3
<1>5. ASSUME NEW w \in Workers, PoolStep(w)
      PROVE  fetch'[c] = fetch[c] /\ token'[c] = token[c]
  BY <1>5, PoolMoves DEF HandInv
<1>6. ASSUME NEW d \in Calendars, NEW g \in Carries[d], Edit(d, g) \/ Cancel(d, g)
      PROVE  fetch'[c] = fetch[c] /\ token'[c] = token[c]
  BY <1>6 DEF Edit, Cancel, UpstreamChange
<1>7. UNCHANGED vars \/ RequestAbort \/ BeginStop \/ PutPill
        => fetch'[c] = fetch[c] /\ token'[c] = token[c]
  BY DEF vars, RequestAbort, BeginStop, PutPill
<1> QED
  BY <1>1, <1>2, <1>3, <1>4, <1>5, <1>6, <1>7 DEF Next

\* A fetch of calendar c ends with the events es to submit and ds to delete.
Read(c, es, ds, next) ==
  /\ fetch'[c].pc = "submitting" /\ fetch'[c].next = next /\ fetch'[c].dels = ds
  /\ \A t \in fetch'[c].todo : /\ t.cal = c /\ t.id \in Carries[c]
                               /\ upstream[c][t.id].state = "live"
                               /\ t.content = upstream[c][t.id].content
  /\ \A e \in es : \E t \in fetch'[c].todo :
       t.id = e /\ t.content = upstream[c][e].content

LEMMA ReadIs ==
  ASSUME Typed, NEW c \in Calendars, NEW es, es \subseteq Live(c), NEW ds, NEW next,
         Fetched(c, es, ds, next)
  PROVE  Read(c, es, ds, next)
<1>1. fetch'[c].todo = {[cal |-> c, id |-> e, content |-> upstream[c][e].content] : e \in es}
      /\ fetch'[c].pc = "submitting" /\ fetch'[c].next = next /\ fetch'[c].dels = ds
  BY FetchedIs
<1>2. ASSUME NEW t \in fetch'[c].todo
      PROVE  /\ t.cal = c /\ t.id \in Carries[c]
             /\ upstream[c][t.id].state = "live"
             /\ t.content = upstream[c][t.id].content
  <2>1. PICK e \in es : t = [cal |-> c, id |-> e, content |-> upstream[c][e].content]
    BY <1>1
  <2>2. t.cal = c /\ t.id = e /\ t.content = upstream[c][e].content
    BY <2>1
  <2> QED
    BY <2>2 DEF Live
<1>3. ASSUME NEW e \in es
      PROVE  \E t \in fetch'[c].todo : t.id = e /\ t.content = upstream[c][e].content
  <2>1. [cal |-> c, id |-> e, content |-> upstream[c][e].content] \in fetch'[c].todo
    BY <1>1
  <2> QED
    BY <2>1
<1> QED
  BY <1>1, <1>2, <1>3 DEF Read

\* An answer's token is the clock, or missing; its events are the live ones.
LEMMA AnswerIs ==
  ASSUME Typed, HandInv, NEW c \in Calendars, FetchIncremental(c) \/ FetchFull(c)
  PROVE  /\ fetch[c].pc = "fetching" /\ fetch[c].todo = {}
         /\ UNCHANGED <<upstream, clock, token, row, merged, lossy>>
         /\ fetch'[c].pc = "submitting"
         /\ fetch'[c].next = clock[c] \/ fetch'[c].next = NoToken
         /\ \A t \in fetch'[c].todo : /\ t.cal = c /\ t.id \in Carries[c]
                                      /\ upstream[c][t.id].state = "live"
                                      /\ t.content = upstream[c][t.id].content
         /\ \A e \in Live(c) :
              \/ \E t \in fetch'[c].todo : /\ t.id = e
                                           /\ t.content = upstream[c][e].content
              \/ FetchIncremental(c) /\ ~(upstream[c][e].at > fetch[c].token)
         /\ \/ /\ FetchFull(c) /\ fetch[c].token = NoToken
               /\ \A e \in Carries[c] : upstream[c][e].state = "cancelled" => e \in hidden'[c]
            \/ /\ fetch[c].token # NoToken /\ hidden' = hidden
               /\ \A e \in Carries[c] : upstream[c][e].state = "cancelled" =>
                    e \in fetch'[c].dels \/ ~(upstream[c][e].at > fetch[c].token)
<1>0. fetch[c].pc = "fetching" => fetch[c].todo = {}
  BY DEF HandInv, JobPhases
<1>2. CASE FetchIncremental(c)
  <2>1. /\ fetch[c].pc = "fetching" /\ fetch[c].token # NoToken /\ hidden' = hidden
        /\ UNCHANGED <<upstream, clock, token, row, merged, lossy>>
        /\ Fetched(c, Changed(c, fetch[c].token) \cap Live(c),
                   Changed(c, fetch[c].token) \ Live(c), clock[c])
    BY <1>2 DEF FetchIncremental, upVars, histVars
  <2>6. PICK es : es = Changed(c, fetch[c].token) \cap Live(c)
    OBVIOUS
  <2>7. PICK ds : ds = Changed(c, fetch[c].token) \ Live(c)
    OBVIOUS
  <2>8. PICK next : next = clock[c]
    OBVIOUS
  <2>2. es \subseteq Live(c) /\ Fetched(c, es, ds, next)
    BY <2>1, <2>6, <2>7, <2>8
  <2>3. Read(c, es, ds, next)
    BY <2>2, ReadIs
  <2>4. \A e \in Live(c) : e \in es \/ ~(upstream[c][e].at > fetch[c].token)
    BY <2>6 DEF Live, Changed
  <2>5. \A e \in Carries[c] : upstream[c][e].state = "cancelled" =>
          e \in ds \/ ~(upstream[c][e].at > fetch[c].token)
    BY <2>7 DEF Live, Changed
  <2> QED
    BY <1>0, <1>2, <2>1, <2>3, <2>4, <2>5, <2>8 DEF Read
<1>3. CASE FetchFull(c)
  <2>1. /\ fetch[c].pc = "fetching" /\ fetch[c].token = NoToken
        /\ UNCHANGED <<upstream, clock, token, row, merged, lossy>>
        /\ \A e \in Carries[c] : upstream[c][e].state = "cancelled" => e \in hidden'[c]
    BY <1>3 DEF FetchFull, upVars, Typed
  <2>2. PICK next \in NextTokens(c) : Fetched(c, Live(c), {}, next)
    BY <1>3 DEF FetchFull
  <2>6. PICK es : es = Live(c)
    OBVIOUS
  <2>3. Fetched(c, es, {}, next) /\ es \subseteq Live(c)
    BY <2>2, <2>6
  <2>4. Read(c, es, {}, next)
    BY <2>3, ReadIs
  <2>5. next = clock[c] \/ next = NoToken
    BY DEF NextTokens
  <2> QED
    BY <1>0, <1>3, <2>1, <2>4, <2>5, <2>6 DEF Read
<1> QED
  BY <1>2, <1>3

LEMMA SubmitHand ==
  ASSUME Typed, HandInv, NEW c \in Calendars, Submit(c), NEW t \in Task
  PROVE  \E task \in fetch[c].todo :
           /\ InHand(t)' <=> InHand(t) \/ t = task
           /\ fetch'[c].todo = fetch[c].todo \ {task} /\ task.cal = c
           /\ \A d \in Calendars : d # c => fetch'[d] = fetch[d]
<1>1. PICK task \in fetch[c].todo :
         /\ task \in Task /\ queue' = Append(queue, task)
         /\ fetch'[c].todo = fetch[c].todo \ {task}
         /\ \A d \in Calendars : d # c => fetch'[d] = fetch[d]
  BY SubmitIs
<1>2. worker' = worker
  BY DEF Submit
<1>3. \A u \in Task : InHand(u) => u \in submitted
  BY DEF HandInv, SubmittedOnce
<1>4. (\A u \in submitted : ~Same(task, u)) /\ task.cal = c
  BY DEF HandInv, SubmittedOnce
<1>5. \A u \in Task : InHand(u)' <=> InHand(u) \/ u = task
  BY <1>1, <1>2, <1>3, <1>4, SubmitMoves DEF HandInv
<1> QED
  BY <1>1, <1>4, <1>5

LEMMA StepHand ==
  ASSUME Typed, HandInv, NEW c \in Calendars, FetchStep(c), ~Submit(c), NEW t \in Task
  PROVE  InHand(t)' <=> InHand(t)
<1>1. UNCHANGED <<queue, worker>>
  BY DEF FetchStep, FetchIncremental, ExpireToken, FetchFull, Reconcile,
              SaveToken, FetchFails
<1> QED
  BY <1>1, StillMoves DEF Dropping

\* A task comes on its way only as part of an answer.
LEMMA PendingFrom ==
  ASSUME Typed, HandInv, [Next]_vars, NEW t \in Task, Pending(t)'
  PROVE  \/ Pending(t)
         \/ /\ FetchIncremental(t.cal) \/ FetchFull(t.cal)
            /\ t \in fetch'[t.cal].todo
<1>0. t.cal \in Calendars
  BY TaskIs
<1>1. CASE UNCHANGED <<queue, worker, fetch>>
  BY <1>1, StillMoves DEF Dropping, Pending
<1>2. CASE PutPill
  BY <1>2, PillMoves DEF PutPill, HandInv, Dropping, Pending
<1>3. ~((\E mode \in Modes : StartSync(mode)) \/ Finish \/ Crash)
  <2>1. ASSUME (\E mode \in Modes : StartSync(mode)) \/ Finish \/ Crash
        PROVE  ~InHand(t)' /\ fetch'[t.cal].todo = {}
    BY <1>0, <2>1, IdleMoves, ClearMoves
  <2> QED
    BY <2>1 DEF Pending
<1>4. ASSUME NEW c \in Calendars, FetchStep(c)
      PROVE  \/ Pending(t)
             \/ /\ FetchIncremental(t.cal) \/ FetchFull(t.cal)
                /\ t \in fetch'[t.cal].todo
  <2>1. CASE Submit(c)
    <3>1. PICK task \in fetch[c].todo :
             /\ InHand(t)' <=> InHand(t) \/ t = task
             /\ fetch'[c].todo = fetch[c].todo \ {task} /\ task.cal = c
             /\ \A d \in Calendars : d # c => fetch'[d] = fetch[d]
      BY <2>1, SubmitHand
    <3>2. t = task => t \in fetch[t.cal].todo
      BY <3>1
    <3>3. t \in fetch'[t.cal].todo => t \in fetch[t.cal].todo
      BY <1>0, <3>1
    <3> QED
      BY <3>1, <3>2, <3>3 DEF Pending
  <2>2. CASE ~Submit(c)
    <3>1. InHand(t)' <=> InHand(t)
      BY <1>4, <2>2, StepHand
    <3>2. \/ FetchIncremental(t.cal) \/ FetchFull(t.cal)
          \/ fetch'[t.cal].todo \subseteq fetch[t.cal].todo
      BY <1>0, <1>4, FetchOwn
    <3> QED
      BY <3>1, <3>2 DEF Pending
  <2> QED
    BY <2>1, <2>2
<1>5. ASSUME NEW w \in Workers, PoolStep(w)
      PROVE  Pending(t)
  BY <1>5, PoolMoves DEF HandInv, Dropping, Pending
<1>6. ASSUME NEW c \in Calendars, NEW e \in Carries[c], Edit(c, e) \/ Cancel(c, e)
      PROVE  UNCHANGED <<queue, worker, fetch>>
  BY <1>6 DEF Edit, Cancel, UpstreamChange
<1>7. UNCHANGED vars \/ RequestAbort \/ BeginStop => UNCHANGED <<queue, worker, fetch>>
  BY DEF vars, RequestAbort, BeginStop
<1> QED
  BY <1>1, <1>2, <1>3, <1>4, <1>5, <1>6, <1>7 DEF Next

\* It leaves it only by a loss, a ban or a commit.
LEMMA PendingTo ==
  ASSUME Typed, HandInv, [Next]_vars, NEW t \in Task, Pending(t), ~lossy'
  PROVE  \/ Pending(t)' \/ t.id \in Blocked
         \/ \E w \in Workers : Persist(w) /\ t = worker[w].task
<1>0. t.cal \in Calendars
  BY TaskIs
<1>1. ~Starts
  <2>1. Starts => ~InHand(t)
    BY HandCalm DEF Starts, StartSync, HandInv, JobPhases
  <2>2. Starts => fetch[t.cal] = NoFetch
    BY <1>0 DEF Starts, StartSync, HandInv, JobPhases
  <2> QED
    BY <2>1, <2>2 DEF Pending, NoFetch
<1>2. ~Crash
  BY DEF Crash
<1>3. CASE InHand(t)
  BY <1>1, <1>2, <1>3, InHandNext DEF Pending
<1>4. CASE t \in fetch[t.cal].todo
  <2>1. ~Finish
    BY <1>0, <1>4 DEF Finish, HandInv, JobPhases
  <2>2. CASE UNCHANGED fetch
    BY <1>4, <2>2 DEF Pending
  <2>3. ASSUME NEW c \in Calendars, FetchStep(c)
        PROVE  Pending(t)'
    <3>1. CASE Submit(c)
      <4>1. PICK task \in fetch[c].todo :
               /\ InHand(t)' <=> InHand(t) \/ t = task
               /\ fetch'[c].todo = fetch[c].todo \ {task} /\ task.cal = c
               /\ \A d \in Calendars : d # c => fetch'[d] = fetch[d]
        BY <3>1, SubmitHand
      <4>2. t = task \/ t \in fetch'[t.cal].todo
        BY <1>0, <1>4, <4>1
      <4> QED
        BY <4>1, <4>2 DEF Pending
    <3>2. CASE ~Submit(c)
      <4>1. fetch[c].pc = "fetching" => c # t.cal
        BY <1>4 DEF HandInv, JobPhases
      <4>2. t \in fetch'[t.cal].todo
        <5>1. CASE c # t.cal
          BY <1>0, <1>4, <2>3, <5>1, FetchOwn
        <5>2. CASE c = t.cal
          <6>1. CASE Reconcile(c)
            BY <1>4, <5>2, <6>1 DEF Reconcile
          <6>2. CASE SaveToken(c)
            BY <1>4, <5>2, <6>2, PhaseIs DEF SaveToken
          <6>3. CASE FetchFails(c)
            BY <1>4, <5>2, <6>3, PhaseIs DEF FetchFails
          <6>4. FetchIncremental(c) \/ FetchFull(c) \/ ExpireToken(c) => fetch[c].pc = "fetching"
            BY DEF FetchIncremental, FetchFull, ExpireToken
          <6> QED
            BY <2>3, <3>2, <4>1, <5>2, <6>1, <6>2, <6>3, <6>4 DEF FetchStep
        <5> QED
          BY <5>1, <5>2
      <4> QED
        BY <4>2 DEF Pending
    <3> QED
      BY <3>1, <3>2
  <2>4. ASSUME NEW w \in Workers, PoolStep(w)
        PROVE  UNCHANGED fetch
    BY <2>4, PoolMoves DEF HandInv
  <2>5. ASSUME NEW c \in Calendars, NEW e \in Carries[c], Edit(c, e) \/ Cancel(c, e)
        PROVE  UNCHANGED fetch
    BY <2>5 DEF Edit, Cancel, UpstreamChange
  <2>6. UNCHANGED vars \/ RequestAbort \/ BeginStop \/ PutPill => UNCHANGED fetch
    BY DEF vars, RequestAbort, BeginStop, PutPill
  <2> QED
    BY <1>1, <1>2, <2>1, <2>2, <2>3, <2>4, <2>5, <2>6 DEF Next, Starts
<1> QED
  BY <1>3, <1>4 DEF Pending

\* A calendar being read has no task on its way.
LEMMA ReadingIsCalm ==
  ASSUME Typed, HandInv, NEW t \in Task, Pending(t)
  PROVE  fetch[t.cal].pc # "fetching" /\ t.id \in Carries[t.cal]
<1>1. t.cal \in Calendars
  BY TaskIs
<1> QED
  BY <1>1 DEF Pending, HandInv, SubmittedOnce, JobPhases

LEMMA ClockNext ==
  ASSUME Typed, HandInv, [Next]_vars, NEW c \in Calendars
  PROVE  clock[c] <= clock'[c] /\ clock[c] \in Nat /\ clock'[c] \in Nat
<1>1. clock[c] \in Nat
  BY PipelineAssumption DEF Typed
<1>2. ASSUME NEW e \in Events
      PROVE  clock[c] <= clock'[c] /\ clock'[c] \in Nat
  BY UpstreamNext
<1>3. ASSUME NEW d \in Calendars, NEW g \in Carries[d], Edit(d, g) \/ Cancel(d, g)
      PROVE  clock[c] <= clock'[c] /\ clock'[c] \in Nat
  BY <1>2, CarriesIs
<1>4. CASE UNCHANGED clock
  BY <1>1, <1>4
<1>5. ASSUME NEW d \in Calendars, FetchStep(d)
      PROVE  UNCHANGED clock
  BY <1>5, FetchRuns DEF HandInv
<1>6. ASSUME NEW w \in Workers, PoolStep(w)
      PROVE  UNCHANGED clock
  BY <1>6, PoolMoves DEF HandInv
<1>7. (\E mode \in Modes : StartSync(mode)) \/ Finish \/ Crash => UNCHANGED clock
  BY IdleMoves
<1>8. UNCHANGED vars \/ RequestAbort \/ BeginStop \/ PutPill => UNCHANGED clock
  BY DEF vars, RequestAbort, BeginStop, PutPill, upVars
<1> QED
  BY <1>1, <1>3, <1>4, <1>5, <1>6, <1>7, <1>8 DEF Next

LEMMA TokensNext ==
  ASSUME Typed, HandInv, TokensBehind, [Next]_vars
  PROVE  TokensBehind'
<1> SUFFICES ASSUME NEW c \in Calendars
             PROVE  /\ token'[c] # NoToken => token'[c] <= clock'[c]
                    /\ fetch'[c].next # NoToken => fetch'[c].next <= clock'[c]
                    /\ fetch'[c].pc = "fetching" => fetch'[c].token = token'[c]
                    /\ \A e \in Events : upstream'[c][e].at <= clock'[c]
  BY DEF TokensBehind
<1>1. /\ token[c] # NoToken => token[c] <= clock[c] /\ token[c] \in Nat
      /\ fetch[c].next # NoToken => fetch[c].next <= clock[c] /\ fetch[c].next \in Nat
      /\ fetch[c].pc = "fetching" => fetch[c].token = token[c]
      /\ \A e \in Events : upstream[c][e].at <= clock[c] /\ upstream[c][e].at \in Nat
  <2>1. token[c] \in Tokens /\ fetch[c].next \in Tokens
    BY RecordsTyped DEF Typed
  <2> QED
    BY <2>1, TokenType, PipelineAssumption, CopyIs DEF TokensBehind
<1>2. clock[c] <= clock'[c] /\ clock[c] \in Nat /\ clock'[c] \in Nat
  BY ClockNext
<1>3. token'[c] = token[c] \/ token'[c] = NoToken \/ token'[c] = fetch[c].next
  BY FetchNext
<1>4. CASE FetchIncremental(c) \/ FetchFull(c)
  <2>1. /\ clock' = clock /\ upstream' = upstream
        /\ fetch'[c].pc = "submitting"
        /\ fetch'[c].next = clock[c] \/ fetch'[c].next = NoToken
    BY <1>4, AnswerIs
  <2> QED
    BY <1>1, <1>2, <1>3, <2>1
<1>5. CASE ~(FetchIncremental(c) \/ FetchFull(c))
  <2>1. fetch'[c].next = fetch[c].next \/ fetch'[c].next = NoToken
    BY <1>5, FetchNext
  <2>2. fetch'[c].pc = "fetching" =>
          fetch'[c].token = token'[c] \/ (fetch'[c] = fetch[c] /\ token'[c] = token[c])
    BY FetchNext
  <2>3. \A e \in Events : upstream'[c][e].at <= clock'[c]
    <3> TAKE e \in Events
    <3>1. \/ upstream'[c][e] = upstream[c][e]
          \/ upstream'[c][e].at = clock[c] + 1 /\ clock'[c] = clock[c] + 1
      BY UpstreamNext
    <3> QED
      BY <1>1, <1>2, <3>1
  <2> QED
    BY <1>1, <1>2, <1>3, <2>1, <2>2, <2>3
<1> QED
  BY <1>4, <1>5

LEMMA FreshNext ==
  ASSUME Typed, HandInv, TokensBehind, TasksFresh, [Next]_vars
  PROVE  TasksFresh'
<1> SUFFICES ASSUME NEW t \in Task, Pending(t)'
             PROVE  Fresh(t)'
  BY DEF TasksFresh
<1> PICK c \in Calendars : c = t.cal
  BY TaskIs
<1> PICK e \in Events : e = t.id
  BY TaskIs
<1>1. CASE Pending(t)
  <2>1. \/ upstream[c][e].state = "live" /\ upstream[c][e].content = t.content
        \/ /\ token[c] # NoToken => upstream[c][e].at > token[c]
           /\ fetch[c].next # NoToken => upstream[c][e].at > fetch[c].next
    BY <1>1 DEF TasksFresh, Fresh
  <2>2. token'[c] = token[c] \/ token'[c] = NoToken \/ token'[c] = fetch[c].next
    BY FetchNext
  <2>3. fetch'[c].next = fetch[c].next \/ fetch'[c].next = NoToken
    <3>1. fetch[c].pc # "fetching"
      BY <1>1, ReadingIsCalm
    <3>2. ~FetchIncremental(c) /\ ~FetchFull(c)
      BY <3>1 DEF FetchIncremental, FetchFull
    <3> QED
      BY <3>2, FetchNext
  <2>4. /\ \/ upstream'[c][e] = upstream[c][e]
           \/ upstream'[c][e].at = clock[c] + 1
        /\ clock[c] \in Nat
    BY UpstreamNext
  <2>5. /\ token[c] # NoToken => token[c] <= clock[c] /\ token[c] \in Nat
        /\ fetch[c].next # NoToken => fetch[c].next <= clock[c] /\ fetch[c].next \in Nat
    <3>1. token[c] \in Tokens /\ fetch[c].next \in Tokens
      BY RecordsTyped DEF Typed
    <3> QED
      BY <3>1, TokenType, PipelineAssumption DEF TokensBehind
  <2>6. CASE upstream'[c][e] = upstream[c][e]
    BY <2>1, <2>2, <2>3, <2>6 DEF Fresh
  <2>7. CASE upstream'[c][e].at = clock[c] + 1
    BY <2>2, <2>3, <2>4, <2>5, <2>7 DEF Fresh
  <2> QED
    BY <2>4, <2>6, <2>7
<1>2. CASE /\ FetchIncremental(c) \/ FetchFull(c)
           /\ t \in fetch'[c].todo
  <2>1. /\ upstream[c][t.id].state = "live" /\ t.content = upstream[c][t.id].content
        /\ upstream' = upstream
    BY <1>2, AnswerIs
  <2> QED
    BY <2>1 DEF Fresh
<1> QED
  BY <1>1, <1>2, PendingFrom

\* Where events belong to one calendar, an id in hand names its calendar.
LEMMA OneCalendar ==
  ASSUME Typed, HandInv, Exclusive, NEW t \in Task, InHand(t),
         NEW c \in Calendars, t.id \in Carries[c]
  PROVE  t.cal = c
<1>1. t.id \in Carries[t.cal] /\ t.cal \in Calendars
  BY TaskIs DEF HandInv, SubmittedOnce
<1> QED
  BY <1>1 DEF Exclusive

LEMMA PersistInHand ==
  ASSUME Typed, HandInv, NEW w \in Workers, Persist(w)
  PROVE  /\ worker[w].task \in Task /\ InHand(worker[w].task)
         /\ worker[w].pc = "decided" /\ worker'[w] = IdleWorker
BY WorkerIs DEF Persist, Busy, InHand, InPool, Typed

\* Content and presence of a row other than the one a commit rewrites.
LEMMA RowContent ==
  ASSUME Typed, HandInv, [Next]_vars, NEW e \in Events, row[e].present,
         \A w \in Workers : Persist(w) /\ worker[w].plan.action \in {"new", "updated"}
                              => e # worker[w].task.id
  PROVE  row'[e].present /\ row'[e].content = row[e].content
<1>1. ASSUME NEW c \in Calendars, Reconcile(c)
      PROVE  row'[e].present /\ row'[e].content = row[e].content
  BY <1>1, ReconcileRow
<1>2. ASSUME NEW w \in Workers, Persist(w)
      PROVE  row'[e].present /\ row'[e].content = row[e].content
  <2>1. CASE worker[w].plan.action \in {"new", "updated"}
    <3>1. e # worker[w].plan.target
      BY <1>2, <2>1, PersistRow DEF HandInv
    <3> QED
      BY <1>2, <3>1, PersistRow DEF HandInv
  <2>2. CASE worker[w].plan.action \in {"unchanged", "deduped"}
    BY <1>2, <2>2, PersistRow DEF HandInv
  <2> QED
    BY <1>2, <2>1, <2>2, PersistIs
<1> QED
  BY <1>1, <1>2, RowsNext

LEMMA UnchangedNext ==
  ASSUME Typed, HandInv, UnchangedFits, [Next]_vars
  PROVE  UnchangedFits'
<1> SUFFICES ASSUME Exclusive, NEW v \in Workers, worker'[v].pc = "decided",
                    worker'[v].plan.action = "unchanged"
             PROVE  LET t == worker'[v].task IN
                    row'[t.id].present /\ row'[t.id].content.hash = t.content.hash
  BY DEF UnchangedFits, Exclusive
<1>1. CASE worker'[v] = worker[v]
  <2>1. Busy(v)
    BY <1>1 DEF Busy
  <2>2. PICK t \in Task : t = worker[v].task
    BY <2>1, WorkerIs
  <2>3. InHand(t)
    BY <2>1, <2>2 DEF InHand, InPool
  <2>4. PICK e \in Events : e = t.id
    BY TaskIs
  <2>5. row[e].present /\ row[e].content.hash = t.content.hash
    BY <1>1, <2>2, <2>4 DEF UnchangedFits
  <2>6. ASSUME NEW w \in Workers, Persist(w), e = worker[w].task.id
        PROVE  FALSE
    <3>1. PICK u \in Task : u = worker[w].task
      BY <2>6, PersistInHand
    <3>2. InHand(u) /\ w # v /\ Busy(w)
      BY <1>1, <2>6, <3>1, PersistInHand DEF IdleWorker, Busy
    <3>3. u.id \in Carries[t.cal] /\ t.cal \in Calendars
      BY <2>3, <2>4, <2>6, <3>1, TaskIs DEF HandInv, SubmittedOnce
    <3>4. u.cal = t.cal
      BY <3>2, <3>3, OneCalendar
    <3>5. ~Same(u, t)
      BY <2>1, <2>2, <3>1, <3>2 DEF HandInv, OnePlace
    <3> QED
      BY <2>4, <2>6, <3>1, <3>4, <3>5 DEF Same
  <2>7. row'[e].present /\ row'[e].content = row[e].content
    BY <2>5, <2>6, RowContent
  <2> QED
    BY <1>1, <2>2, <2>4, <2>5, <2>7
<1>2. CASE Decide(v) /\ UNCHANGED <<row, submitted>>
  BY <1>2, DecideIs
<1> QED
  BY <1>1, <1>2, DecidedNext

\* What a token covered stays covered.
LEMMA CoveredStays ==
  ASSUME Typed, HandInv, MirrorInv, [Next]_vars, Exclusive, ~lossy',
         NEW c \in Calendars, NEW tk, tk # NoToken,
         tk = token[c] \/ tk = fetch[c].next,
         Covered(c, tk)
  PROVE  Covered(c, tk)'
<1> SUFFICES ASSUME NEW e \in Carries[c], e \notin Blocked, e \notin merged',
                    upstream'[c][e].state = "live", upstream'[c][e].at <= tk
             PROVE  Stored(c, e)' \/ OnItsWay(c, e)'
  BY DEF Covered
<1>1. e \in Events
  BY CarriesIs
<1>2. tk \in Nat /\ tk <= clock[c] /\ clock[c] \in Nat
  <2>1. token[c] \in Tokens /\ fetch[c].next \in Tokens
    BY RecordsTyped DEF Typed
  <2> QED
    BY <2>1, TokenType, PipelineAssumption DEF MirrorInv, TokensBehind, Typed
<1>3. upstream'[c][e] = upstream[c][e]
  BY <1>1, <1>2, UpstreamNext
<1>4. upstream[c][e].at \in Nat /\ ~(upstream[c][e].at > tk) /\ upstream[c][e].state = "live"
  BY <1>1, <1>2, <1>3, CopyIs
<1>5. ASSUME NEW w \in Workers, Persist(w), worker[w].task.id = e
      PROVE  Stored(c, e)'
  <2>1. PICK t \in Task : t = worker[w].task /\ InHand(t)
    BY <1>5, PersistInHand
  <2>2. t.cal = c
    BY <1>5, <2>1, OneCalendar
  <2>3. Fresh(t)
    BY <2>1 DEF MirrorInv, TasksFresh, Pending
  <2>4. upstream[c][e].content = t.content
    BY <1>4, <1>5, <2>1, <2>2, <2>3 DEF Fresh
  <2>5. worker[w].plan.action # "deduped"
    BY <1>5, PersistIs
  <2>6. CASE worker[w].plan.action \in {"new", "updated"}
    BY <1>3, <1>5, <2>1, <2>4, <2>6, PersistRow DEF HandInv, Stored
  <2>7. CASE worker[w].plan.action = "unchanged"
    <3>1. row[e].present /\ row[e].content.hash = t.content.hash
      BY <1>5, <2>1, <2>7, PersistInHand DEF MirrorInv, UnchangedFits
    <3>2. worker[w].plan.target = e
      BY <1>5, <2>7, PersistInHand DEF HandInv, PlansFit
    <3>3. row'[e].present /\ row'[e].content = row[e].content
      BY <1>5, <2>7, <3>2, PersistRow DEF HandInv
    <3> QED
      BY <1>3, <2>4, <3>1, <3>3 DEF Stored
  <2> QED
    BY <1>5, <2>5, <2>6, <2>7, PersistIs
<1>6. CASE \A w \in Workers : Persist(w) => worker[w].task.id # e
  <2>1. e \notin merged
    <3>1. ASSUME NEW w \in Workers, Persist(w)
          PROVE  e \notin merged
      BY <1>6, <3>1, PersistIs
    <3> QED
      BY <3>1, MergedNext
  <2>2. Stored(c, e) \/ OnItsWay(c, e)
    BY <1>2, <1>4, <2>1 DEF Covered
  <2>3. CASE Stored(c, e)
    <3>1. row'[e].present /\ row'[e].content = row[e].content
      BY <1>1, <1>6, <2>3, RowContent DEF Stored
    <3> QED
      BY <1>3, <2>3, <3>1 DEF Stored
  <2>4. CASE OnItsWay(c, e)
    <3>1. PICK t \in Task : /\ Pending(t) /\ t.cal = c /\ t.id = e
                            /\ t.content.hash = upstream[c][e].content.hash
      BY <2>4 DEF OnItsWay
    <3>2. Pending(t)'
      BY <1>6, <3>1, PendingTo
    <3> QED
      BY <1>3, <3>1, <3>2 DEF OnItsWay
  <2> QED
    BY <2>2, <2>3, <2>4
<1> QED
  BY <1>5, <1>6

\* An answer covers everything up to its token.
LEMMA CoveredByAnswer ==
  ASSUME Typed, HandInv, MirrorInv, [Next]_vars, Exclusive, ~lossy,
         NEW c \in Calendars, FetchIncremental(c) \/ FetchFull(c), NEW tk
  PROVE  Covered(c, tk)'
<1> SUFFICES ASSUME NEW e \in Carries[c], e \notin Blocked, e \notin merged',
                    upstream'[c][e].state = "live"
             PROVE  Stored(c, e)' \/ OnItsWay(c, e)'
  BY DEF Covered
<1>1. e \in Events
  BY CarriesIs
<1>2. /\ UNCHANGED <<upstream, clock, token, row, merged, lossy>>
      /\ fetch[c].pc = "fetching"
  BY AnswerIs
<1>3. e \in Live(c)
  BY <1>2 DEF Live
<1>4. fetch' \in [Calendars -> FetchRecord]
  <2>1. Typed'
    BY NextTyped DEF HandInv
  <2> QED
    BY <2>1 DEF Typed
<1>5. ASSUME NEW t \in fetch'[c].todo, t.id = e, t.content = upstream[c][e].content
      PROVE  OnItsWay(c, e)'
  <2>1. t \in Task
    BY <1>4, <1>5, RecordsTyped
  <2>2. t.cal = c
    BY AnswerIs
  <2>3. Pending(t)'
    BY <2>2 DEF Pending
  <2> QED
    BY <1>2, <1>5, <2>1, <2>2, <2>3 DEF OnItsWay
<1>6. CASE FetchIncremental(c) /\ ~(upstream[c][e].at > fetch[c].token)
  <2>1. fetch[c].token # NoToken /\ fetch[c].token = token[c]
    BY <1>2, <1>6 DEF FetchIncremental, MirrorInv, TokensBehind
  <2>2. token[c] \in Nat
    <3>1. token[c] \in Tokens
      BY DEF Typed
    <3> QED
      BY <2>1, <3>1, TokenType, PipelineAssumption
  <2>3. upstream[c][e].at <= token[c]
    BY <1>1, <1>6, <2>1, <2>2, CopyIs
  <2>4. Covered(c, token[c])
    BY <2>1 DEF MirrorInv, LiveCovered
  <2>5. Stored(c, e) \/ OnItsWay(c, e)
    BY <1>2, <2>3, <2>4 DEF Covered
  <2>6. CASE Stored(c, e)
    BY <1>2, <2>6 DEF Stored
  <2>7. CASE OnItsWay(c, e)
    <3>1. PICK t \in Task : /\ Pending(t) /\ t.cal = c /\ t.id = e
                            /\ t.content.hash = upstream[c][e].content.hash
      BY <2>7 DEF OnItsWay
    <3> QED
      BY <1>2, <3>1, ReadingIsCalm
  <2> QED
    BY <2>5, <2>6, <2>7
<1> QED
  BY <1>3, <1>5, <1>6, AnswerIs

LEMMA LiveNext ==
  ASSUME Typed, HandInv, MirrorInv, [Next]_vars
  PROVE  LiveCovered'
<1> SUFFICES ASSUME Exclusive, ~lossy', NEW c \in Calendars
             PROVE  /\ token'[c] # NoToken => Covered(c, token[c])'
                    /\ fetch'[c].pc \in {"submitting", "reconciled"} /\ fetch'[c].next # NoToken
                         => Covered(c, fetch[c].next)'
  BY DEF LiveCovered, Exclusive
<1>0. ~lossy
  BY LossyNext
<1>1. /\ token[c] # NoToken => Covered(c, token[c])
      /\ fetch[c].pc \in {"submitting", "reconciled"} /\ fetch[c].next # NoToken
           => Covered(c, fetch[c].next)
  BY <1>0 DEF MirrorInv, LiveCovered
<1>2. token'[c] # NoToken => Covered(c, token[c])'
  <2> SUFFICES ASSUME token'[c] # NoToken PROVE Covered(c, token[c])'
    OBVIOUS
  <2>1. PICK tk : tk = token'[c]
    OBVIOUS
  <2>2. tk = token[c] \/ (tk = fetch[c].next /\ fetch[c].pc = "reconciled")
    BY <2>1, FetchNext
  <2>3. Covered(c, tk)
    BY <1>1, <2>1, <2>2
  <2>4. Covered(c, tk)'
    BY <2>1, <2>2, <2>3, CoveredStays
  <2> QED
    BY <2>1, <2>4 DEF Covered
<1>3. fetch'[c].pc \in {"submitting", "reconciled"} /\ fetch'[c].next # NoToken
        => Covered(c, fetch[c].next)'
  <2> SUFFICES ASSUME fetch'[c].pc \in {"submitting", "reconciled"}, fetch'[c].next # NoToken
               PROVE  Covered(c, fetch[c].next)'
    OBVIOUS
  <2>1. PICK tk : tk = fetch'[c].next
    OBVIOUS
  <2>2. CASE FetchIncremental(c) \/ FetchFull(c)
    <3>1. Covered(c, tk)'
      BY <1>0, <2>2, CoveredByAnswer
    <3> QED
      BY <2>1, <3>1 DEF Covered
  <2>3. CASE ~(FetchIncremental(c) \/ FetchFull(c))
    <3>1. tk = fetch[c].next /\ fetch[c].pc \in {"submitting", "reconciled"}
      BY <2>1, <2>3, FetchNext
    <3>2. Covered(c, tk)
      BY <1>1, <2>1, <3>1
    <3>3. Covered(c, tk)'
      BY <2>1, <3>1, <3>2, CoveredStays
    <3> QED
      BY <2>1, <3>3 DEF Covered
  <2> QED
    BY <2>2, <2>3
<1> QED
  BY <1>2, <1>3

LEMMA RemovedStays ==
  ASSUME Typed, HandInv, MirrorInv, [Next]_vars, Exclusive,
         NEW c \in Calendars, NEW tk, tk # NoToken,
         tk = token[c] \/ tk = fetch[c].next,
         NEW ds, Removed(c, tk, ds)
  PROVE  Removed(c, tk, ds)'
<1> SUFFICES ASSUME NEW e \in Carries[c], e \notin hidden'[c], e \notin ds,
                    upstream'[c][e].state = "cancelled", upstream'[c][e].at <= tk
             PROVE  row'[e].present => row'[e].gone
  BY DEF Removed
<1>1. e \in Events
  BY CarriesIs
<1>2. tk \in Nat /\ tk <= clock[c] /\ clock[c] \in Nat
  <2>1. token[c] \in Tokens /\ fetch[c].next \in Tokens
    BY RecordsTyped DEF Typed
  <2> QED
    BY <2>1, TokenType, PipelineAssumption DEF MirrorInv, TokensBehind, Typed
<1>3. upstream'[c][e] = upstream[c][e] /\ ((e \in hidden'[c] <=> e \in hidden[c]) \/ FetchFull(c))
  BY <1>1, <1>2, UpstreamNext
<1>4. upstream[c][e].at \in Nat /\ ~(upstream[c][e].at > tk)
      /\ upstream[c][e].state = "cancelled" /\ upstream[c][e].at <= tk
  BY <1>1, <1>2, <1>3, CopyIs
<1>5. ~FetchFull(c)
  BY <1>4 DEF FetchFull, Typed
<1>6. row[e].present => row[e].gone
  BY <1>3, <1>4, <1>5 DEF Removed
<1>7. ASSUME NEW w \in Workers, Persist(w)
      PROVE  row'[e].present => row'[e].gone
  <2>1. PICK t \in Task : t = worker[w].task /\ InHand(t)
    BY <1>7, PersistInHand
  <2>2. e # t.id
    <3> SUFFICES ASSUME e = t.id PROVE FALSE
      OBVIOUS
    <3>1. t.cal = c
      BY <2>1, OneCalendar
    <3>2. Fresh(t)
      BY <2>1 DEF MirrorInv, TasksFresh, Pending
    <3> QED
      BY <1>2, <1>4, <3>1, <3>2 DEF Fresh
  <2>3. CASE e = worker[w].plan.target
    <3>1. worker[w].plan.action \in {"unchanged", "deduped"}
      BY <1>7, <2>1, <2>2, <2>3, PersistIs, PersistRow DEF HandInv
    <3> QED
      BY <1>6, <1>7, <2>3, <3>1, PersistRow DEF HandInv
  <2>4. CASE e # worker[w].plan.target
    BY <1>1, <1>6, <1>7, <2>4, PersistRow DEF HandInv
  <2> QED
    BY <2>3, <2>4
<1>8. ASSUME NEW d \in Calendars, Reconcile(d)
      PROVE  row'[e].present => row'[e].gone
  BY <1>1, <1>6, <1>8, ReconcileRow
<1> QED
  BY <1>1, <1>6, <1>7, <1>8, RowsNext

LEMMA RemovedByAnswer ==
  ASSUME Typed, HandInv, MirrorInv, [Next]_vars, Exclusive,
         NEW c \in Calendars, FetchIncremental(c) \/ FetchFull(c), NEW tk
  PROVE  Removed(c, tk, fetch[c].dels)'
<1> SUFFICES ASSUME NEW e \in Carries[c], e \notin hidden'[c], e \notin fetch'[c].dels,
                    upstream'[c][e].state = "cancelled"
             PROVE  row'[e].present => row'[e].gone
  BY DEF Removed
<1>1. e \in Events
  BY CarriesIs
<1>2. UNCHANGED <<upstream, clock, token, row, merged, lossy>> /\ fetch[c].pc = "fetching"
  BY AnswerIs
<1>3. /\ fetch[c].token # NoToken /\ hidden' = hidden
      /\ ~(upstream[c][e].at > fetch[c].token)
  BY <1>2, AnswerIs
<1>4. fetch[c].token = token[c]
  BY <1>2 DEF MirrorInv, TokensBehind
<1>5. token[c] \in Nat
  <2>1. token[c] \in Tokens
    BY DEF Typed
  <2> QED
    BY <1>3, <1>4, <2>1, TokenType, PipelineAssumption
<1>6. upstream[c][e].at <= token[c]
  BY <1>1, <1>3, <1>4, <1>5, CopyIs
<1>7. Removed(c, token[c], {})
  BY <1>3, <1>4 DEF MirrorInv, DeletionsCovered
<1> QED
  BY <1>2, <1>3, <1>6, <1>7 DEF Removed

LEMMA DeletionsNext ==
  ASSUME Typed, HandInv, MirrorInv, [Next]_vars
  PROVE  DeletionsCovered'
<1> SUFFICES ASSUME Exclusive, NEW c \in Calendars
             PROVE  /\ token'[c] # NoToken => Removed(c, token[c], {})'
                    /\ fetch'[c].next # NoToken =>
                         /\ fetch'[c].pc = "submitting" => Removed(c, fetch[c].next, fetch[c].dels)'
                         /\ fetch'[c].pc = "reconciled" => Removed(c, fetch[c].next, {})'
  BY DEF DeletionsCovered, Exclusive
<1>1. /\ token[c] # NoToken => Removed(c, token[c], {})
      /\ fetch[c].next # NoToken =>
           /\ fetch[c].pc = "submitting" => Removed(c, fetch[c].next, fetch[c].dels)
           /\ fetch[c].pc = "reconciled" => Removed(c, fetch[c].next, {})
  BY DEF MirrorInv, DeletionsCovered
<1>2. token'[c] # NoToken => Removed(c, token[c], {})'
  <2> SUFFICES ASSUME token'[c] # NoToken PROVE Removed(c, token[c], {})'
    OBVIOUS
  <2>1. PICK tk : tk = token'[c]
    OBVIOUS
  <2>2. tk = token[c] \/ (tk = fetch[c].next /\ fetch[c].pc = "reconciled")
    BY <2>1, FetchNext
  <2>3. Removed(c, tk, {})
    BY <1>1, <2>1, <2>2
  <2>4. Removed(c, tk, {})'
    BY <2>1, <2>2, <2>3, RemovedStays
  <2> QED
    BY <2>1, <2>4 DEF Removed
<1>3. ASSUME fetch'[c].next # NoToken, fetch'[c].pc = "submitting"
      PROVE  Removed(c, fetch[c].next, fetch[c].dels)'
  <2>1. PICK tk : tk = fetch'[c].next
    OBVIOUS
  <2>2. PICK ds : ds = fetch'[c].dels
    OBVIOUS
  <2>3. CASE FetchIncremental(c) \/ FetchFull(c)
    <3>1. Removed(c, tk, fetch[c].dels)'
      BY <2>3, RemovedByAnswer
    <3> QED
      BY <2>1, <3>1 DEF Removed
  <2>4. CASE ~(FetchIncremental(c) \/ FetchFull(c))
    <3>1. tk = fetch[c].next /\ ds = fetch[c].dels /\ fetch[c].pc = "submitting"
      BY <1>3, <2>1, <2>2, <2>4, FetchNext
    <3>2. Removed(c, tk, ds)
      BY <1>1, <1>3, <2>1, <3>1
    <3>3. Removed(c, tk, ds)'
      BY <1>3, <2>1, <3>1, <3>2, RemovedStays
    <3> QED
      BY <2>1, <2>2, <3>3 DEF Removed
  <2> QED
    BY <2>3, <2>4
<1>4. ASSUME fetch'[c].next # NoToken, fetch'[c].pc = "reconciled"
      PROVE  Removed(c, fetch[c].next, {})'
  <2>1. PICK tk : tk = fetch'[c].next
    OBVIOUS
  <2>2. ~(FetchIncremental(c) \/ FetchFull(c))
    BY <1>4, AnswerIs
  <2>3. /\ tk = fetch[c].next
        /\ \/ fetch[c].pc = "reconciled"
           \/ Reconcile(c) /\ fetch[c].pc = "submitting"
    BY <1>4, <2>1, <2>2, FetchNext
  <2>4. CASE fetch[c].pc = "reconciled"
    <3>1. Removed(c, tk, {})
      BY <1>1, <1>4, <2>1, <2>3, <2>4
    <3>2. Removed(c, tk, {})'
      BY <1>4, <2>1, <2>3, <3>1, RemovedStays
    <3> QED
      BY <2>1, <3>2 DEF Removed
  <2>5. CASE Reconcile(c) /\ fetch[c].pc = "submitting"
    <3>1. PICK ds : ds = fetch[c].dels
      OBVIOUS
    <3>2. Removed(c, tk, ds)
      BY <1>1, <1>4, <2>1, <2>3, <2>5, <3>1
    <3>3. Removed(c, tk, ds)'
      BY <1>4, <2>1, <2>3, <3>2, RemovedStays
    <3>4. \A e \in Events : e \in ds /\ row'[e].present => row'[e].gone
      BY <2>5, <3>1, ReconcileRow
    <3> QED
      BY <2>1, <3>3, <3>4, CarriesIs DEF Removed
  <2> QED
    BY <2>3, <2>4, <2>5
<1> QED
  BY <1>2, <1>3, <1>4

LEMMA MirrorNext ==
  ASSUME Typed, HandInv, MirrorInv, [Next]_vars
  PROVE  MirrorInv'
BY TokensNext, FreshNext, LiveNext, DeletionsNext, UnchangedNext DEF MirrorInv

-----------------------------------------------------------------------------
(* Theorems *)

LEMMA InitInv == Init => Typed /\ PipelineInv
<1> SUFFICES ASSUME Init PROVE PipelineInv
  BY InitTyped
<1>1. Typed
  BY InitTyped
<1>2. queue = <<>> /\ \A w \in Workers : worker[w].pc = "idle" /\ ~Busy(w)
  BY DEF Init, IdleWorker, Busy
<1>3. \A t \in Task : ~InHand(t)
  BY <1>1, <1>2, HandCalm
<1>4. \A c \in Calendars : /\ fetch[c] = NoFetch /\ fetch[c].todo = {} /\ fetch[c].pc = "off"
                           /\ fetch[c].next = NoToken
                           /\ token[c] = NoToken
                           /\ clock[c] = 0 /\ \A e \in Events : upstream[c][e].at = 0
  BY DEF Init, NoFetch, NoCopy
<1>5. JobPhases
  BY <1>2, <1>4 DEF Init, JobPhases
<1>6. SubmittedOnce /\ PlansFit /\ OnePlace
  <2>1. OnePlace
    BY <1>2 DEF OnePlace
  <2> QED
    BY <1>2, <1>3, <1>4, <2>1 DEF SubmittedOnce, PlansFit
<1>7. AccountInv
  BY <1>2 DEF AccountInv, Init
<1>8. TokensBehind
  BY <1>4 DEF TokensBehind
<1>9. TasksFresh
  BY <1>3, <1>4, TaskIs DEF TasksFresh, Pending
<1>10. LiveCovered /\ DeletionsCovered /\ UnchangedFits
  BY <1>2, <1>4 DEF LiveCovered, DeletionsCovered, UnchangedFits
<1> QED
  BY <1>5, <1>6, <1>7, <1>8, <1>9, <1>10 DEF PipelineInv, HandInv, MirrorInv

LEMMA StepInv == Typed /\ PipelineInv /\ [Next]_vars => Typed' /\ PipelineInv'
BY NextTyped, HandNext, AccountNext, MirrorNext DEF PipelineInv, HandInv

LEMMA PipelineInvariant == Spec => [](Typed /\ PipelineInv)
BY InitInv, StepInv, PTL DEF Spec

LEMMA TypedIsTypeOK == Typed => TypeOK
<1> SUFFICES ASSUME Typed PROVE TypeOK
  OBVIOUS
<1>1. \A e \in Events : row[e] = NoRow \/ row[e] \in RowRecord
  BY RowIs
<1>2. \A c \in Calendars : /\ fetch[c].todo \subseteq Task
                           /\ fetch[c].token \in Tokens /\ fetch[c].next \in Tokens
  BY RecordsTyped DEF Typed
<1>3. \A k \in 1..Len(queue) : queue[k] = Poison \/ queue[k] \in Task
  BY QueueIs
<1> QED
  BY <1>1, <1>2, <1>3 DEF TypeOK, Typed, RowRecord

\* Every variable keeps its shape, and the queue its bound, in every state
\* _run_sync_job_worker and its threads reach.
THEOREM TypeCorrect == Spec => []TypeOK
BY PipelineInvariant, TypedIsTypeOK, PTL

\* Nothing is in hand between jobs.
LEMMA CalmBetweenJobs ==
  ASSUME Typed, PipelineInv, job = "idle", NEW t \in Task
  PROVE  ~InHand(t) /\ ~Pending(t)
<1>1. ~InHand(t)
  BY HandCalm DEF PipelineInv, HandInv, JobPhases
<1>2. fetch[t.cal].todo = {}
  BY TaskIs DEF PipelineInv, HandInv, JobPhases, NoFetch
<1> QED
  BY <1>1, <1>2 DEF Pending

\* A saved sync token hides nothing that is missing here (_save_sync_token
\* runs while the pool still persists): between jobs every live event up to
\* the token is stored, and every cancelled one removed.
THEOREM MirroredHolds == Spec => []Mirrored
<1>1. Typed /\ PipelineInv => CheckpointMirrored
  <2> SUFFICES ASSUME Typed, PipelineInv, Exclusive, job = "idle", ~lossy,
                      NEW c \in Calendars, NEW e \in Carries[c] \ (Blocked \cup merged),
                      token[c] # NoToken, upstream[c][e].state = "live",
                      upstream[c][e].at <= token[c]
               PROVE  /\ row[e].present
                      /\ row[e].content.hash = upstream[c][e].content.hash
    BY DEF CheckpointMirrored
  <2>1. Stored(c, e) \/ OnItsWay(c, e)
    BY DEF PipelineInv, MirrorInv, LiveCovered, Covered
  <2>2. ~OnItsWay(c, e)
    BY CalmBetweenJobs DEF OnItsWay
  <2> QED
    BY <2>1, <2>2 DEF Stored
<1>2. Typed /\ PipelineInv => DeletionsMirrored
  BY DEF PipelineInv, MirrorInv, DeletionsCovered, Removed, DeletionsMirrored
<1> QED
  BY <1>1, <1>2, PipelineInvariant, TypedIsTypeOK, PTL DEF Mirrored

\* A job that reports "completed" has stored, merged or banned every event it
\* fetched: in _worker a loss is counted, or the job was aborted.
THEOREM CompletedHolds == Spec => []CompletedMeansPersisted
<1>1. ASSUME Typed, PipelineInv, job = "idle", result = "completed", NEW t \in submitted
      PROVE  \/ t.id \in Blocked \cup merged
             \/ /\ row[t.id].present
                /\ \E u \in submitted : /\ u.id = t.id
                                        /\ u.content.hash = row[t.id].content.hash
  <2>1. t \in Task
    BY <1>1 DEF Typed
  <2>2. ~InHand(t)
    BY <1>1, <2>1, CalmBetweenJobs
  <2>3. t.id \in Blocked \cup merged \/ Kept(t.id)
    BY <1>1, <2>2 DEF PipelineInv, AccountInv
  <2> QED
    BY <2>3 DEF Kept
<1>2. Typed /\ PipelineInv => CompletedMeansPersisted
  BY <1>1 DEF CompletedMeansPersisted
<1> QED
  BY <1>2, PipelineInvariant, PTL
=============================================================================
