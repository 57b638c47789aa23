-------------------------- MODULE EventBatchCaches --------------------------
(***************************************************************************)
(* The five providers through which cards on a screen share one request:   *)
(* attendance summaries, rating aggregates, message counts, plan counts    *)
(* and asset summaries.  A card registers an event; what is not cached     *)
(* waits for a 50 ms timer and is fetched in batches; an answer fills the  *)
(* cache and bumps "version", which makes every mounted card register      *)
(* again (the effect of the hooks depends on the context value).           *)
(*                                                                         *)
(* The providers differ in what a change of viewer does, which answers are *)
(* kept and how a change made here reaches the cache.  "loader", chosen    *)
(* initially, says which of them a behaviour is about.                     *)
(***************************************************************************)
EXTENDS Naturals, FiniteSets

CONSTANTS Ids,          \* events that cards show
          Hidden,       \* events the batch endpoints leave out of an answer
          Viewers, NoUser,
          MaxBatch,     \* MAX_BATCH
          MaxInflight,  \* batches in flight at once
          MaxOps,       \* mounts, unmounts, switches and changes
          MaxFaults     \* failing batches

ASSUME BatchAssumption ==
    /\ IsFiniteSet(Ids) /\ Hidden \subseteq Ids
    /\ IsFiniteSet(Viewers) /\ NoUser \notin Viewers
    /\ MaxBatch \in Nat \ {0} /\ {MaxInflight, MaxOps, MaxFaults} \subseteq Nat

Loaders == {"attendance", "ratings", "messages", "plan", "assets"}

VARIABLES
    loader,
    viewer,     \* user?.user_id
    mounted,    \* events with a mounted card: the keys of refCountRef
    cache,      \* cacheRef, or cachesRef of EventAssetSummaryContext by viewer
    pending,    \* pendingRef
    timer,      \* is the flush timer set
    inflight,   \* batches sent and not answered
    epoch,      \* authGenerationRef of MyPlanCountContext
    server,     \* how often the value of an event changed, for a viewer or all
    change,     \* a change of this viewer: "none", "sent", "done"
    ops, faults,
    overtaken   \* events whose change met a batch in flight

vars == <<loader, viewer, mounted, cache, pending, timer, inflight, epoch,
          server, change, ops, faults, overtaken>>

NoEntry == [value |-> 0, viewer |-> NoUser, known |-> FALSE]
Entry(v, who) == [value |-> v, viewer |-> who, known |-> TRUE]
EmptyCache == [i \in Ids |-> NoEntry]

\* Only EventAssetSummaryContext keeps a cache per viewer.
Scope == IF loader = "assets" THEN viewer ELSE NoUser

Cached(c) == {i \in Ids : c[Scope][i].known}

\* These two serve signed-in viewers only.
Personal == loader \in {"plan", "assets"}
Active(who) == ~Personal \/ who # NoUser

\* Whose value a request reads or changes: everybody's, or the viewer's own.
Of(who) == IF Personal THEN who ELSE NoUser

Slots == 1..MaxInflight
FreeSlots == {n \in Slots : \A b \in inflight : b.n # n}

----------------------------------------------------------------------------
(* What the providers do to pending and timer *)

\* register, for the cards of ids, with cache c and waiting set p: a personal
\* loader without a viewer asks for nothing.
Registered(ids, c, p) == IF Active(viewer) THEN p \cup (ids \ Cached(c)) ELSE p

\* scheduleFlush: a timer that is set stays.
Scheduled(p) == timer \/ p # {}

\* setVersion: the hooks' effects run again for every mounted card.
Rerender(c, p) ==
    /\ cache' = c
    /\ pending' = Registered(mounted, c, p)
    /\ timer' = Scheduled(pending')

Fill(c, entries) ==
    [c EXCEPT ![Scope] = [i \in Ids |->
        IF i \in DOMAIN entries THEN entries[i] ELSE @[i]]]

Without(c, ids) ==
    [c EXCEPT ![Scope] = [i \in Ids |-> IF i \in ids THEN NoEntry ELSE @[i]]]

----------------------------------------------------------------------------
Init ==
    /\ loader \in Loaders
    /\ viewer \in Viewers \cup {NoUser}
    /\ mounted = {} /\ cache = [s \in Viewers \cup {NoUser} |-> EmptyCache]
    /\ pending = {} /\ timer = FALSE /\ inflight = {} /\ epoch = 1
    /\ server = [s \in Viewers \cup {NoUser} |-> [i \in Ids |-> 1]]
    /\ change = [i \in Ids |-> "none"]
    /\ ops = 0 /\ faults = 0 /\ overtaken = {}

Count == ops < MaxOps /\ ops' = ops + 1

\* A card mounts: useAttendanceSummary and its siblings register the event.
Mount(i) ==
    /\ i \notin mounted /\ Count
    /\ mounted' = mounted \cup {i}
    /\ pending' = Registered({i}, cache, pending)
    /\ timer' = Scheduled(pending')
    /\ UNCHANGED <<loader, viewer, cache, inflight, epoch, server, change,
                   faults, overtaken>>

\* It unmounts: the reference is dropped, nothing else.
Unmount(i) ==
    /\ i \in mounted /\ Count
    /\ mounted' = mounted \ {i}
    /\ UNCHANGED <<loader, viewer, cache, pending, timer, inflight, epoch,
                   server, change, faults, overtaken>>

\* Batches of MAX_BATCH; only the last may be smaller.
Chunks(ids) ==
    {p \in SUBSET ((SUBSET ids) \ {{}}) :
        /\ UNION p = ids
        /\ \A a, b \in p : a # b => a \cap b = {}
        /\ \A a \in p : Cardinality(a) <= MaxBatch
        /\ Cardinality({a \in p : Cardinality(a) < MaxBatch}) <= 1}

\* flush: the timer is cleared, what waits is sent.  Without a viewer the plan
\* provider drops what waits, and the asset provider leaves it.
Flush ==
    /\ timer /\ timer' = FALSE
    /\ IF Active(viewer)
       THEN \E p \in Chunks(pending) :
              /\ Cardinality(p) <= Cardinality(FreeSlots)
              /\ \E s \in [p -> FreeSlots] :
                   /\ \A a, b \in p : a # b => s[a] # s[b]
                   /\ inflight' = inflight \cup
                        {[n |-> s[a], ids |-> a, viewer |-> viewer, scope |-> Scope,
                          epoch |-> epoch, result |-> <<>>, served |-> FALSE] : a \in p}
              /\ pending' = {}
       ELSE /\ pending' = IF loader = "plan" THEN {} ELSE pending
            /\ UNCHANGED inflight
    /\ UNCHANGED <<loader, viewer, mounted, cache, epoch, server, change, ops,
                   faults, overtaken>>

\* The server reads the batch for the viewer of the session that sent it.
Serve(b) ==
    /\ ~b.served
    /\ inflight' = (inflight \ {b}) \cup
         {[n |-> b.n, ids |-> b.ids, viewer |-> b.viewer, scope |-> b.scope,
           epoch |-> b.epoch, served |-> TRUE,
           result |-> [i \in (IF Personal THEN b.ids ELSE b.ids \ Hidden) |->
                         Entry(server[Of(b.viewer)][i], b.viewer)]]}
    /\ UNCHANGED <<loader, viewer, mounted, cache, pending, timer, epoch, server,
                   change, ops, faults, overtaken>>

\* Mutant: an answer for the previous viewer is kept by MyPlanCountContext.
KeptFromAnyEpoch(b) == DOMAIN b.result # {} \/ Personal

\* Mutant: an empty answer bumps the version as well.
KeptEvenEmpty(b) == loader # "plan" \/ b.epoch = epoch

\* Which answers are kept: of the viewer's epoch (plan), any non-empty one
\* (attendance, ratings, messages), any (assets, into the sender's cache).
Kept(b) ==
    IF loader = "plan" THEN b.epoch = epoch ELSE Personal \/ DOMAIN b.result # {}

\* The cache the closure of flush captured.
Target(b) == b.scope

Answer(b) ==
    /\ b.served
    /\ inflight' = inflight \ {b}
    /\ IF Kept(b)
       THEN Rerender([cache EXCEPT ![Target(b)] = [i \in Ids |->
                        IF i \in DOMAIN b.result THEN b.result[i] ELSE @[i]]], pending)
       ELSE UNCHANGED <<cache, pending, timer>>
    /\ UNCHANGED <<loader, viewer, mounted, epoch, server, change, ops, faults,
                   overtaken>>

\* A batch fails, or its status makes it an empty list: nothing is cached and
\* nothing is asked for again.
Fail(b) ==
    /\ faults < MaxFaults /\ faults' = faults + 1
    /\ inflight' = inflight \ {b}
    /\ UNCHANGED <<loader, viewer, mounted, cache, pending, timer, epoch, server,
                   change, ops, overtaken>>

----------------------------------------------------------------------------
(* A change of viewer *)

\* AttendanceSummariesProvider: drop the cache, ask again for every card.
SwitchAttendance ==
    /\ cache' = [cache EXCEPT ![NoUser] = EmptyCache]
    /\ pending' = pending \cup mounted
    /\ timer' = TRUE
    /\ UNCHANGED epoch

\* MyPlanCountProvider: a new generation, cache, waiting events and timer gone;
\* the cards are asked for again when somebody is signed in.
SwitchPlan(who) ==
    /\ epoch' = epoch + 1
    /\ cache' = [cache EXCEPT ![NoUser] = EmptyCache]
    /\ pending' = IF who = NoUser THEN {} ELSE mounted
    /\ timer' = (pending' # {})

\* Mutant: the cleanup clears the timer and leaves what waits.
SwitchAssetsKeepsPending(who) ==
    /\ timer' = FALSE
    /\ UNCHANGED <<cache, pending, epoch>>

\* EventAssetSummaryProvider: the cleanup drops timer and waiting events; the
\* cards register again because "register" is a new function.
SwitchAssets(who) ==
    /\ pending' = IF who = NoUser THEN {}
                  ELSE {i \in mounted : ~cache[who][i].known}
    /\ timer' = (pending' # {})
    /\ UNCHANGED <<cache, epoch>>

\* The page that makes a personal change belongs to one account: its change is
\* answered before the account is switched.
SwitchViewer(who) ==
    /\ who # viewer /\ Count
    /\ Personal => \A i \in Ids : change[i] = "none"
    /\ viewer' = who
    /\ \/ loader = "attendance" /\ SwitchAttendance
       \/ loader = "plan" /\ SwitchPlan(who)
       \/ loader = "assets" /\ SwitchAssets(who)
       \/ loader \in {"ratings", "messages"} /\ UNCHANGED <<cache, pending, timer, epoch>>
    /\ UNCHANGED <<loader, mounted, inflight, server, change, faults, overtaken>>

----------------------------------------------------------------------------
(* Changes the viewer makes, and how the caches hear of them *)

\* Mutant: invalidate leaves the cached value until the new one arrives.
InvalidatedKeeps(ids) == cache

Invalidated(ids) == Without(cache, ids)

\* invalidate: forget the value, ask again if a card shows it.
Invalidate(i) ==
    Rerender(Invalidated({i}), pending \cup ({i} \cap mounted))

\* toggleAttending and toggleSave invalidate before they send.
StartChange(i) ==
    /\ change[i] = "none" /\ Active(viewer) /\ Count
    /\ change' = [change EXCEPT ![i] = "sent"]
    /\ IF loader = "attendance" THEN Invalidate(i) ELSE UNCHANGED <<cache, pending, timer>>
    /\ UNCHANGED <<loader, viewer, mounted, inflight, epoch, server, faults, overtaken>>

ServeChange(i) ==
    /\ change[i] = "sent"
    /\ change' = [change EXCEPT ![i] = "done"]
    /\ server' = [server EXCEPT ![Of(viewer)][i] = @ + 1]
    /\ UNCHANGED <<loader, viewer, mounted, cache, pending, timer, inflight, epoch,
                   ops, faults, overtaken>>

\* The answer to the change: attendance and ratings are invalidated, plan
\* counts and asset summaries are set to what the answer says, message counts
\* are not told (nothing calls useInvalidateEventMessageCount).
EndChange(i) ==
    /\ change[i] = "done"
    /\ change' = [change EXCEPT ![i] = "none"]
    /\ IF loader \in {"attendance", "ratings"} THEN Invalidate(i)
       ELSE IF Personal /\ viewer # NoUser
       THEN Rerender(Fill(cache, [j \in {i} |-> Entry(server[Of(viewer)][i], viewer)]), pending)
       ELSE UNCHANGED <<cache, pending, timer>>
    /\ overtaken' = IF \E b \in inflight : i \in b.ids
                    THEN overtaken \cup {i} ELSE overtaken
    /\ UNCHANGED <<loader, viewer, mounted, inflight, epoch, server, ops, faults>>

\* invalidateMany, after a list was fetched again: also asks for events no card
\* shows, if they were cached.
InvalidateMany(ids) ==
    /\ loader = "attendance" /\ ids # {} /\ Count
    /\ Rerender(Invalidated(ids), pending \cup (ids \cap (mounted \cup Cached(cache))))
    /\ UNCHANGED <<loader, viewer, mounted, inflight, epoch, server, change,
                   faults, overtaken>>

----------------------------------------------------------------------------
Rest == ~timer /\ inflight = {} /\ \A i \in Ids : change[i] = "none"

Next ==
    \/ \E i \in Ids : Mount(i) \/ Unmount(i)
    \/ Flush
    \/ \E b \in inflight : Serve(b) \/ Answer(b) \/ Fail(b)
    \/ \E who \in Viewers \cup {NoUser} : SwitchViewer(who)
    \/ \E i \in Ids : StartChange(i) \/ ServeChange(i) \/ EndChange(i)
    \/ \E ids \in SUBSET Ids : InvalidateMany(ids)
    \/ Rest /\ UNCHANGED vars       \* the screen rests

\* Timers fire, requests are served and answered.
Spec ==
    /\ Init /\ [][Next]_vars
    /\ WF_vars(Flush)
    /\ \A n \in Slots : WF_vars(\E b \in inflight : b.n = n /\ (Serve(b) \/ Answer(b)))
    /\ \A i \in Ids : WF_vars(ServeChange(i) \/ EndChange(i))

----------------------------------------------------------------------------
(* Properties *)

\* The type of the state.
TypeOK ==
    /\ loader \in Loaders /\ viewer \in Viewers \cup {NoUser}
    /\ mounted \subseteq Ids /\ pending \subseteq Ids /\ timer \in BOOLEAN
    /\ \A s \in DOMAIN cache : \A i \in Ids :
         cache[s][i].viewer \in Viewers \cup {NoUser}
    /\ \A b \in inflight : b.ids \subseteq Ids /\ Cardinality(b.ids) \in 1..MaxBatch
    /\ overtaken \subseteq Ids

\* No event waits without a timer that will fetch it: however registrations,
\* answers, switches and invalidations interleave, none is stranded.
NothingStranded == pending # {} => timer

\* When everything is answered, every event a card shows is cached, unless the
\* server leaves it out or a batch failed.
RestComplete ==
    Rest /\ faults = 0 /\ Active(viewer) =>
        \A i \in mounted : i \in Cached(cache) \/ (i \in Hidden /\ ~Personal)

\* Every card gets its numbers: nothing waits without a timer, and at rest what
\* a card shows has been asked for and answered.
CardsServed == TypeOK /\ NothingStranded /\ RestComplete

\* When everything is answered, what is cached is what the server has, unless
\* a batch was in flight when the change was answered.  Message counts are the
\* exception: nothing invalidates them.
RestFresh ==
    Rest /\ loader # "messages" =>
        \A i \in Cached(cache) \ overtaken :
            loader = "ratings" \/ cache[Scope][i].viewer = viewer =>
                cache[Scope][i].value = server[Of(viewer)][i]

\* Plan counts and asset summaries shown are always the viewer's own: an
\* answer that arrives after a switch never fills the new viewer's cache.
OwnRowsOnly ==
    Personal /\ viewer # NoUser =>
        \A i \in Cached(cache) : cache[Scope][i].viewer = viewer

\* Registering again on every version does not feed itself: when the screen
\* stops changing, requests stop.
Settles == <>[]Rest
=============================================================================
