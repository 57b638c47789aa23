----------------------- MODULE EventBatchCachesProofs -----------------------
(***************************************************************************)
(* The safety properties of the batched caches for every set of events and *)
(* viewers and every bound: what is cached for a viewer is that viewer's   *)
(* own, no event waits without a timer, and at rest every card has its     *)
(* entry, with the value the server has.                                   *)
(***************************************************************************)
EXTENDS EventBatchCaches, FiniteSetTheorems, TLAPS

Scopes == Viewers \cup {NoUser}
Entries == [value : Nat, viewer : Scopes, known : BOOLEAN]

\* What the proof needs of the types.
Typed ==
    /\ loader \in Loaders
    /\ viewer \in Scopes
    /\ cache \in [Scopes -> [Ids -> Entries]]
    /\ server \in [Scopes -> [Ids -> Nat]]
    /\ epoch \in Nat

\* A batch of a personal provider was sent by somebody signed in, for the cache
\* that viewer's cards read; its answer holds that viewer's rows; and a batch
\* of this generation of MyPlanCountContext is of the present viewer.
BatchOwned(b) ==
    /\ b.viewer \in Viewers
    /\ b.scope = IF loader = "assets" THEN b.viewer ELSE NoUser
    /\ b.epoch \in Nat /\ b.epoch <= epoch
    /\ loader = "plan" /\ b.epoch = epoch => b.viewer = viewer
    /\ b.served => \A i \in Ids : i \in DOMAIN b.result =>
                        b.result[i] \in Entries /\ b.result[i].viewer = b.viewer
BatchesOwned == Personal => \A b \in inflight : BatchOwned(b)

\* Answers of the shared providers are entries as well.
BatchesTyped ==
    \A b \in inflight :
        /\ b.viewer \in Scopes /\ b.scope \in Scopes
        /\ b.served => \A i \in Ids : i \in DOMAIN b.result => b.result[i] \in Entries

\* Each viewer's asset cache, and the one plan cache, hold rows of their viewer.
CacheOwned ==
    \A i \in Ids :
        /\ loader = "assets" => \A s \in Scopes : cache[s][i].known => cache[s][i].viewer = s
        /\ loader = "plan" => (cache[NoUser][i].known => cache[NoUser][i].viewer = viewer)

\* EventAssetSummaryContext's flush leaves what waits when nobody is signed in:
\* then nothing does.
NobodyWaits == loader = "assets" /\ viewer = NoUser => pending = {}

\* The inductive invariant.
BatchInv ==
    /\ Typed
    /\ BatchesTyped
    /\ BatchesOwned
    /\ CacheOwned
    /\ NobodyWaits
    /\ NothingStranded

\* The events registered again leave no card without its timer, and nobody
\* waits for a provider that has no viewer.
LEMMA RerenderKeeps ==
  ASSUME NobodyWaits, NothingStranded, NEW c, NEW p,
         loader = "assets" /\ viewer = NoUser => p = {},
         Rerender(c, p), UNCHANGED <<loader, viewer>>
  PROVE  NobodyWaits' /\ NothingStranded'
BY DEF NobodyWaits, NothingStranded, Rerender, Registered, Scheduled, Active, Personal

\* Invalidating forgets entries and makes none up.
LEMMA WithoutOwned ==
  ASSUME Typed, CacheOwned, NEW ids, cache' = Without(cache, ids), UNCHANGED <<loader, viewer>>
  PROVE  cache' \in [Scopes -> [Ids -> Entries]] /\ CacheOwned'
<1> USE BatchAssumption DEF Scopes
<1>1. NoEntry \in Entries /\ ~NoEntry.known
  BY DEF NoEntry, Entries
<1>2. cache' = [cache EXCEPT ![Scope] = [i \in Ids |-> IF i \in ids THEN NoEntry ELSE cache[Scope][i]]]
  BY DEF Without
<1>3. Scope \in Scopes
  BY DEF Scope, Typed
<1>4. cache' \in [Scopes -> [Ids -> Entries]]
  BY <1>1, <1>2, <1>3 DEF Typed
<1>5. \A s \in Scopes, i \in Ids : cache'[s][i] \in {cache[s][i], NoEntry}
  BY <1>2, <1>3 DEF Typed
<1>6. CacheOwned'
  BY <1>1, <1>5 DEF CacheOwned
<1> QED BY <1>4, <1>6

LEMMA InitBatch == Init => BatchInv
<1> SUFFICES ASSUME Init PROVE BatchInv
  OBVIOUS
<1> USE BatchAssumption DEF Scopes
<1>1. NoEntry \in Entries /\ ~NoEntry.known
  BY DEF NoEntry, Entries
<1>2. \A s \in Scopes, i \in Ids : cache[s][i] = NoEntry
  BY DEF Init, EmptyCache
<1>3. Typed
  BY <1>1 DEF Init, EmptyCache, Typed
<1>4. CacheOwned
  BY <1>1, <1>2 DEF CacheOwned
<1> QED BY <1>3, <1>4 DEF Init, BatchInv, BatchesTyped, BatchesOwned, NobodyWaits, NothingStranded

\* Whatever batches leave the set, or are replaced by owned ones.
LEMMA BatchesKept ==
  ASSUME BatchesTyped, BatchesOwned, inflight' \subseteq inflight,
         UNCHANGED <<loader, viewer, epoch>>
  PROVE  BatchesTyped' /\ BatchesOwned'
BY DEF BatchesTyped, BatchesOwned, BatchOwned, Personal

LEMMA NextBatch == BatchInv /\ [Next]_vars => BatchInv'
<1> SUFFICES ASSUME BatchInv, [Next]_vars PROVE BatchInv'
  OBVIOUS
<1> USE BatchAssumption DEF BatchInv
<1>1. ASSUME NEW i \in Ids, Mount(i) PROVE BatchInv'
  <2>1. UNCHANGED <<loader, viewer, cache, inflight, epoch, server>>
    BY <1>1 DEF Mount
  <2>2. BatchesTyped' /\ BatchesOwned'
    BY <2>1, BatchesKept
  <2>3. Typed' /\ CacheOwned'
    BY <2>1 DEF Typed, CacheOwned
  <2>4. NobodyWaits' /\ NothingStranded'
    BY <1>1 DEF Mount, NobodyWaits, NothingStranded, Registered, Scheduled, Active, Personal
  <2> QED BY <2>2, <2>3, <2>4
<1>2. ASSUME NEW i \in Ids, Unmount(i) PROVE BatchInv'
  <2>1. UNCHANGED <<loader, viewer, cache, inflight, epoch, server, pending, timer>>
    BY <1>2 DEF Unmount
  <2>2. BatchesTyped' /\ BatchesOwned'
    BY <2>1, BatchesKept
  <2> QED BY <2>1, <2>2 DEF Typed, CacheOwned, NobodyWaits, NothingStranded
<1>3. CASE Flush
  <2>1. UNCHANGED <<loader, viewer, cache, epoch, server>> /\ timer' = FALSE
    BY <1>3 DEF Flush
  <2>2. Typed' /\ CacheOwned'
    BY <2>1 DEF Typed, CacheOwned
  <2>3. pending' = {}
    BY <1>3 DEF Flush, Active, Personal, NobodyWaits
  <2>4. \A b \in inflight' : b \in inflight \/
          (/\ b.viewer = viewer /\ b.scope = Scope /\ b.epoch = epoch /\ b.served = FALSE
           /\ Active(viewer))
    <3>1. CASE Active(viewer)
      <4>1. PICK p \in Chunks(pending) :
              \E s \in [p -> FreeSlots] :
                inflight' = inflight \cup
                  {[n |-> s[a], ids |-> a, viewer |-> viewer, scope |-> Scope,
                    epoch |-> epoch, result |-> <<>>, served |-> FALSE] : a \in p}
        BY <1>3, <3>1 DEF Flush
      <4> QED BY <3>1, <4>1
    <3>2. CASE ~Active(viewer)
      BY <1>3, <3>2 DEF Flush
    <3> QED BY <3>1, <3>2
  <2>5. BatchesTyped'
    BY <2>1, <2>4 DEF BatchesTyped, Typed, Scope, Scopes
  <2>6. BatchesOwned'
    BY <2>1, <2>4 DEF BatchesOwned, BatchOwned, Typed, Scope, Scopes, Personal, Active
  <2>7. NobodyWaits' /\ NothingStranded'
    BY <2>3 DEF NobodyWaits, NothingStranded
  <2> QED BY <2>2, <2>5, <2>6, <2>7
<1>4. ASSUME NEW b \in inflight, Serve(b) PROVE BatchInv'
  <2>1. UNCHANGED <<loader, viewer, cache, epoch, server, pending, timer>>
    BY <1>4 DEF Serve
  <2>2. Typed' /\ CacheOwned' /\ NobodyWaits' /\ NothingStranded'
    BY <2>1 DEF Typed, CacheOwned, NobodyWaits, NothingStranded
  <2> DEFINE result == [i \in (IF Personal THEN b.ids ELSE b.ids \ Hidden) |->
                          Entry(server[Of(b.viewer)][i], b.viewer)]
             new == [n |-> b.n, ids |-> b.ids, viewer |-> b.viewer, scope |-> b.scope,
                     epoch |-> b.epoch, served |-> TRUE, result |-> result]
  <2>3. inflight' = (inflight \ {b}) \cup {new}
    BY <1>4 DEF Serve
  <2>4. new.viewer = b.viewer /\ new.scope = b.scope /\ new.epoch = b.epoch
    OBVIOUS
  <2>5. \A i \in Ids : i \in DOMAIN new.result =>
           new.result[i] \in Entries /\ new.result[i].viewer = b.viewer
    <3>1. b.viewer \in Scopes /\ Of(b.viewer) \in Scopes
      BY DEF BatchesTyped, Of, Scopes
    <3>2. \A i \in Ids : server[Of(b.viewer)][i] \in Nat
      BY <3>1 DEF Typed
    <3>3. \A i \in Ids : i \in DOMAIN new.result =>
             new.result[i] = Entry(server[Of(b.viewer)][i], b.viewer)
      OBVIOUS
    <3> QED BY <3>1, <3>2, <3>3 DEF Entry, Entries
  <2> HIDE DEF new
  <2>6. BatchesTyped'
    BY <2>3, <2>4, <2>5 DEF BatchesTyped
  <2>7. BatchesOwned'
    BY <2>1, <2>3, <2>4, <2>5 DEF BatchesOwned, BatchOwned, Personal
  <2> QED BY <2>2, <2>6, <2>7
<1>5. ASSUME NEW b \in inflight, Answer(b) PROVE BatchInv'
  <2>1. UNCHANGED <<loader, viewer, epoch, server>> /\ inflight' \subseteq inflight
    BY <1>5 DEF Answer
  <2>2. BatchesTyped' /\ BatchesOwned'
    BY <2>1, BatchesKept
  <2>3. CASE ~Kept(b)
    BY <1>5, <2>1, <2>2, <2>3 DEF Answer, Typed, CacheOwned, NobodyWaits, NothingStranded
  <2>4. CASE Kept(b)
    <3> DEFINE c == [cache EXCEPT ![Target(b)] = [i \in Ids |->
                        IF i \in DOMAIN b.result THEN b.result[i] ELSE cache[Target(b)][i]]]
    <3>1. Rerender(c, pending) /\ b.served
      BY <1>5, <2>4 DEF Answer
    <3>2. NobodyWaits' /\ NothingStranded'
      BY <2>1, <3>1, RerenderKeeps DEF NobodyWaits
    <3>3. b.scope \in Scopes /\ Target(b) = b.scope
      BY DEF BatchesTyped, Target
    <3>4. cache' = c
      BY <3>1 DEF Rerender
    <3>5. cache' \in [Scopes -> [Ids -> Entries]]
      BY <3>1, <3>3, <3>4 DEF Typed, BatchesTyped
    <3>6. \A s \in Scopes, i \in Ids :
             \/ cache'[s][i] = cache[s][i]
             \/ s = b.scope /\ i \in DOMAIN b.result /\ cache'[s][i] = b.result[i]
      BY <3>3, <3>4 DEF Typed
    <3>7. CacheOwned'
      <4>1. CASE Personal
        <5>1. BatchOwned(b)
          BY <4>1 DEF BatchesOwned
        <5>2. loader = "plan" => b.viewer = viewer
          BY <2>4, <5>1 DEF BatchOwned, Kept
        <5> QED BY <2>1, <3>1, <3>6, <5>1, <5>2 DEF CacheOwned, BatchOwned, Scopes
      <4>2. CASE ~Personal
        BY <2>1, <4>2 DEF CacheOwned, Personal
      <4> QED BY <4>1, <4>2
    <3> QED BY <2>1, <2>2, <3>2, <3>5, <3>7 DEF Typed
  <2> QED BY <2>3, <2>4
<1>6. ASSUME NEW b \in inflight, Fail(b) PROVE BatchInv'
  <2>1. /\ UNCHANGED <<loader, viewer, cache, epoch, server, pending, timer>>
        /\ inflight' \subseteq inflight
    BY <1>6 DEF Fail
  <2>2. BatchesTyped' /\ BatchesOwned'
    BY <2>1, BatchesKept
  <2> QED BY <2>1, <2>2 DEF Typed, CacheOwned, NobodyWaits, NothingStranded
<1>7. ASSUME NEW who \in Scopes, SwitchViewer(who) PROVE BatchInv'
  <2>1. UNCHANGED <<loader, inflight, server>> /\ viewer' = who /\ who # viewer
    BY <1>7 DEF SwitchViewer
  <2>2. NoEntry \in Entries /\ ~NoEntry.known
    BY DEF NoEntry, Entries, Scopes
  <2> DEFINE emptied == cache' = [cache EXCEPT ![NoUser] = EmptyCache]
  <2>3. CASE loader = "plan"
    <3>1. SwitchPlan(who)
      BY <1>7, <2>3 DEF SwitchViewer
    <3>2. emptied /\ epoch' = epoch + 1
      BY <3>1 DEF SwitchPlan
    <3>3. \A i \in Ids : cache'[NoUser][i] = NoEntry
      BY <3>2 DEF EmptyCache, Typed, Scopes
    <3>4. Typed'
      <4>1. EmptyCache \in [Ids -> Entries]
        BY <2>2 DEF EmptyCache
      <4>2. cache' \in [Scopes -> [Ids -> Entries]]
        BY <3>2, <4>1 DEF Typed
      <4> QED BY <2>1, <3>2, <4>2 DEF Typed
    <3>5. CacheOwned'
      BY <2>1, <2>2, <2>3, <3>3 DEF CacheOwned
    <3>6. BatchesOwned'
      BY <2>1, <2>3, <3>2 DEF BatchesOwned, BatchOwned, Typed, Personal
    <3>7. BatchesTyped'
      BY <2>1 DEF BatchesTyped
    <3>8. NobodyWaits' /\ NothingStranded'
      BY <2>1, <2>3, <3>1 DEF SwitchPlan, NobodyWaits, NothingStranded
    <3> QED BY <3>4, <3>5, <3>6, <3>7, <3>8
  <2>4. CASE loader = "assets"
    <3>1. SwitchAssets(who)
      BY <1>7, <2>4 DEF SwitchViewer
    <3>2. UNCHANGED <<cache, epoch>>
      BY <3>1 DEF SwitchAssets
    <3>3. BatchesTyped' /\ BatchesOwned'
      BY <2>1, <2>4, <3>2 DEF BatchesTyped, BatchesOwned, BatchOwned, Personal
    <3>4. NobodyWaits' /\ NothingStranded'
      BY <2>1, <3>1 DEF SwitchAssets, NobodyWaits, NothingStranded
    <3> QED BY <2>1, <2>4, <3>2, <3>3, <3>4 DEF Typed, CacheOwned
  <2>5. CASE loader = "attendance"
    <3>1. SwitchAttendance
      BY <1>7, <2>5 DEF SwitchViewer
    <3>2. Typed'
      BY <2>1, <2>2, <3>1 DEF SwitchAttendance, Typed, EmptyCache
    <3>3. BatchesTyped' /\ BatchesOwned' /\ CacheOwned'
      BY <2>1, <2>5 DEF BatchesTyped, BatchesOwned, CacheOwned, Personal
    <3>4. NobodyWaits' /\ NothingStranded'
      BY <2>1, <2>5, <3>1 DEF SwitchAttendance, NobodyWaits, NothingStranded
    <3> QED BY <3>2, <3>3, <3>4
  <2>6. CASE loader \in {"ratings", "messages"}
    <3>1. UNCHANGED <<cache, pending, timer, epoch>>
      BY <1>7, <2>6 DEF SwitchViewer
    <3> QED BY <2>1, <2>6, <3>1
            DEF Typed, BatchesTyped, BatchesOwned, CacheOwned, Personal, NobodyWaits, NothingStranded
  <2> QED BY <2>3, <2>4, <2>5, <2>6 DEF Typed, Loaders
<1>8. ASSUME NEW ids \in SUBSET Ids, NEW p, Rerender(Invalidated(ids), p),
             loader # "assets", UNCHANGED <<loader, viewer, inflight, epoch, server>>
      PROVE  BatchInv'
  <2>1. cache' = Without(cache, ids)
    BY <1>8 DEF Rerender, Invalidated
  <2>2. cache' \in [Scopes -> [Ids -> Entries]] /\ CacheOwned'
    BY <1>8, <2>1, WithoutOwned
  <2>3. BatchesTyped' /\ BatchesOwned'
    BY <1>8, BatchesKept
  <2>4. NobodyWaits' /\ NothingStranded'
    BY <1>8, RerenderKeeps
  <2> QED BY <1>8, <2>2, <2>3, <2>4 DEF Typed
<1>9. ASSUME NEW i \in Ids, StartChange(i) PROVE BatchInv'
  <2>1. UNCHANGED <<loader, viewer, inflight, epoch, server>>
    BY <1>9 DEF StartChange
  <2>2. CASE loader = "attendance"
    BY <1>8, <1>9, <2>1, <2>2 DEF StartChange, Invalidate
  <2>3. CASE loader # "attendance"
    <3>1. UNCHANGED <<cache, pending, timer>>
      BY <1>9, <2>3 DEF StartChange
    <3>2. BatchesTyped' /\ BatchesOwned'
      BY <2>1, BatchesKept
    <3> QED BY <2>1, <3>1, <3>2 DEF Typed, CacheOwned, NobodyWaits, NothingStranded
  <2> QED BY <2>2, <2>3
<1>10. ASSUME NEW i \in Ids, ServeChange(i) PROVE BatchInv'
  <2>1. /\ UNCHANGED <<loader, viewer, inflight, epoch, cache, pending, timer>>
        /\ server' = [server EXCEPT ![Of(viewer)][i] = @ + 1]
    BY <1>10 DEF ServeChange
  <2>2. server' \in [Scopes -> [Ids -> Nat]]
    <3> DEFINE who == Of(viewer)
               row == [server[who] EXCEPT ![i] = @ + 1]
    <3>1. who \in Scopes
      BY DEF Of, Typed, Scopes
    <3> HIDE DEF who
    <3>2. row \in [Ids -> Nat]
      BY <3>1 DEF Typed
    <3>3. server' = [server EXCEPT ![who] = row]
      BY <2>1, <3>1 DEF Typed, who
    <3> QED BY <3>1, <3>2, <3>3 DEF Typed
  <2>3. BatchesTyped' /\ BatchesOwned'
    BY <2>1, BatchesKept
  <2> QED BY <2>1, <2>2, <2>3 DEF Typed, CacheOwned, NobodyWaits, NothingStranded
<1>11. ASSUME NEW i \in Ids, EndChange(i) PROVE BatchInv'
  <2>1. UNCHANGED <<loader, viewer, inflight, epoch, server>>
    BY <1>11 DEF EndChange
  <2>2. CASE loader \in {"attendance", "ratings"}
    BY <1>8, <1>11, <2>1, <2>2 DEF EndChange, Invalidate
  <2>3. CASE Personal /\ viewer # NoUser
    <3> DEFINE e == Entry(server[Of(viewer)][i], viewer)
               c == Fill(cache, [j \in {i} |-> e])
    <3>1. Rerender(c, pending)
      BY <1>11, <2>3 DEF EndChange, Personal
    <3>2. e \in Entries /\ e.viewer = viewer
      BY <2>3 DEF Entry, Entries, Typed, Of
    <3>3. cache' = [cache EXCEPT ![Scope] = [j \in Ids |-> IF j \in {i} THEN e ELSE cache[Scope][j]]]
      BY <3>1 DEF Rerender, Fill
    <3> HIDE DEF e
    <3>4. Scope \in Scopes
      BY DEF Scope, Typed, Scopes
    <3>5. cache' \in [Scopes -> [Ids -> Entries]]
      BY <3>2, <3>3, <3>4 DEF Typed
    <3>6. \A s \in Scopes, j \in Ids : cache'[s][j] = cache[s][j] \/ (s = Scope /\ cache'[s][j] = e)
      BY <3>3, <3>4 DEF Typed
    <3>7. CacheOwned'
      BY <2>1, <3>2, <3>6 DEF CacheOwned, Scope, Scopes
    <3>8. NobodyWaits' /\ NothingStranded'
      BY <2>1, <2>3, <3>1, RerenderKeeps
    <3>9. BatchesTyped' /\ BatchesOwned'
      BY <2>1, BatchesKept
    <3> QED BY <2>1, <3>5, <3>7, <3>8, <3>9 DEF Typed
  <2>4. CASE loader \notin {"attendance", "ratings"} /\ ~(Personal /\ viewer # NoUser)
    <3>1. UNCHANGED <<cache, pending, timer>>
      BY <1>11, <2>4 DEF EndChange
    <3>2. BatchesTyped' /\ BatchesOwned'
      BY <2>1, BatchesKept
    <3> QED BY <2>1, <3>1, <3>2 DEF Typed, CacheOwned, NobodyWaits, NothingStranded
  <2> QED BY <2>2, <2>3, <2>4
<1>12. ASSUME NEW ids \in SUBSET Ids, InvalidateMany(ids) PROVE BatchInv'
  BY <1>8, <1>12 DEF InvalidateMany
<1>13. CASE UNCHANGED vars
  <2>1. UNCHANGED <<loader, viewer, cache, inflight, epoch, server, pending, timer>>
    BY <1>13 DEF vars
  <2>2. BatchesTyped' /\ BatchesOwned'
    BY <2>1, BatchesKept
  <2> QED BY <2>1, <2>2 DEF Typed, CacheOwned, NobodyWaits, NothingStranded
<1> QED
  BY <1>1, <1>2, <1>3, <1>4, <1>5, <1>6, <1>7, <1>9, <1>10, <1>11, <1>12, <1>13 DEF Next, Scopes

THEOREM BatchInvariant == Spec => []BatchInv
<1>1. Spec => Init /\ [][Next]_vars
  BY PTL DEF Spec
<1> QED BY <1>1, InitBatch, NextBatch, PTL

\* Plan counts and asset summaries shown are always the viewer's own
\* (MyPlanCountContext, EventAssetSummaryContext), for any number of viewers,
\* events and batches under way.
THEOREM OwnRowsOnlyHolds == Spec => []OwnRowsOnly
<1>1. BatchInv => OwnRowsOnly
  BY DEF BatchInv, CacheOwned, OwnRowsOnly, Personal, Cached, Scope, Typed, Scopes, Loaders
<1> QED BY <1>1, BatchInvariant, PTL

\* No event waits for a batch that no timer will send.
THEOREM NothingStrandedHolds == Spec => []NothingStranded
<1>1. BatchInv => NothingStranded
  BY DEF BatchInv
<1> QED BY <1>1, BatchInvariant, PTL

----------------------------------------------------------------------------
(* Every card is served, with what the server has *)

Phases == {"none", "sent", "done"}

\* The rest of the type, with the size of a batch.
CountersTyped ==
    /\ mounted \subseteq Ids /\ pending \subseteq Ids /\ timer \in BOOLEAN
    /\ change \in [Ids -> Phases]
    /\ faults \in Nat /\ overtaken \subseteq Ids
    /\ \A b \in inflight : b.ids \subseteq Ids /\ Cardinality(b.ids) \in 1..MaxBatch

\* The events a batch is answered with.
AnswersTo(b) == IF Personal THEN b.ids ELSE b.ids \ Hidden

\* What is known of a batch: whose cache it will fill, and what an answer has.
BatchAnswers(b) ==
    /\ b.scope = IF loader = "assets" THEN b.viewer ELSE NoUser
    /\ b.epoch \in Nat
    /\ b.served \in BOOLEAN
    /\ b.served => /\ DOMAIN b.result = AnswersTo(b)
                   /\ \A i \in AnswersTo(b) :
                        b.result[i].known /\ b.result[i].viewer = b.viewer
BatchesAnswer == \A b \in inflight : BatchAnswers(b)

\* A batch whose answer will reach the cache the cards read now.
Underway(i) ==
    \E b \in inflight :
        i \in b.ids /\ b.scope = Scope /\ (loader = "plan" => b.epoch = epoch)

\* A card's event is cached, waits, or is in such a batch.
InCare(i) ==
    i \in Cached(cache) \/ i \in pending \/ Underway(i) \/ (i \in Hidden /\ ~Personal)
CardsInCare == faults = 0 /\ Active(viewer) => \A i \in mounted : InCare(i)

\* Whoever changes something personal is signed in until it is answered.
ChangeOwned == Personal => \A i \in Ids : change[i] # "none" => viewer # NoUser

\* A value is the server's, or of an event whose change by this viewer the
\* server has taken and the caches have not heard of.
Fresh(e, i) ==
    \/ e.value = server[Of(e.viewer)][i]
    \/ change[i] = "done" /\ Of(e.viewer) = Of(viewer)

\* The caches that are read: one per viewer for assets, else one.
Read(s) == loader = "assets" \/ s = NoUser

CacheFresh ==
    loader # "messages" =>
        \A s \in Scopes, i \in Ids \ overtaken :
            Read(s) /\ cache[s][i].known => Fresh(cache[s][i], i)
BatchesFresh ==
    loader # "messages" =>
        \A b \in inflight : b.served =>
            \A i \in AnswersTo(b) \ overtaken : Fresh(b.result[i], i)

\* The second inductive invariant, on top of BatchInv.
CardsInv ==
    /\ CountersTyped
    /\ BatchesAnswer
    /\ CardsInCare
    /\ ChangeOwned
    /\ CacheFresh
    /\ BatchesFresh

\* Registering again leaves every mounted card cached or waiting.
LEMMA RerenderCares ==
  ASSUME NEW c, NEW p, Rerender(c, p), mounted \subseteq Ids,
         UNCHANGED <<loader, viewer, mounted>>
  PROVE  CardsInCare'
BY DEF Rerender, Registered, CardsInCare, InCare, Cached, Scope, Active, Personal

\* What batches know is kept while they are only answered or dropped.
LEMMA AnswersKept ==
  ASSUME BatchesAnswer, inflight' \subseteq inflight, UNCHANGED loader
  PROVE  BatchesAnswer'
BY DEF BatchesAnswer, BatchAnswers, AnswersTo, Personal

\* A value stays fresh while the server, the viewer and the changes stay.
LEMMA FreshStays ==
  ASSUME BatchesFresh, inflight' \subseteq inflight, overtaken \subseteq overtaken',
         UNCHANGED <<loader, viewer, server, change>>
  PROVE  BatchesFresh'
BY DEF BatchesFresh, AnswersTo, Personal, Fresh, Of

LEMMA CacheStaysFresh ==
  ASSUME CacheFresh, overtaken \subseteq overtaken',
         \A s \in Scopes, i \in Ids :
            cache'[s][i] = cache[s][i] \/ ~cache'[s][i].known,
         UNCHANGED <<loader, viewer, server, change>>
  PROVE  CacheFresh'
BY DEF CacheFresh, Read, Fresh, Of, Personal

\* Invalidated entries are gone, the others are as they were.
LEMMA InvalidatedForgets ==
  ASSUME Typed, NEW ids, cache' = Without(cache, ids)
  PROVE  /\ \A s \in Scopes, i \in Ids : cache'[s][i] = cache[s][i] \/ ~cache'[s][i].known
         /\ \A i \in Ids : i \in ids => ~cache'[Scope][i].known
<1>1. cache' = [cache EXCEPT ![Scope] = [i \in Ids |-> IF i \in ids THEN NoEntry ELSE cache[Scope][i]]]
  BY DEF Without
<1>2. Scope \in Scopes /\ ~NoEntry.known
  BY BatchAssumption DEF Scope, Typed, Scopes, NoEntry
<1> QED BY <1>1, <1>2 DEF Typed

\* The chunks of what waits are batches, and cover it.
LEMMA ChunksAreBatches ==
  ASSUME NEW ids \in SUBSET Ids, NEW p \in Chunks(ids)
  PROVE  /\ UNION p = ids
         /\ \A a \in p : a \subseteq Ids /\ Cardinality(a) \in 1..MaxBatch
<1>1. UNION p = ids /\ \A a \in p : a \subseteq ids /\ a # {} /\ Cardinality(a) <= MaxBatch
  BY DEF Chunks
<1>2. ASSUME NEW a \in p PROVE a \subseteq Ids /\ Cardinality(a) \in 1..MaxBatch
  <2>1. a \in SUBSET Ids /\ a # {}
    BY <1>1, <1>2
  <2>2. IsFiniteSet(a)
    BY <2>1, FS_Subset, BatchAssumption
  <2>3. Cardinality(a) \in Nat /\ Cardinality(a) # 0
    BY <2>1, <2>2, FS_CardinalityType, FS_EmptySet
  <2> QED BY <1>1, <2>1, <2>3, BatchAssumption
<1> QED BY <1>1, <1>2

LEMMA InitCards == Init => CardsInv
<1> SUFFICES ASSUME Init PROVE CardsInv
  OBVIOUS
<1>1. \A s \in Scopes, i \in Ids : ~cache[s][i].known
  BY DEF Init, EmptyCache, NoEntry, Scopes
<1>2. CountersTyped
  BY DEF Init, CountersTyped, Phases
<1>3. CacheFresh
  BY <1>1 DEF CacheFresh
<1> QED BY <1>2, <1>3 DEF Init, CardsInv, BatchesAnswer, CardsInCare, ChangeOwned, BatchesFresh

\* A step that only invalidates and registers again.
LEMMA InvalidationKeeps ==
  ASSUME Typed, CardsInv, NEW ids \in SUBSET Ids, NEW p \in SUBSET Ids,
         Rerender(Invalidated(ids), p),
         UNCHANGED <<loader, viewer, mounted, inflight, epoch, server, faults>>,
         change' \in [Ids -> Phases], overtaken' \in SUBSET Ids, overtaken \subseteq overtaken'
  PROVE  /\ CountersTyped' /\ BatchesAnswer' /\ CardsInCare'
         /\ \A s \in Scopes, i \in Ids : cache'[s][i] = cache[s][i] \/ ~cache'[s][i].known
         /\ \A i \in ids : ~cache'[Scope][i].known
<1>1. cache' = Without(cache, ids)
  BY DEF Rerender, Invalidated
<1>2. BatchesAnswer'
  BY AnswersKept DEF CardsInv
<1>3. CardsInCare'
  BY RerenderCares DEF CardsInv, CountersTyped
<1>4. CountersTyped'
  BY DEF CardsInv, CountersTyped, Rerender, Registered, Scheduled
<1> QED BY <1>1, <1>2, <1>3, <1>4, InvalidatedForgets

LEMMA FlushCards ==
  ASSUME BatchInv, CardsInv, Flush
  PROVE  CardsInv'
<1> USE BatchAssumption DEF BatchInv, CardsInv
<1>1. /\ UNCHANGED <<loader, viewer, mounted, cache, epoch, server, change, faults, overtaken>>
      /\ timer' = FALSE
  BY DEF Flush
<1>2. CASE Active(viewer)
  <2> DEFINE Sent(a, n) == [n |-> n, ids |-> a, viewer |-> viewer, scope |-> Scope,
                            epoch |-> epoch, result |-> <<>>, served |-> FALSE]
  <2>1. PICK p \in Chunks(pending) : \E s \in [p -> FreeSlots] :
          inflight' = inflight \cup {Sent(a, s[a]) : a \in p}
    BY <1>2 DEF Flush
  <2>2. PICK s \in [p -> FreeSlots] : inflight' = inflight \cup {Sent(a, s[a]) : a \in p}
    BY <2>1
  <2>3. UNION p = pending /\ \A a \in p : a \subseteq Ids /\ Cardinality(a) \in 1..MaxBatch
    BY ChunksAreBatches DEF CountersTyped
  <2>4. pending' = {}
    BY <1>2 DEF Flush
  <2>5. \A b \in inflight' : b \in inflight \/ \E a \in p : b = Sent(a, s[a])
    BY <2>2
  <2>6. \A a, n : /\ Sent(a, n).ids = a /\ Sent(a, n).viewer = viewer
                  /\ Sent(a, n).scope = Scope /\ Sent(a, n).epoch = epoch
                  /\ Sent(a, n).served = FALSE
    OBVIOUS
  <2> HIDE DEF Sent
  <2>0. \A b \in inflight' : b \in inflight \/
           (/\ b.ids \in p /\ b.viewer = viewer /\ b.scope = Scope
            /\ b.epoch = epoch /\ b.served = FALSE)
    BY <2>5, <2>6
  <2>7. CountersTyped'
    BY <1>1, <2>0, <2>3, <2>4 DEF CountersTyped
  <2>8. BatchesAnswer'
    BY <1>1, <2>0 DEF BatchesAnswer, BatchAnswers, AnswersTo, Personal, Scope, Typed
  <2>9. CardsInCare'
    <3> SUFFICES ASSUME faults = 0, NEW i \in mounted PROVE InCare(i)'
      BY <1>1, <1>2 DEF CardsInCare
    <3>1. InCare(i)
      BY <1>2 DEF CardsInCare
    <3>2. CASE i \in pending
      <4>1. PICK a \in p : i \in a
        BY <2>3, <3>2
      <4>2. Sent(a, s[a]) \in inflight'
        BY <2>2
      <4> QED BY <1>1, <2>6, <4>1, <4>2 DEF InCare, Underway, Scope
    <3>3. CASE Underway(i)
      BY <1>1, <2>2, <3>3 DEF InCare, Underway, Scope
    <3>4. CASE i \in Cached(cache) \/ (i \in Hidden /\ ~Personal)
      BY <1>1, <3>4 DEF InCare, Cached, Scope, Personal
    <3> QED BY <3>1, <3>2, <3>3, <3>4 DEF InCare
  <2>10. ChangeOwned' /\ CacheFresh'
    BY <1>1, CacheStaysFresh DEF ChangeOwned, Personal
  <2>11. BatchesFresh'
    BY <1>1, <2>0 DEF BatchesFresh, AnswersTo, Personal, Fresh, Of
  <2> QED BY <2>7, <2>8, <2>9, <2>10, <2>11
<1>3. CASE ~Active(viewer)
  <2>1. UNCHANGED inflight /\ pending' \subseteq pending
    BY <1>3 DEF Flush
  <2>2. CountersTyped'
    BY <1>1, <2>1 DEF CountersTyped
  <2>3. BatchesAnswer' /\ BatchesFresh' /\ CacheFresh'
    BY <1>1, <2>1, AnswersKept, FreshStays, CacheStaysFresh
  <2>4. CardsInCare' /\ ChangeOwned'
    BY <1>1, <1>3 DEF CardsInCare, Active, Personal, ChangeOwned
  <2> QED BY <2>2, <2>3, <2>4
<1> QED BY <1>2, <1>3

LEMMA ServeCards ==
  ASSUME BatchInv, CardsInv, NEW b \in inflight, Serve(b)
  PROVE  CardsInv'
<1> USE BatchAssumption DEF BatchInv, CardsInv
<1>1. UNCHANGED <<loader, viewer, mounted, cache, pending, timer, epoch, server, change,
                  faults, overtaken>>
  BY DEF Serve
<1> DEFINE result == [i \in AnswersTo(b) |-> Entry(server[Of(b.viewer)][i], b.viewer)]
           served == [n |-> b.n, ids |-> b.ids, viewer |-> b.viewer, scope |-> b.scope,
                      epoch |-> b.epoch, served |-> TRUE, result |-> result]
<1>2. inflight' = (inflight \ {b}) \cup {served}
  BY DEF Serve, AnswersTo
<1>3. /\ served.ids = b.ids /\ served.viewer = b.viewer /\ served.scope = b.scope
      /\ served.epoch = b.epoch /\ served.served = TRUE
  OBVIOUS
<1>4. /\ DOMAIN served.result = AnswersTo(b)
      /\ \A i \in AnswersTo(b) : /\ served.result[i].known
                                 /\ served.result[i].viewer = b.viewer
                                 /\ served.result[i].value = server[Of(b.viewer)][i]
  BY DEF Entry
<1> HIDE DEF served
<1>5. PICK new : new = served
  OBVIOUS
<1>6. CountersTyped'
  BY <1>1, <1>2, <1>3 DEF CountersTyped
<1>7. BatchesAnswer'
  <2>1. BatchAnswers(new)'
    BY <1>1, <1>3, <1>4, <1>5 DEF BatchAnswers, BatchesAnswer, AnswersTo, Personal
  <2>2. \A c \in inflight : BatchAnswers(c)'
    BY <1>1 DEF BatchAnswers, BatchesAnswer, AnswersTo, Personal
  <2> QED BY <1>2, <1>5, <2>1, <2>2 DEF BatchesAnswer
<1>8. CardsInCare' /\ ChangeOwned'
  <2>1. \A i : Underway(i) => Underway(i)'
    BY <1>1, <1>2, <1>3 DEF Underway, Scope
  <2> QED BY <1>1, <2>1 DEF CardsInCare, InCare, Cached, Scope, Active, Personal, ChangeOwned
<1>9. CacheFresh'
  BY <1>1, CacheStaysFresh
<1>10. BatchesFresh'
  <2>1. \A i \in AnswersTo(b) : Fresh(new.result[i], i)'
    BY <1>1, <1>4, <1>5 DEF Fresh, Of, Personal
  <2>2. \A c \in inflight : \A i : Fresh(c.result[i], i) => Fresh(c.result[i], i)'
    BY <1>1 DEF Fresh, Of, Personal
  <2>3. AnswersTo(new)' = AnswersTo(b)
    BY <1>1, <1>3, <1>5 DEF AnswersTo, Personal
  <2>4. \A c \in inflight : AnswersTo(c)' = AnswersTo(c)
    BY <1>1 DEF AnswersTo, Personal
  <2> QED BY <1>1, <1>2, <1>5, <2>1, <2>2, <2>3, <2>4 DEF BatchesFresh
<1> QED BY <1>6, <1>7, <1>8, <1>9, <1>10

LEMMA AnswerCards ==
  ASSUME BatchInv, CardsInv, NEW b \in inflight, Answer(b)
  PROVE  CardsInv'
<1> USE BatchAssumption DEF BatchInv, CardsInv
<1>1. /\ UNCHANGED <<loader, viewer, mounted, epoch, server, change, faults, overtaken>>
      /\ inflight' = inflight \ {b} /\ b.served
  BY DEF Answer
<1>2. BatchesAnswer' /\ BatchesFresh' /\ ChangeOwned'
  BY <1>1, AnswersKept, FreshStays DEF ChangeOwned, Personal
<1>3. DOMAIN b.result = AnswersTo(b) /\ b.scope \in Scopes /\ BatchAnswers(b)
  BY <1>1 DEF BatchesAnswer, BatchAnswers, BatchesTyped
<1>4. CASE ~Kept(b)
  <2>1. UNCHANGED <<cache, pending, timer>>
    BY <1>4 DEF Answer
  <2>2. CountersTyped' /\ CacheFresh'
    BY <1>1, <2>1, CacheStaysFresh DEF CountersTyped
  <2>3. ASSUME NEW i \in Ids, InCare(i) PROVE InCare(i)'
    <3>1. CASE ~Underway(i)
      BY <1>1, <2>1, <2>3, <3>1 DEF InCare, Cached, Scope, Personal
    <3>2. CASE Underway(i)
      <4>1. PICK c \in inflight : /\ i \in c.ids /\ c.scope = Scope
                                  /\ (loader = "plan" => c.epoch = epoch)
        BY <3>2 DEF Underway
      <4>2. CASE c # b
        BY <1>1, <4>1, <4>2 DEF InCare, Underway, Scope
      <4>3. CASE c = b
        BY <1>1, <1>3, <1>4, <4>1, <4>3 DEF Kept, AnswersTo, InCare, Personal
      <4> QED BY <4>2, <4>3
    <3> QED BY <3>1, <3>2
  <2>4. CardsInCare'
    BY <1>1, <2>3 DEF CardsInCare, CountersTyped, Active, Personal
  <2> QED BY <1>2, <2>2, <2>4
<1>5. CASE Kept(b)
  <2> DEFINE c == [cache EXCEPT ![Target(b)] = [i \in Ids |->
                      IF i \in DOMAIN b.result THEN b.result[i] ELSE cache[Target(b)][i]]]
  <2>1. Rerender(c, pending)
    BY <1>5 DEF Answer
  <2>2. CardsInCare'
    BY <1>1, <2>1, RerenderCares DEF CountersTyped
  <2>3. cache' = c
    BY <2>1 DEF Rerender
  <2>4. \A s \in Scopes, i \in Ids :
           \/ cache'[s][i] = cache[s][i]
           \/ i \in AnswersTo(b) /\ cache'[s][i] = b.result[i]
    BY <1>3, <2>3 DEF Typed, Target
  <2> HIDE DEF c
  <2>5. CountersTyped'
    BY <1>1, <2>1 DEF CountersTyped, Rerender, Registered, Scheduled
  <2>6. CacheFresh'
    BY <1>1, <2>4 DEF CacheFresh, BatchesFresh, Fresh, Of, Personal, Read
  <2> QED BY <1>2, <2>2, <2>5, <2>6
<1> QED BY <1>4, <1>5

LEMMA SwitchCards ==
  ASSUME BatchInv, CardsInv, NEW who \in Scopes, SwitchViewer(who)
  PROVE  CardsInv'
<1> USE BatchAssumption DEF BatchInv, CardsInv
<1>1. /\ UNCHANGED <<loader, mounted, inflight, server, change, faults, overtaken>>
      /\ viewer' = who /\ who # viewer
      /\ Personal => \A i \in Ids : change[i] = "none"
  BY DEF SwitchViewer
<1>2. NoEntry.known = FALSE /\ mounted \subseteq Ids
  BY DEF NoEntry, CountersTyped
<1>3. BatchesAnswer'
  BY <1>1, AnswersKept
<1>4. ChangeOwned'
  BY <1>1 DEF ChangeOwned, Personal
<1>5. \A e, i : i \in Ids /\ Fresh(e, i) => \/ e.value = server[Of(e.viewer)][i]
                                            \/ ~Personal /\ change[i] = "done"
  BY <1>1 DEF Fresh
<1>6. BatchesFresh'
  <2>1. \A b \in inflight : AnswersTo(b)' = AnswersTo(b) /\ AnswersTo(b) \subseteq b.ids
    BY <1>1 DEF AnswersTo, Personal
  <2>2. \A b \in inflight : \A i \in Ids : Fresh(b.result[i], i) => Fresh(b.result[i], i)'
    BY <1>1, <1>5 DEF Fresh, Of, Personal
  <2> QED BY <1>1, <2>1, <2>2 DEF BatchesFresh, CountersTyped
<1>7. ASSUME \A s \in Scopes, i \in Ids : cache'[s][i] = cache[s][i] \/ ~cache'[s][i].known
      PROVE  CacheFresh'
  <2>1. \A s \in Scopes : \A i \in Ids :
          Fresh(cache[s][i], i) /\ cache'[s][i] = cache[s][i] => Fresh(cache[s][i], i)'
    BY <1>1, <1>5 DEF Fresh, Of, Personal
  <2> QED BY <1>1, <1>5, <1>7 DEF CacheFresh, Read, Fresh, Of, Personal
<1>8. CASE loader = "attendance"
  <2>1. SwitchAttendance
    BY <1>8 DEF SwitchViewer
  <2>2. CountersTyped'
    BY <1>1, <2>1 DEF SwitchAttendance, CountersTyped
  <2>3. CardsInCare'
    BY <1>1, <2>1 DEF SwitchAttendance, CardsInCare, InCare
  <2>4. CacheFresh'
    BY <1>2, <1>7, <2>1 DEF SwitchAttendance, EmptyCache, Typed, Scopes
  <2> QED BY <1>3, <1>4, <1>6, <2>2, <2>3, <2>4
<1>9. CASE loader = "plan"
  <2>1. SwitchPlan(who)
    BY <1>9 DEF SwitchViewer
  <2>2. CountersTyped'
    BY <1>1, <1>2, <2>1 DEF SwitchPlan, CountersTyped
  <2>3. CardsInCare'
    BY <1>1, <1>9, <2>1 DEF SwitchPlan, CardsInCare, InCare, Active, Personal
  <2>4. CacheFresh'
    BY <1>2, <1>7, <2>1 DEF SwitchPlan, EmptyCache, Typed, Scopes
  <2> QED BY <1>3, <1>4, <1>6, <2>2, <2>3, <2>4
<1>10. CASE loader = "assets"
  <2>1. SwitchAssets(who)
    BY <1>10 DEF SwitchViewer
  <2>2. CountersTyped'
    BY <1>1, <1>2, <2>1 DEF SwitchAssets, CountersTyped
  <2>3. CardsInCare'
    BY <1>1, <1>2, <1>10, <2>1
       DEF SwitchAssets, CardsInCare, InCare, Active, Personal, Cached, Scope
  <2>4. CacheFresh'
    BY <1>7, <2>1 DEF SwitchAssets
  <2> QED BY <1>3, <1>4, <1>6, <2>2, <2>3, <2>4
<1>11. CASE loader \in {"ratings", "messages"}
  <2>1. UNCHANGED <<cache, pending, timer, epoch>>
    BY <1>11 DEF SwitchViewer
  <2>2. CountersTyped' /\ CacheFresh'
    BY <1>1, <1>7, <2>1 DEF CountersTyped
  <2>3. CardsInCare'
    BY <1>1, <1>11, <2>1
       DEF CardsInCare, InCare, Active, Personal, Cached, Scope, Underway
  <2> QED BY <1>3, <1>4, <1>6, <2>2, <2>3
<1> QED BY <1>8, <1>9, <1>10, <1>11 DEF Typed, Loaders

\* The server takes a change: what is cached of the event may be old until the
\* caches hear of it.
LEMMA ServeChangeCards ==
  ASSUME BatchInv, CardsInv, NEW i \in Ids, ServeChange(i)
  PROVE  CardsInv'
<1> USE BatchAssumption DEF BatchInv, CardsInv
<1>1. /\ UNCHANGED <<loader, viewer, mounted, cache, pending, timer, inflight, epoch, faults,
                    overtaken>>
      /\ change[i] = "sent" /\ change' = [change EXCEPT ![i] = "done"]
      /\ server' = [server EXCEPT ![Of(viewer)][i] = @ + 1]
  BY DEF ServeChange
<1>2. CountersTyped'
  BY <1>1 DEF CountersTyped, Phases
<1>3. BatchesAnswer'
  BY <1>1, AnswersKept
<1>4. CardsInCare' /\ ChangeOwned'
  <2>1. \A j \in Ids : change'[j] # "none" => change[j] # "none"
    BY <1>1 DEF CountersTyped
  <2>2. CardsInCare'
    BY <1>1 DEF CardsInCare, InCare, Cached, Scope, Active, Personal, Underway
  <2> QED BY <1>1, <2>1, <2>2 DEF ChangeOwned, Personal
<1>5. ASSUME NEW e, NEW j \in Ids, e.viewer \in Scopes, Fresh(e, j)
      PROVE  \/ e.value = server'[Of(e.viewer)][j]
             \/ change'[j] = "done" /\ Of(e.viewer) = Of(viewer)
  <2>1. Of(e.viewer) \in Scopes /\ Of(viewer) \in Scopes
    BY <1>5 DEF Of, Typed, Scopes
  <2>2. CASE j = i /\ Of(e.viewer) = Of(viewer)
    BY <1>1, <2>2 DEF CountersTyped
  <2>3. CASE ~(j = i /\ Of(e.viewer) = Of(viewer))
    <3>1. server'[Of(e.viewer)][j] = server[Of(e.viewer)][j]
      BY <1>1, <2>1, <2>3 DEF Typed
    <3>2. change[j] = "done" => change'[j] = "done"
      BY <1>1 DEF CountersTyped
    <3> QED BY <1>5, <3>1, <3>2 DEF Fresh
  <2> QED BY <2>2, <2>3
<1>6. CacheFresh'
  <2>1. \A s \in Scopes : \A j \in Ids : cache[s][j].viewer \in Scopes
    BY DEF Typed, Entries
  <2>2. \A s \in Scopes : \A j \in Ids :
          Fresh(cache[s][j], j) =>
            \/ cache[s][j].value = server'[Of(cache[s][j].viewer)][j]
            \/ change'[j] = "done" /\ Of(cache[s][j].viewer) = Of(viewer)
    BY <1>5, <2>1
  <2>3. \A s \in Scopes : \A j \in Ids : Fresh(cache[s][j], j) => Fresh(cache[s][j], j)'
    BY <1>1, <2>2 DEF Fresh, Of, Personal
  <2> QED BY <1>1, <2>3 DEF CacheFresh, Read
<1>7. BatchesFresh'
  <2>1. \A b \in inflight : b.served => \A j \in AnswersTo(b) :
           b.result[j].viewer \in Scopes /\ j \in Ids
    BY DEF BatchesAnswer, BatchAnswers, BatchesTyped, AnswersTo, CountersTyped
  <2> QED BY <1>1, <1>5, <2>1 DEF BatchesFresh, AnswersTo, Fresh, Of, Personal
<1> QED BY <1>2, <1>3, <1>4, <1>6, <1>7

\* The caches hear of a change: what was read before it is forgotten, set, or,
\* in a batch still under way, named in overtaken.
LEMMA EndChangeCards ==
  ASSUME BatchInv, CardsInv, NEW i \in Ids, EndChange(i)
  PROVE  CardsInv'
<1> USE BatchAssumption DEF BatchInv, CardsInv
<1>1. /\ UNCHANGED <<loader, viewer, mounted, inflight, epoch, server, faults>>
      /\ change[i] = "done" /\ change' = [change EXCEPT ![i] = "none"]
      /\ overtaken' = IF \E b \in inflight : i \in b.ids
                      THEN overtaken \cup {i} ELSE overtaken
  BY DEF EndChange
<1>2. overtaken' \in SUBSET Ids /\ overtaken \subseteq overtaken' /\ change' \in [Ids -> Phases]
  BY <1>1 DEF CountersTyped, Phases
<1>3. \A j \in Ids : j # i => change'[j] = change[j]
  BY <1>1 DEF CountersTyped
<1>4. BatchesAnswer'
  BY <1>1, AnswersKept
<1>5. ChangeOwned'
  BY <1>1, <1>3 DEF ChangeOwned, Personal, CountersTyped
<1>6. BatchesFresh'
  <2>1. \A b \in inflight : AnswersTo(b)' = AnswersTo(b) /\ AnswersTo(b) \subseteq b.ids
    BY <1>1 DEF AnswersTo, Personal
  <2>2. \A b \in inflight : \A j \in b.ids \ overtaken' : j # i /\ j \in Ids
    BY <1>1 DEF CountersTyped
  <2>3. \A b \in inflight : \A j \in Ids \ {i} :
           Fresh(b.result[j], j) => Fresh(b.result[j], j)'
    BY <1>1, <1>3 DEF Fresh, Of, Personal
  <2> QED BY <1>1, <1>2, <2>1, <2>2, <2>3 DEF BatchesFresh
<1>7. ASSUME \A s \in Scopes : \A j \in Ids : Read(s) /\ cache'[s][j].known =>
                \/ cache'[s][j] = cache[s][j] /\ (j = i => Of(cache[s][j].viewer) # Of(viewer))
                \/ cache'[s][j].value = server[Of(cache'[s][j].viewer)][j]
      PROVE  CacheFresh'
  <2> SUFFICES ASSUME loader # "messages",
                      NEW s \in Scopes, NEW j \in Ids \ overtaken', Read(s), cache'[s][j].known
               PROVE  Fresh(cache[s][j], j)'
    BY <1>1 DEF CacheFresh, Read
  <2>1. CASE cache'[s][j].value = server[Of(cache'[s][j].viewer)][j]
    BY <1>1, <2>1 DEF Fresh, Of, Personal
  <2>2. CASE cache'[s][j] = cache[s][j] /\ (j = i => Of(cache[s][j].viewer) # Of(viewer))
    <3>1. Fresh(cache[s][j], j)
      BY <1>2, <2>2 DEF CacheFresh
    <3> QED BY <1>1, <1>3, <2>2, <3>1 DEF Fresh, Of, Personal
  <2> QED BY <1>7, <2>1, <2>2
<1>8. CASE loader \in {"attendance", "ratings"}
  <2>1. Rerender(Invalidated({i}), pending \cup ({i} \cap mounted))
    BY <1>8 DEF EndChange, Invalidate
  <2>2. /\ CountersTyped' /\ CardsInCare'
        /\ \A s \in Scopes, j \in Ids : cache'[s][j] = cache[s][j] \/ ~cache'[s][j].known
        /\ \A j \in {i} : ~cache'[Scope][j].known
    BY <1>1, <1>2, <2>1, InvalidationKeeps DEF CountersTyped
  <2>3. CacheFresh'
    BY <1>7, <1>8, <2>2 DEF Read, Scope
  <2> QED BY <1>4, <1>5, <1>6, <2>2, <2>3
<1>9. CASE Personal /\ viewer # NoUser
  <2> DEFINE e == Entry(server[Of(viewer)][i], viewer)
             c == Fill(cache, [j \in {i} |-> e])
  <2>1. Rerender(c, pending)
    BY <1>9 DEF EndChange, Personal
  <2>2. CardsInCare'
    BY <1>1, <2>1, RerenderCares DEF CountersTyped
  <2>3. e.viewer = viewer /\ e.value = server[Of(viewer)][i]
    BY DEF Entry
  <2> HIDE DEF e
  <2>4. cache' = [cache EXCEPT ![Scope] = [j \in Ids |-> IF j \in {i} THEN e ELSE cache[Scope][j]]]
    BY <2>1 DEF Rerender, Fill
  <2>5. Scope \in Scopes
    BY DEF Scope, Typed, Scopes
  <2>6. \A s \in Scopes : \A j \in Ids :
          \/ cache'[s][j] = cache[s][j] /\ (s # Scope \/ j # i)
          \/ j = i /\ cache'[s][j] = e
    BY <2>4, <2>5 DEF Typed
  <2> HIDE DEF c
  <2>7. CountersTyped'
    BY <1>1, <1>2, <2>1 DEF CountersTyped, Rerender, Registered, Scheduled
  <2>8. \A s \in Scopes : s # Scope /\ Read(s) /\ cache[s][i].known =>
           Of(cache[s][i].viewer) # Of(viewer)
    <3>1. loader = "plan" => \A s \in Scopes : Read(s) => s = Scope
      BY DEF Read, Scope
    <3>2. ASSUME loader = "assets", NEW s \in Scopes, s # Scope, cache[s][i].known
          PROVE  cache[s][i].viewer # viewer
      BY <3>2 DEF CacheOwned, Scope
    <3> QED BY <1>9, <3>1, <3>2 DEF Personal, Of
  <2>9. CacheFresh'
    BY <1>7, <1>9, <2>3, <2>6, <2>8
  <2> QED BY <1>4, <1>5, <1>6, <2>2, <2>7, <2>9
<1>10. CASE ~(loader \in {"attendance", "ratings"}) /\ ~(Personal /\ viewer # NoUser)
  <2>1. UNCHANGED <<cache, pending, timer>> /\ loader = "messages"
    BY <1>1, <1>10 DEF EndChange, ChangeOwned, Personal, Typed, Loaders
  <2>2. CountersTyped' /\ CacheFresh'
    BY <1>1, <1>2, <2>1 DEF CountersTyped, CacheFresh
  <2>3. CardsInCare'
    BY <1>1, <2>1 DEF CardsInCare, InCare, Active, Personal, Cached, Scope, Underway
  <2> QED BY <1>4, <1>5, <1>6, <2>2, <2>3
<1> QED BY <1>8, <1>9, <1>10

LEMMA NextCards == BatchInv /\ CardsInv /\ [Next]_vars => CardsInv'
<1> SUFFICES ASSUME BatchInv, CardsInv, [Next]_vars PROVE CardsInv'
  OBVIOUS
<1> USE BatchAssumption DEF BatchInv, CardsInv
<1>1. ASSUME NEW i \in Ids, Mount(i) PROVE CardsInv'
  <2>1. /\ UNCHANGED <<loader, viewer, cache, inflight, epoch, server, change, faults, overtaken>>
        /\ mounted' = mounted \cup {i} /\ pending' = Registered({i}, cache, pending)
        /\ timer' = Scheduled(pending')
    BY <1>1 DEF Mount
  <2>2. CountersTyped'
    BY <2>1 DEF CountersTyped, Registered, Scheduled
  <2>3. BatchesAnswer' /\ BatchesFresh' /\ CacheFresh'
    BY <2>1, AnswersKept, FreshStays, CacheStaysFresh
  <2>4. CardsInCare'
    BY <2>1 DEF CardsInCare, InCare, Registered, Cached, Scope, Active, Personal, Underway
  <2> QED BY <2>1, <2>2, <2>3, <2>4 DEF ChangeOwned, Personal
<1>2. ASSUME NEW i \in Ids, Unmount(i) PROVE CardsInv'
  <2>1. /\ UNCHANGED <<loader, viewer, cache, pending, timer, inflight, epoch, server, change,
                      faults, overtaken>>
        /\ mounted' = mounted \ {i}
    BY <1>2 DEF Unmount
  <2>2. BatchesAnswer' /\ BatchesFresh' /\ CacheFresh'
    BY <2>1, AnswersKept, FreshStays, CacheStaysFresh
  <2>3. CountersTyped' /\ ChangeOwned'
    BY <2>1 DEF CountersTyped, ChangeOwned, Personal
  <2>4. CardsInCare'
    BY <2>1 DEF CardsInCare, InCare, Cached, Scope, Active, Personal, Underway
  <2> QED BY <2>2, <2>3, <2>4
<1>3. ASSUME NEW b \in inflight, Fail(b) PROVE CardsInv'
  <2>1. /\ UNCHANGED <<loader, viewer, mounted, cache, pending, timer, epoch, server, change,
                      overtaken>>
        /\ inflight' = inflight \ {b} /\ faults' = faults + 1
    BY <1>3 DEF Fail
  <2>2. BatchesAnswer' /\ BatchesFresh' /\ CacheFresh'
    BY <2>1, AnswersKept, FreshStays, CacheStaysFresh
  <2>3. CountersTyped' /\ ChangeOwned' /\ CardsInCare'
    BY <2>1 DEF CountersTyped, ChangeOwned, Personal, CardsInCare
  <2> QED BY <2>2, <2>3
<1>4. ASSUME NEW i \in Ids, StartChange(i) PROVE CardsInv'
  <2>1. /\ UNCHANGED <<loader, viewer, mounted, inflight, epoch, server, faults, overtaken>>
        /\ change[i] = "none" /\ change' = [change EXCEPT ![i] = "sent"] /\ Active(viewer)
    BY <1>4 DEF StartChange
  <2>2. /\ change' \in [Ids -> Phases]
        /\ \A j \in Ids : change'[j] = "done" <=> change[j] = "done"
    BY <2>1 DEF CountersTyped, Phases
  <2>3. BatchesFresh'
    <3>1. \A b \in inflight : AnswersTo(b)' = AnswersTo(b) /\ AnswersTo(b) \subseteq Ids
      BY <2>1 DEF AnswersTo, Personal, CountersTyped
    <3>2. \A b \in inflight : \A j \in Ids : Fresh(b.result[j], j) => Fresh(b.result[j], j)'
      BY <2>1, <2>2 DEF Fresh, Of, Personal
    <3> QED BY <2>1, <3>1, <3>2 DEF BatchesFresh
  <2>4. ASSUME \A s \in Scopes, j \in Ids : cache'[s][j] = cache[s][j] \/ ~cache'[s][j].known
        PROVE  CacheFresh'
    BY <2>1, <2>2, <2>4 DEF CacheFresh, Read, Fresh, Of, Personal
  <2>5. ChangeOwned'
    BY <2>1 DEF ChangeOwned, Personal, Active, CountersTyped
  <2>6. CASE loader = "attendance"
    <3>1. Rerender(Invalidated({i}), pending \cup ({i} \cap mounted))
      BY <1>4, <2>6 DEF StartChange, Invalidate
    <3>2. /\ CountersTyped' /\ BatchesAnswer' /\ CardsInCare'
          /\ \A s \in Scopes, j \in Ids : cache'[s][j] = cache[s][j] \/ ~cache'[s][j].known
      BY <2>1, <2>2, <3>1, InvalidationKeeps DEF CountersTyped
    <3> QED BY <2>3, <2>4, <2>5, <3>2
  <2>7. CASE loader # "attendance"
    <3>1. UNCHANGED <<cache, pending, timer>>
      BY <1>4, <2>7 DEF StartChange
    <3>2. CountersTyped' /\ BatchesAnswer' /\ CacheFresh'
      BY <2>1, <2>2, <2>4, <3>1, AnswersKept DEF CountersTyped
    <3>3. CardsInCare'
      BY <2>1, <3>1 DEF CardsInCare, InCare, Active, Personal, Cached, Scope, Underway
    <3> QED BY <2>3, <2>5, <3>2, <3>3
  <2> QED BY <2>6, <2>7
<1>5. ASSUME NEW ids \in SUBSET Ids, InvalidateMany(ids) PROVE CardsInv'
  <2>1. /\ Rerender(Invalidated(ids), pending \cup (ids \cap (mounted \cup Cached(cache))))
        /\ UNCHANGED <<loader, viewer, mounted, inflight, epoch, server, change, faults, overtaken>>
    BY <1>5 DEF InvalidateMany
  <2>2. /\ CountersTyped' /\ BatchesAnswer' /\ CardsInCare'
        /\ \A s \in Scopes, j \in Ids : cache'[s][j] = cache[s][j] \/ ~cache'[s][j].known
    BY <2>1, InvalidationKeeps DEF CountersTyped
  <2>3. BatchesFresh' /\ CacheFresh'
    BY <2>1, <2>2, FreshStays, CacheStaysFresh
  <2> QED BY <2>1, <2>2, <2>3 DEF ChangeOwned, Personal
<1>6. CASE UNCHANGED vars
  <2>1. UNCHANGED <<loader, viewer, mounted, cache, pending, timer, inflight, epoch, server,
                    change, faults, overtaken>>
    BY <1>6 DEF vars
  <2>2. BatchesAnswer' /\ BatchesFresh' /\ CacheFresh'
    BY <2>1, AnswersKept, FreshStays, CacheStaysFresh
  <2>3. CountersTyped' /\ ChangeOwned'
    BY <2>1 DEF CountersTyped, ChangeOwned, Personal
  <2>4. CardsInCare'
    BY <2>1 DEF CardsInCare, InCare, Active, Personal, Cached, Scope, Underway
  <2> QED BY <2>2, <2>3, <2>4
<1> HIDE DEF BatchInv, CardsInv
<1> QED
  BY <1>1, <1>2, <1>3, <1>4, <1>5, <1>6, FlushCards, ServeCards, AnswerCards, SwitchCards,
     ServeChangeCards, EndChangeCards DEF Next, Scopes

THEOREM CardsInvariant == Spec => []CardsInv
<1>1. Spec => Init /\ [][Next]_vars
  BY PTL DEF Spec
<1> QED BY <1>1, InitCards, NextCards, BatchInvariant, PTL

\* Every card gets its numbers: nothing waits without a timer, and when nothing
\* is under way each event shown is cached, hidden by the server, or was in a
\* batch that failed.
THEOREM CardsServedHolds == Spec => []CardsServed
<1>1. BatchInv /\ CardsInv => TypeOK
  <2> SUFFICES ASSUME BatchInv, CardsInv PROVE TypeOK
    OBVIOUS
  <2>1. \A s \in DOMAIN cache : \A i \in Ids : cache[s][i].viewer \in Scopes
    BY DEF BatchInv, Typed, Entries
  <2> QED BY <2>1 DEF BatchInv, CardsInv, Typed, CountersTyped, TypeOK, Scopes
<1>2. BatchInv /\ CardsInv => RestComplete
  BY DEF BatchInv, CardsInv, RestComplete, Rest, NothingStranded, CardsInCare, InCare, Underway
<1>3. BatchInv /\ CardsInv => CardsServed
  BY <1>1, <1>2 DEF CardsServed, BatchInv
<1> QED BY <1>3, BatchInvariant, CardsInvariant, PTL

\* When nothing is under way, what the caches hold is what the server has,
\* unless a batch was in flight when a change was answered.
THEOREM RestFreshHolds == Spec => []RestFresh
<1>1. BatchInv /\ CardsInv => RestFresh
  <2> SUFFICES ASSUME BatchInv, CardsInv, Rest, loader # "messages",
                      NEW i \in Cached(cache) \ overtaken,
                      loader = "ratings" \/ cache[Scope][i].viewer = viewer
               PROVE  cache[Scope][i].value = server[Of(viewer)][i]
    BY DEF RestFresh
  <2>1. i \in Ids /\ Scope \in Scopes /\ Read(Scope) /\ cache[Scope][i].known
    BY DEF Cached, Scope, Scopes, Read, BatchInv, Typed
  <2>2. Fresh(cache[Scope][i], i)
    BY <2>1 DEF CardsInv, CacheFresh
  <2>3. change[i] = "none"
    BY <2>1 DEF Rest
  <2> QED BY <2>2, <2>3 DEF Fresh, Of, Personal
<1> QED BY <1>1, BatchInvariant, CardsInvariant, PTL
=============================================================================
