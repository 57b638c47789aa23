----------------------------- MODULE PageProofs -----------------------------
(***************************************************************************)
(* The safety of the loads and handlers of the screens, and of the way to  *)
(* them.                                                                   *)
(* PageLoads, for every set of keys, every set of loads and every number   *)
(* of runs, from one inductive invariant.  PageWrites, for every table of  *)
(* handlers, every set of items and however often the user presses, from   *)
(* one inductive invariant with two parts: how far the server came with    *)
(* each change, and what the screen will show once the requests under way  *)
(* are settled.  Screens, for every table of components, pages and routes  *)
(* that the assumptions of that module describe, from one inductive        *)
(* invariant on where the session is, where it wants to go and how the     *)
(* component on the screen was reached.                                    *)
(***************************************************************************)
EXTENDS PageLoads, PageWrites, Screens, SequenceTheorems, TLAPS

\* An effect without dependencies runs once, on an open screen.
OnceRunsOnce == load.run = "once" => open /\ live = 1 /\ runs = 1

\* Of the requests of a guarded load, the one still let in is for the key the
\* screen is on: what the closure of a run, its cleanup and the request
\* counter achieve together.
LiveIsForKey == open /\ Guarded => \A r \in asked : r.run = live => r.key = key

\* The inductive invariant.
LoadInv ==
    /\ LoadsTypeOK
    /\ OnceRunsOnce
    /\ LiveIsForKey
    /\ RestShowsKey
    /\ NeverAnotherKey
    /\ SpinnerHonest

\* Whatever the policy of an api.ts function and whatever the reply, its caller
\* sees an answer, an empty value or a rejected promise.
LEMMA OutcomeTyped ==
  ASSUME NEW l, NEW o \in Outcomes(l)
  PROVE  o \in {"answer", "empty", "throws"}
  BY DEF Outcomes, Outcome, Parsed, Unwrapped, Accepted

\* A run of the effect that sends is the newest one: no request of an earlier
\* run has its number.
LEMMA RunKeeps ==
  ASSUME LoadInv, NEW k \in Keys, NEW g \in BOOLEAN,
         runs < MaxRuns, load.run # "once",
         Run(load, k, g, runs, live, shown, spinner, ended), UNCHANGED load
  PROVE  LoadInv'
<1> USE LoadConstants DEF LoadInv
<1>1. LoadsTypeOK /\ runs \in Nat /\ MaxRuns \in Nat /\ live \in Nat /\ load \in Loads
  BY DEF LoadsTypeOK
<1>2. CASE Sends(load, g, runs)
  <2>1. /\ key' = k /\ open' = g /\ load' = load /\ g = TRUE
        /\ runs' = runs + 1 /\ live' = runs + 1
        /\ asked' = asked \cup {[run |-> runs + 1, key |-> k]}
        /\ shown' \in {shown, "none"}
        /\ load.reset = "clear" => shown' = "none"
        /\ spinner' \in BOOLEAN
        /\ load.spin = "each" => spinner'
        /\ ended' = "pending"
    BY <1>1, <1>2 DEF Run, NextRun, Cleared, Sends, LoadsTypeOK
  <2>2. \A r \in asked : r.run \in 1..runs /\ r.key \in Keys
    BY DEF LoadsTypeOK
  <2>3. \A r \in asked : r.run # runs + 1
    BY <2>2, <1>1
  <2>4. asked' \subseteq [run : 1..runs', key : Keys]
    <3>1. 1..runs \subseteq 1..(runs + 1) /\ runs + 1 \in 1..(runs + 1)
      BY <1>1
    <3> QED BY <2>1, <3>1 DEF LoadsTypeOK
  <2>5. \A r, s \in asked' : r.run = s.run => r = s
    BY <2>1, <2>3 DEF LoadsTypeOK
  <2>6. LoadsTypeOK'
    BY <2>1, <2>4, <2>5, <1>1 DEF LoadsTypeOK
  <2>7. LiveIsForKey'
    BY <2>1, <2>3 DEF LiveIsForKey
  <2>8. RestShowsKey' /\ OnceRunsOnce'
    BY <2>1 DEF RestShowsKey, OnceRunsOnce
  <2>9. NeverAnotherKey' /\ SpinnerHonest'
    BY <2>1 DEF NeverAnotherKey, SpinnerHonest
  <2> QED BY <2>6, <2>7, <2>8, <2>9
<1>3. CASE ~Sends(load, g, runs)
  <2>1. /\ key' = k /\ open' = g /\ load' = load /\ runs' = runs /\ asked' = asked
        /\ live' \in {0, live}
        /\ load.guard = "cancel" => live' = 0
        /\ shown' \in {"none", shown}
        /\ spinner' \in BOOLEAN
        /\ ended' = ended
    BY <1>1, <1>3 DEF Run, AfterCleanup, LoadsTypeOK
  <2>2. LoadsTypeOK'
    BY <2>1, <1>1 DEF LoadsTypeOK
  <2>3. g = TRUE => load.run = "latched" /\ runs # 0 /\ live' = 0 /\ load.reset = "keep"
    BY <1>1, <1>3, <2>1, LatchedLoads DEF Sends
  <2>4. \A r \in asked : r.run # 0
    BY <1>1 DEF LoadsTypeOK
  <2>5. LiveIsForKey'
    BY <2>1, <2>3, <2>4 DEF LiveIsForKey
  <2>6. RestShowsKey' /\ OnceRunsOnce'
    BY <2>1, <2>3 DEF RestShowsKey, OnceRunsOnce
  <2>7. NeverAnotherKey' /\ SpinnerHonest'
    BY <2>1, <2>3, <2>4 DEF NeverAnotherKey, SpinnerHonest
  <2> QED BY <2>2, <2>5, <2>6, <2>7
<1> QED BY <1>2, <1>3

\* The end of a request changes what is shown only if it is the live one, and
\* then it was for the key the screen is on.
LEMMA EndKeeps ==
  ASSUME LoadInv, NEW r \in asked, NEW o \in Outcomes(load), End(r, o)
  PROVE  LoadInv'
<1> USE DEF LoadInv
<1>1. /\ o \in {"answer", "empty", "throws"}
      /\ r.run \in 1..runs /\ r.key \in Keys
      /\ runs \in Nat /\ live \in 0..runs
      /\ \A s \in asked : s.run = r.run => s = r
  BY OutcomeTyped DEF LoadsTypeOK
<1>2. /\ UNCHANGED <<load, key, open, runs, live>>
      /\ asked' = asked \ {r}
      /\ shown' \in {shown, r.key, "empty"}
      /\ spinner' \in BOOLEAN
      /\ ended' \in {ended, o}
  BY DEF End, AfterFailure, SpinnerAfter, LoadsTypeOK
<1>3. LoadsTypeOK'
  BY <1>1, <1>2 DEF LoadsTypeOK
<1>4. OnceRunsOnce' /\ LiveIsForKey'
  BY <1>2 DEF OnceRunsOnce, LiveIsForKey, Guarded
<1>5. CASE r.run = live
  <2>1. \A s \in asked' : s.run # live'
    BY <1>1, <1>2, <1>5
  <2>2. SpinnerHonest'
    BY <2>1 DEF SpinnerHonest
  <2>3. open /\ Guarded => r.key = key
    BY <1>5 DEF LiveIsForKey
  <2>4. NeverAnotherKey'
    BY <1>2, <2>3 DEF NeverAnotherKey, Guarded
  <2>5. ended' = o /\ (o = "answer" => shown' = r.key)
    BY <1>5 DEF End, Applied
  <2>6. RestShowsKey'
    BY <1>2, <2>3, <2>5 DEF RestShowsKey, Guarded
  <2> QED BY <1>3, <1>4, <2>2, <2>4, <2>6
<1>6. CASE r.run # live
  <2>1. Guarded => load.guard # "none"
    BY <1>1, <1>6 DEF Guarded, OnceRunsOnce
  <2>2. Guarded => shown' = shown /\ ended' = ended
    BY <1>6, <2>1 DEF End, Applied
  <2>3. Guarded /\ load.spin = "each" => spinner' = spinner
    BY <1>6, <2>1 DEF End, Applied, SpinnerAfter, LoadsTypeOK
  <2>4. RestShowsKey' /\ NeverAnotherKey'
    BY <1>2, <2>2 DEF RestShowsKey, NeverAnotherKey, Guarded
  <2>5. SpinnerHonest'
    BY <1>2, <2>3 DEF SpinnerHonest, Guarded
  <2> QED BY <1>3, <1>4, <2>4, <2>5
<1> QED BY <1>5, <1>6

\* The first render sends for the key the page was opened on.
LEMMA InitLoad == LoadsInit => LoadInv
<1> SUFFICES ASSUME LoadsInit PROVE LoadInv
  OBVIOUS
<1> USE LoadConstants DEF LoadsInit
<1>1. /\ load \in Loads /\ key \in Keys /\ open \in BOOLEAN
      /\ runs \in {0, 1} /\ live = runs
      /\ \A r \in asked : r = [run |-> 1, key |-> key] /\ runs = 1
      /\ shown = "none" /\ ended = "pending" /\ spinner \in BOOLEAN
      /\ load.run = "once" => open /\ runs = 1
      /\ open /\ load.spin = "each" => spinner
  OBVIOUS
<1>2. LoadsTypeOK
  BY <1>1 DEF LoadsTypeOK
<1>3. OnceRunsOnce /\ LiveIsForKey
  BY <1>1 DEF OnceRunsOnce, LiveIsForKey
<1>4. RestShowsKey /\ NeverAnotherKey /\ SpinnerHonest
  BY <1>1 DEF RestShowsKey, NeverAnotherKey, SpinnerHonest
<1> QED BY <1>2, <1>3, <1>4 DEF LoadInv

\* Every step of a load keeps the invariant.
LEMMA NextLoad == LoadInv /\ [LoadsNext]_loadVars => LoadInv'
<1> SUFFICES ASSUME LoadInv, [LoadsNext]_loadVars PROVE LoadInv'
  OBVIOUS
<1>1. ASSUME NEW k \in Keys, NEW g \in BOOLEAN, Rerun(k, g) PROVE LoadInv'
  BY <1>1, RunKeeps DEF Rerun
<1>2. CASE Reload
  <2>1. key \in Keys /\ open \in BOOLEAN
    BY DEF LoadInv, LoadsTypeOK
  <2> QED BY <1>2, <2>1, RunKeeps DEF Reload
<1>3. ASSUME NEW r \in asked, NEW o \in Outcomes(load), End(r, o) PROVE LoadInv'
  BY <1>3, EndKeeps
<1>4. CASE UNCHANGED loadVars
  BY <1>4 DEF loadVars, LoadInv, LoadsTypeOK, OnceRunsOnce, LiveIsForKey, RestShowsKey,
              NeverAnotherKey, SpinnerHonest, Guarded
<1> QED BY <1>1, <1>2, <1>3, <1>4 DEF LoadsNext

\* The state of every load of the front end stays within its types.
THEOREM TypeCorrect == LoadsSpec => []LoadsTypeOK
BY InitLoad, NextLoad, PTL DEF LoadsSpec, LoadInv

\* For every set of keys and however often a screen changes its key, closes and
\* opens its gate or asks again, a guarded load whose current run was answered
\* shows the data of the key the screen is on: the cleanup flags and request
\* counters of the effects are enough against answers out of order.
THEOREM RestShowsKeyHolds == LoadsSpec => []RestShowsKey
BY InitLoad, NextLoad, PTL DEF LoadsSpec, LoadInv

\* A guarded load that clears before it asks never shows the data of a key
\* under another, for every set of keys and every order of answers.
THEOREM NeverAnotherKeyHolds == LoadsSpec => []NeverAnotherKey
BY InitLoad, NextLoad, PTL DEF LoadsSpec, LoadInv

\* While the current request of a guarded load is under way its busy flag is
\* up, however many overtaken requests end meanwhile.
THEOREM SpinnerHonestHolds == LoadsSpec => []SpinnerHonest
BY InitLoad, NextLoad, PTL DEF LoadsSpec, LoadInv

-----------------------------------------------------------------------------
NoneFor(i) == \A r \in reqs : r.item # i

\* A press that is kept out while one is under way: one request per item, or
\* one altogether when the whole component is disabled.
OneUnderWay ==
    Exclusive(handler) =>
        /\ \A r \in reqs : r.item \in busy
        /\ \A r, s \in reqs : r.item = s.item \/ handler.busy = "whole" => r = s
        /\ handler.busy = "whole" => busy \in {{}, Items}

\* Of an item whose replies arrived, the steps the server ran are behind the
\* request under way, or behind the step at which the next press starts.
RanBehind ==
    Exclusive(handler) /\ ~StartsOver(handler) =>
        \A s \in ran : s.item \notin lost =>
            /\ Changes(handler, s.step)
            /\ \A r \in reqs : r.item = s.item =>
                   s.step < r.step \/ (s.step = r.step /\ r.state = "done")
            /\ NoneFor(s.item) => s.step < start[s.item]

\* The items the agreement of screen and server is not about: reading again
\* makes up for a lost reply.
Excused == crossed \cup (IF handler.fail = "reload" THEN {} ELSE lost)

\* Of such an item a request is under way alone, and no reload with it.
Alone(i) ==
    /\ \A r, s \in reqs : r.item = i /\ s.item = i => r = s
    /\ reading => NoneFor(i)
    /\ handler.fail = "restore" => (NoneFor(i) \/ \A r, s \in reqs : r = s)

\* Without a request the screen agrees, unless it is about to be read again.
Shown(i) ==
    NoneFor(i) /\ (reading => handler.early /\ handler.fail # "reload")
        => view[i] = stored[i]

\* The request under way knows both values of its item, and the server has the
\* new one exactly when the last step ran.
Carried(i) ==
    \A r \in reqs : r.item = i =>
        /\ view[i] = IF handler.early THEN r.to ELSE r.was
        /\ r.snap[i] = r.was
        /\ stored[i] = IF r.step = Last(handler) /\ r.state = "done" THEN r.to ELSE r.was

\* A copy of the whole screen holds the settled value of every other item.
Copied(i) ==
    handler.fail = "restore" =>
        \A r \in reqs : r.item # i => r.snap[i] = stored[i]

InStep ==
    Reconciles(handler) =>
        \A i \in Items \ Excused : Alone(i) /\ Shown(i) /\ Carried(i) /\ Copied(i)

\* The inductive invariant.
WriteInv == TypeOK /\ OneUnderWay /\ RanBehind /\ NothingTwice /\ InStep

-----------------------------------------------------------------------------
\* A handler with a way back never takes a refusal for a success, nor the reply
\* of a request that was carried out for a failure.
LEMMA Heard ==
  ASSUME Reconciles(handler), NEW k \in 1..Last(handler), NEW w \in handler.steps[k],
         NEW reply
  PROVE  /\ reply \in Refusals \cup {"lost"} => Outcome(w, reply) = "throws"
         /\ reply = "ok" => Outcome(w, reply) # "throws"
BY DEF Reconciles, Last, Outcome, Parsed, Unwrapped, Accepted, Refusals

Requests == [item : Items, to : BOOLEAN, was : BOOLEAN, snap : [Items -> BOOLEAN],
             step : 1..Last(handler), state : {"sent", "done", "refused"}]

\* What a reply makes of the busy marks and the values shown stays in range.
LEMMA FreedTyped ==
  ASSUME TypeOK, NEW i, NEW ok
  PROVE  Freed(handler, i, ok, busy) \subseteq Items
BY DEF TypeOK, Freed

LEMMA AfterTyped ==
  ASSUME TypeOK, NEW r \in reqs
  PROVE  /\ AfterThrow(handler, r, view) \in [Items -> BOOLEAN]
         /\ AfterSuccess(handler, r, view) \in [Items -> BOOLEAN]
BY DEF TypeOK, AfterThrow, AfterSuccess

\* Every step keeps the types.
LEMMA NextType == TypeOK /\ [Next]_vars => TypeOK'
<1> SUFFICES ASSUME TypeOK, [Next]_vars PROVE TypeOK'
  OBVIOUS
<1> USE WriteConstants, HandlerRows
<1>0. /\ handler \in Handlers /\ Last(handler) \in Nat \ {0}
      /\ reqs \subseteq Requests
  BY DEF TypeOK, Requests
<1>1. ASSUME NEW i \in Items, Press(i) PROVE TypeOK'
  <2> DEFINE r == [item |-> i, to |-> ~view[i], was |-> view[i], snap |-> view,
                   step |-> start[i], state |-> "sent"]
  <2>1. r \in Requests
    BY DEF TypeOK, Requests
  <2>2. reqs' \subseteq Requests /\ handler' = handler
    BY <1>0, <1>1, <2>1 DEF Press
  <2>3. view' \in [Items -> BOOLEAN]
    BY <1>1 DEF Press, TypeOK
  <2>4. crossed' \subseteq Items
    BY <1>0, <1>1 DEF Press, TypeOK, Requests
  <2>5. busy' \subseteq Items
    BY <1>1 DEF Press, TypeOK, Raised
  <2>6. presses' \in 0..MaxPresses
    BY <1>1 DEF Press, TypeOK
  <2> QED
    BY <1>1, <2>2, <2>3, <2>4, <2>5, <2>6 DEF Press, TypeOK, Requests
<1>2. ASSUME NEW r \in reqs, Execute(r) PROVE TypeOK'
  <2>1. r \in Requests /\ [r EXCEPT !.state = "done"] \in Requests
    BY <1>0 DEF Requests
  <2>2. reqs' \subseteq Requests /\ handler' = handler
    BY <1>0, <1>2, <2>1 DEF Execute
  <2>3. stored' \in [Items -> BOOLEAN]
    BY <1>2, <2>1 DEF Execute, TypeOK, Requests
  <2>4. twice' \subseteq Items /\ ran' \subseteq [item : Items, step : 1..Last(handler)]
    BY <1>2, <2>1 DEF Execute, TypeOK, Requests
  <2> QED
    BY <1>2, <2>2, <2>3, <2>4 DEF Execute, TypeOK, Requests
<1>3. ASSUME NEW r \in reqs, Refuse(r) PROVE TypeOK'
  <2>1. [r EXCEPT !.state = "refused"] \in Requests
    BY <1>0 DEF Requests
  <2>2. reqs' \subseteq Requests /\ handler' = handler
    BY <1>0, <1>3, <2>1 DEF Refuse
  <2> QED
    BY <1>3, <2>2 DEF Refuse, TypeOK, Requests
<1>4. ASSUME NEW r \in reqs, NEW w, NEW reply, Deliver(r, w, reply) PROVE TypeOK'
  <2>1. r \in Requests /\ r.item \in Items /\ r.step \in 1..Last(handler)
    BY <1>0 DEF Requests
  <2>2. /\ UNCHANGED <<handler, stored, presses, twice>>
        /\ lost' \subseteq Items
    BY <1>4, <2>1 DEF Deliver, TypeOK
  <2>3. CASE Throw(r)
    <3>1. reqs' \subseteq Requests
      BY <1>0, <2>3 DEF Throw
    <3>2. view' \in [Items -> BOOLEAN] /\ busy' \subseteq Items
      BY <2>3, AfterTyped, FreedTyped DEF Throw
    <3>3. start' \in [Items -> 1..Last(handler)]
      BY <1>0, <2>1, <2>3 DEF Throw, TypeOK
    <3>4. crossed' \subseteq Items /\ reading' \in BOOLEAN
      BY <1>0, <2>3 DEF Throw, TypeOK, Requests, Reloads
    <3> QED
      BY <2>2, <2>3, <3>1, <3>2, <3>3, <3>4 DEF Throw, TypeOK, Requests
  <2>4. CASE Succeed(r) /\ r.step < Last(handler)
    <3>1. [r EXCEPT !.step = @ + 1, !.state = "sent"] \in Requests
      <4>1. r.step + 1 \in 1..Last(handler)
        BY <1>0, <2>1, <2>4
      <4> QED
        BY <2>1, <4>1 DEF Requests
    <3>2. reqs' \subseteq Requests
      BY <1>0, <2>4, <3>1 DEF Succeed
    <3> QED
      BY <2>2, <2>4, <3>2 DEF Succeed, TypeOK, Requests
  <2>5. CASE Succeed(r) /\ ~(r.step < Last(handler))
    <3>1. reqs' \subseteq Requests
      BY <1>0, <2>5 DEF Succeed
    <3>2. view' \in [Items -> BOOLEAN] /\ busy' \subseteq Items
      <4>1. view' = AfterSuccess(handler, r, view) /\ busy' = Freed(handler, r.item, TRUE, busy)
        BY <2>5 DEF Succeed
      <4> QED
        BY <4>1, AfterTyped, FreedTyped
    <3>3. start' \in [Items -> 1..Last(handler)]
      BY <1>0, <2>1, <2>5 DEF Succeed, TypeOK
    <3>4. /\ crossed' \subseteq Items /\ reading' \in BOOLEAN /\ closed' \in BOOLEAN
          /\ ran' \subseteq [item : Items, step : 1..Last(handler)]
      BY <1>0, <2>5 DEF Succeed, TypeOK, Requests, Reloads
    <3> QED
      BY <2>2, <2>5, <3>1, <3>2, <3>3, <3>4 DEF Succeed, TypeOK, Requests
  <2> QED
    BY <1>4, <2>3, <2>4, <2>5 DEF Deliver
<1>5. CASE Refresh
  BY <1>5 DEF Refresh, TypeOK
<1>6. CASE UNCHANGED vars
  BY <1>6 DEF vars, TypeOK
<1> QED
  BY <1>1, <1>2, <1>3, <1>4, <1>5, <1>6 DEF Next, DeliverSome

-----------------------------------------------------------------------------
\* A press adds one request, on an item that has none when presses are kept
\* out, and marks as crossed what it meets.
LEMMA PressKeeps ==
  ASSUME WriteInv, NEW i \in Items, Press(i)
  PROVE  OneUnderWay' /\ RanBehind' /\ NothingTwice' /\ InStep'
<1> USE HandlerRows
<1> DEFINE r == [item |-> i, to |-> ~view[i], was |-> view[i], snap |-> view,
                 step |-> start[i], state |-> "sent"]
           other == {p.item : p \in {q \in reqs : q.item = i \/ handler.fail = "restore"}}
<1>1. /\ UNCHANGED <<handler, stored, start, reading, lost, ran, twice>>
      /\ reqs' = reqs \cup {r} /\ i \notin busy
      /\ view' = IF handler.early THEN [view EXCEPT ![i] = ~@] ELSE view
      /\ crossed' = crossed \cup other \cup (IF other # {} \/ reading THEN {i} ELSE {})
      /\ busy' = Raised(handler, i, busy)
  BY DEF Press
<1>2. /\ handler \in Handlers /\ reqs \subseteq Requests
      /\ view \in [Items -> BOOLEAN] /\ busy \subseteq Items
      /\ start \in [Items -> 1..Last(handler)]
  BY DEF WriteInv, TypeOK, Requests
<1>3. r.item = i /\ r.step = start[i] /\ r.state = "sent" /\ r.to = ~view[i]
      /\ r.was = view[i] /\ r.snap = view
  OBVIOUS
<1> HIDE DEF r
<1>4. Exclusive(handler) => NoneFor(i)
  BY <1>1 DEF WriteInv, OneUnderWay, NoneFor
<1>5. OneUnderWay'
  <2> SUFFICES ASSUME Exclusive(handler)
               PROVE  /\ \A p \in reqs' : p.item \in busy'
                      /\ \A p, q \in reqs' : p.item = q.item \/ handler.busy = "whole" => p = q
                      /\ handler.busy = "whole" => busy' \in {{}, Items}
    BY <1>1 DEF OneUnderWay
  <2>1. /\ \A p \in reqs : p.item \in busy
        /\ \A p, q \in reqs : p.item = q.item \/ handler.busy = "whole" => p = q
        /\ handler.busy = "whole" => busy \in {{}, Items}
    BY DEF WriteInv, OneUnderWay
  <2>2. CASE handler.busy = "whole"
    <3>1. busy = {} /\ busy' = Items
      BY <1>1, <2>1, <2>2 DEF Raised
    <3>2. reqs' = {r}
      BY <1>1, <2>1, <3>1
    <3> QED
      BY <1>3, <3>1, <3>2
  <2>3. CASE handler.busy = "rows"
    <3>1. busy' = busy \cup {i}
      BY <1>1, <2>3 DEF Raised
    <3> QED
      BY <1>1, <1>3, <1>4, <2>1, <2>3, <3>1 DEF NoneFor
  <2> QED
    BY <2>2, <2>3 DEF Exclusive
<1>6. RanBehind'
  <2> SUFFICES ASSUME Exclusive(handler), ~StartsOver(handler),
                      NEW s \in ran, s.item \notin lost
               PROVE  /\ Changes(handler, s.step)
                      /\ \A p \in reqs' : p.item = s.item =>
                             s.step < p.step \/ (s.step = p.step /\ p.state = "done")
                      /\ NoneFor(s.item)' => s.step < start[s.item]
    BY <1>1 DEF RanBehind
  <2>1. /\ Changes(handler, s.step)
        /\ \A p \in reqs : p.item = s.item =>
               s.step < p.step \/ (s.step = p.step /\ p.state = "done")
        /\ NoneFor(s.item) => s.step < start[s.item]
    BY DEF WriteInv, RanBehind
  <2>2. NoneFor(s.item)' => NoneFor(s.item)
    BY <1>1 DEF NoneFor
  <2> QED
    BY <1>1, <1>3, <1>4, <2>1, <2>2
<1>7. NothingTwice'
  BY <1>1 DEF WriteInv, NothingTwice
<1>8. InStep'
  <2> SUFFICES ASSUME Reconciles(handler), NEW j \in Items, j \notin Excused'
               PROVE  Alone(j)' /\ Shown(j)' /\ Carried(j)' /\ Copied(j)'
    BY <1>1 DEF InStep
  <2>1. j \notin crossed' /\ j \notin Excused
    BY <1>1 DEF Excused
  <2>2. Alone(j) /\ Shown(j) /\ Carried(j) /\ Copied(j)
    BY <2>1 DEF WriteInv, InStep
  <2>3. handler.fail = "restore" => handler.early /\ NoneFor(j)
    BY <1>1, <1>2, <2>1 DEF NoneFor
  <2>4. CASE j = i
    <3>1. NoneFor(i) /\ ~reading /\ (handler.fail = "restore" => reqs = {})
      BY <1>1, <2>1, <2>4 DEF NoneFor
    <3>2. view[i] = stored[i]
      BY <2>2, <2>4, <3>1 DEF Shown
    <3>3. view'[i] = IF handler.early THEN r.to ELSE r.was
      BY <1>1, <1>2, <1>3
    <3>4. \A p \in reqs' : p.item = i => p = r
      BY <1>1, <3>1 DEF NoneFor
    <3>5. Alone(i)'
      BY <1>1, <3>1, <3>4 DEF Alone, NoneFor
    <3>6. Shown(i)'
      BY <1>1, <1>3 DEF Shown, NoneFor
    <3>7. Carried(i)'
      BY <1>1, <1>3, <3>2, <3>3, <3>4 DEF Carried
    <3>8. Copied(i)'
      BY <1>1, <1>3, <3>1 DEF Copied
    <3> QED
      BY <2>4, <3>5, <3>6, <3>7, <3>8
  <2>5. CASE j # i
    <3>1. view'[j] = view[j]
      BY <1>1, <1>2, <2>5
    <3>2. \A p \in reqs' : p.item = j => p \in reqs
      BY <1>1, <1>3, <2>5
    <3>3. Alone(j)'
      BY <1>1, <2>2, <2>3, <3>2 DEF Alone, NoneFor
    <3>4. Shown(j)'
      BY <1>1, <2>2, <3>1, <3>2 DEF Shown, NoneFor
    <3>5. Carried(j)'
      BY <1>1, <2>2, <3>1, <3>2 DEF Carried
    <3>6. Copied(j)'
      <4>1. handler.fail = "restore" => r.snap[j] = stored[j]
        BY <1>3, <2>2, <2>3 DEF Shown
      <4> QED
        BY <1>1, <2>2, <4>1 DEF Copied
    <3> QED
      BY <3>3, <3>4, <3>5, <3>6
  <2> QED
    BY <2>4, <2>5
<1> QED
  BY <1>5, <1>6, <1>7, <1>8

\* A request that moves on keeps its item and values, and what depends on
\* these alone is kept with it.
Moved(r, q) ==
    /\ r \in reqs /\ reqs' = (reqs \ {r}) \cup {q}
    /\ q.item = r.item /\ q.to = r.to /\ q.was = r.was /\ q.snap = r.snap
    /\ UNCHANGED <<handler, view, busy, start, reading, crossed>>

LEMMA MovedKeeps ==
  ASSUME WriteInv, NEW r, NEW q, Moved(r, q), NEW j \in Items, Reconciles(handler),
         j \notin Excused
  PROVE  /\ Alone(j)' /\ (NoneFor(j)' <=> NoneFor(j))
         /\ (handler.fail = "restore" /\ r.item = j => \A p \in reqs' : p = q)
<1>1. Alone(j)
  BY DEF WriteInv, InStep
<1>2. NoneFor(j)' <=> NoneFor(j)
  BY DEF Moved, NoneFor
<1>3. \A p, s \in reqs' : p.item = j /\ s.item = j => p = s
  BY <1>1 DEF Moved, Alone
<1>4. handler.fail = "restore" => (NoneFor(j)' \/ \A p, s \in reqs' : p = s)
  BY <1>1, <1>2 DEF Moved, Alone
<1>5. handler.fail = "restore" /\ r.item = j => \A p \in reqs' : p = q
  BY <1>1 DEF Moved, Alone, NoneFor
<1> QED
  BY <1>1, <1>2, <1>3, <1>4, <1>5 DEF Moved, Alone

LEMMA MovedOneUnderWay ==
  ASSUME WriteInv, NEW r, NEW q, Moved(r, q)
  PROVE  OneUnderWay'
BY DEF WriteInv, OneUnderWay, Moved, Exclusive

\* The server runs a step at most once, since the steps that ran are behind.
LEMMA ExecuteKeeps ==
  ASSUME WriteInv, NEW r \in reqs, Execute(r)
  PROVE  OneUnderWay' /\ RanBehind' /\ NothingTwice' /\ InStep'
<1> DEFINE q == [r EXCEPT !.state = "done"]
           this == [item |-> r.item, step |-> r.step]
<1>1. r \in Requests /\ handler \in Handlers /\ stored \in [Items -> BOOLEAN]
  BY DEF WriteInv, TypeOK, Requests
<1>2. /\ q.item = r.item /\ q.to = r.to /\ q.was = r.was /\ q.snap = r.snap
      /\ q.step = r.step /\ q.state = "done"
  BY <1>1 DEF Requests
<1>3. this.item = r.item /\ this.step = r.step
  OBVIOUS
<1>4. /\ Moved(r, q) /\ r.state = "sent" /\ UNCHANGED lost
      /\ stored' = IF r.step = Last(handler) THEN [stored EXCEPT ![r.item] = r.to] ELSE stored
      /\ IF Changes(handler, r.step)
           THEN ran' = ran \cup {this}
                /\ twice' = IF this \in ran THEN twice \cup {r.item} ELSE twice
           ELSE UNCHANGED <<ran, twice>>
  BY <1>2 DEF Execute, Moved
<1> HIDE DEF q, this
<1>5. OneUnderWay'
  BY <1>4, MovedOneUnderWay
<1>6. ASSUME Exclusive(handler), ~StartsOver(handler), this \in ran, r.item \notin lost
      PROVE  FALSE
  BY <1>3, <1>4, <1>6, <1>1 DEF WriteInv, RanBehind, Requests
<1>7. RanBehind'
  <2> SUFFICES ASSUME Exclusive(handler), ~StartsOver(handler),
                      NEW s \in ran', s.item \notin lost
               PROVE  /\ Changes(handler, s.step)
                      /\ \A p \in reqs' : p.item = s.item =>
                             s.step < p.step \/ (s.step = p.step /\ p.state = "done")
                      /\ NoneFor(s.item)' => s.step < start[s.item]
    BY <1>4 DEF RanBehind, Moved
  <2>1. NoneFor(s.item)' => NoneFor(s.item)
    BY <1>2, <1>4 DEF Moved, NoneFor
  <2>2. CASE s \in ran
    <3>1. /\ Changes(handler, s.step)
          /\ \A p \in reqs : p.item = s.item =>
                 s.step < p.step \/ (s.step = p.step /\ p.state = "done")
          /\ NoneFor(s.item) => s.step < start[s.item]
      BY <2>2 DEF WriteInv, RanBehind
    <3> QED
      BY <1>2, <1>4, <2>1, <3>1 DEF Moved
  <2>3. CASE s \notin ran
    <3>1. s = this /\ Changes(handler, r.step)
      BY <1>4, <2>3
    <3>2. \A p \in reqs' : p.item = r.item => p = q
      BY <1>2, <1>4 DEF Moved, WriteInv, OneUnderWay
    <3>3. ~NoneFor(r.item)
      BY DEF NoneFor
    <3> QED
      BY <1>2, <1>3, <2>1, <3>1, <3>2, <3>3
  <2> QED
    BY <2>2, <2>3
<1>8. NothingTwice'
  BY <1>4, <1>6 DEF WriteInv, NothingTwice, Moved
<1>9. InStep'
  <2> SUFFICES ASSUME Reconciles(handler), NEW j \in Items, j \notin Excused'
               PROVE  Alone(j)' /\ Shown(j)' /\ Carried(j)' /\ Copied(j)'
    BY <1>4 DEF InStep, Moved
  <2>1. j \notin Excused
    BY <1>4 DEF Excused, Moved
  <2>2. Alone(j) /\ Shown(j) /\ Carried(j) /\ Copied(j)
    BY <2>1 DEF WriteInv, InStep
  <2>3. /\ Alone(j)' /\ (NoneFor(j)' <=> NoneFor(j))
        /\ (handler.fail = "restore" /\ r.item = j => \A p \in reqs' : p = q)
    BY <1>4, <2>1, MovedKeeps
  <2>4. CASE r.item = j
    <3>1. ~NoneFor(j)'
      BY <2>3, <2>4 DEF NoneFor
    <3>2. \A p \in reqs' : p.item = j => p = q
      BY <1>2, <1>4, <2>2, <2>4 DEF Moved, Alone
    <3>3. /\ view[j] = IF handler.early THEN r.to ELSE r.was
          /\ r.snap[j] = r.was /\ stored[j] = r.was
      BY <1>4, <2>2, <2>4 DEF Carried
    <3>4. stored'[j] = IF r.step = Last(handler) THEN r.to ELSE r.was
      BY <1>1, <1>4, <2>4, <3>3
    <3>5. Carried(j)'
      BY <1>2, <1>4, <3>2, <3>3, <3>4 DEF Carried, Moved
    <3>6. Copied(j)'
      BY <1>2, <1>4, <2>3, <2>4 DEF Copied, Moved
    <3> QED
      BY <2>3, <3>1, <3>5, <3>6 DEF Shown
  <2>5. CASE r.item # j
    <3>1. stored'[j] = stored[j] /\ view' = view
      BY <1>1, <1>4, <2>5 DEF Moved
    <3>2. \A p \in reqs' : p.item = j => p \in reqs
      BY <1>2, <1>4, <2>5 DEF Moved
    <3>3. Shown(j)' /\ Carried(j)'
      BY <1>4, <2>2, <2>3, <3>1, <3>2 DEF Shown, Carried, Moved
    <3>4. Copied(j)'
      BY <1>2, <1>4, <2>2, <3>1 DEF Copied, Moved
    <3> QED
      BY <2>3, <3>3, <3>4
  <2> QED
    BY <2>4, <2>5
<1> QED
  BY <1>5, <1>7, <1>8, <1>9

\* A refused request ran nothing.
LEMMA RefuseKeeps ==
  ASSUME WriteInv, NEW r \in reqs, Refuse(r)
  PROVE  OneUnderWay' /\ RanBehind' /\ NothingTwice' /\ InStep'
<1> DEFINE q == [r EXCEPT !.state = "refused"]
<1>1. r \in Requests
  BY DEF WriteInv, TypeOK, Requests
<1>2. /\ q.item = r.item /\ q.to = r.to /\ q.was = r.was /\ q.snap = r.snap
      /\ q.step = r.step /\ q.state = "refused"
  BY <1>1 DEF Requests
<1>3. Moved(r, q) /\ r.state = "sent" /\ UNCHANGED <<lost, stored, ran, twice>>
  BY <1>2 DEF Refuse, Moved
<1> HIDE DEF q
<1>4. OneUnderWay'
  BY <1>3, MovedOneUnderWay
<1>5. RanBehind'
  BY <1>2, <1>3 DEF WriteInv, RanBehind, Moved, NoneFor
<1>6. NothingTwice'
  BY <1>3 DEF WriteInv, NothingTwice, Moved
<1>7. InStep'
  <2> SUFFICES ASSUME Reconciles(handler), NEW j \in Items, j \notin Excused'
               PROVE  Alone(j)' /\ Shown(j)' /\ Carried(j)' /\ Copied(j)'
    BY <1>3 DEF InStep, Moved
  <2>1. j \notin Excused
    BY <1>3 DEF Excused, Moved
  <2>2. Shown(j) /\ Carried(j) /\ Copied(j)
    BY <2>1 DEF WriteInv, InStep
  <2>3. Alone(j)' /\ (NoneFor(j)' <=> NoneFor(j))
    BY <1>3, <2>1, MovedKeeps
  <2> QED
    BY <1>2, <1>3, <2>2, <2>3 DEF Shown, Carried, Copied, Moved
<1> QED
  BY <1>4, <1>5, <1>6, <1>7

\* The reload shows what the server holds.
LEMMA RefreshKeeps ==
  ASSUME WriteInv, Refresh
  PROVE  OneUnderWay' /\ RanBehind' /\ NothingTwice' /\ InStep'
<1>1. /\ reading /\ ~reading' /\ view' = stored
      /\ UNCHANGED <<handler, stored, reqs, busy, start, crossed, lost, ran, twice>>
  BY DEF Refresh
<1>2. OneUnderWay' /\ RanBehind' /\ NothingTwice'
  BY <1>1 DEF WriteInv, OneUnderWay, RanBehind, NothingTwice, NoneFor
<1>3. InStep'
  <2> SUFFICES ASSUME Reconciles(handler), NEW j \in Items, j \notin Excused'
               PROVE  Alone(j)' /\ Shown(j)' /\ Carried(j)' /\ Copied(j)'
    BY <1>1 DEF InStep
  <2>1. Alone(j) /\ Copied(j)
    BY <1>1 DEF WriteInv, InStep, Excused
  <2>2. NoneFor(j)
    BY <1>1, <2>1 DEF Alone
  <2> QED
    BY <1>1, <2>1, <2>2 DEF Alone, Shown, Carried, Copied, NoneFor
<1> QED
  BY <1>2, <1>3

-----------------------------------------------------------------------------
\* A settled request leaves the others, and an item that had none, as they are.
LEMMA GoneKeeps ==
  ASSUME WriteInv, NEW r \in reqs, reqs' = reqs \ {r},
         busy' \in {busy, Freed(handler, r.item, TRUE, busy), Freed(handler, r.item, FALSE, busy)},
         UNCHANGED handler
  PROVE  OneUnderWay'
<1> SUFFICES ASSUME Exclusive(handler)
             PROVE  /\ \A p \in reqs' : p.item \in busy'
                    /\ \A p, q \in reqs' : p.item = q.item \/ handler.busy = "whole" => p = q
                    /\ handler.busy = "whole" => busy' \in {{}, Items}
  BY DEF OneUnderWay
<1>1. /\ \A p \in reqs : p.item \in busy
      /\ \A p, q \in reqs : p.item = q.item \/ handler.busy = "whole" => p = q
      /\ handler.busy = "whole" => busy \in {{}, Items}
  BY DEF WriteInv, OneUnderWay
<1>2. busy' \in {busy, busy \ {r.item}, {}}
  BY DEF Freed
<1>3. CASE handler.busy = "whole"
  <2>1. reqs' = {}
    BY <1>1, <1>3
  <2>2. busy' \in {busy, {}}
    BY <1>3 DEF Freed
  <2> QED
    BY <1>1, <2>1, <2>2
<1>4. CASE handler.busy = "rows"
  <2>1. busy' \in {busy, busy \ {r.item}}
    BY <1>4 DEF Freed
  <2> QED
    BY <1>1, <1>4, <2>1
<1> QED
  BY <1>3, <1>4 DEF Exclusive

\* After a rejection the next press starts behind the steps that ran, and what
\* was shown early is taken back.
LEMMA ThrowKeeps ==
  ASSUME WriteInv, NEW r \in reqs, r.state # "sent", Throw(r),
         UNCHANGED <<handler, stored, twice>>,
         lost' = IF r.state = "done" /\ Changes(handler, r.step)
                   THEN lost \cup {r.item} ELSE lost
  PROVE  OneUnderWay' /\ RanBehind' /\ NothingTwice' /\ InStep'
<1> USE HandlerRows
<1>1. /\ r \in Requests /\ handler \in Handlers
      /\ view \in [Items -> BOOLEAN] /\ start \in [Items -> 1..Last(handler)]
      /\ ran \subseteq [item : Items, step : 1..Last(handler)]
  BY DEF WriteInv, TypeOK, Requests
<1>2. /\ r.item \in Items /\ r.step \in 1..Last(handler) /\ r.snap \in [Items -> BOOLEAN]
      /\ r.state \in {"done", "refused"} /\ Last(handler) \in Nat
      /\ ResumeAt(handler, r.step) \in 1..Last(handler)
  BY <1>1 DEF Requests
<1>3. /\ reqs' = reqs \ {r}
      /\ view' = AfterThrow(handler, r, view)
      /\ busy' = Freed(handler, r.item, FALSE, busy)
      /\ start' = [start EXCEPT ![r.item] = ResumeAt(handler, r.step)]
      /\ reading' = (reading \/ handler.fail = "reload")
      /\ crossed' = IF handler.fail = "reload" THEN crossed \cup {q.item : q \in reqs \ {r}}
                    ELSE crossed
      /\ UNCHANGED ran
  BY DEF Throw, Reloads
<1>4. OneUnderWay'
  BY <1>3, GoneKeeps
<1>5. RanBehind'
  <2> SUFFICES ASSUME Exclusive(handler), ~StartsOver(handler),
                      NEW s \in ran, s.item \notin lost'
               PROVE  /\ Changes(handler, s.step)
                      /\ \A p \in reqs' : p.item = s.item =>
                             s.step < p.step \/ (s.step = p.step /\ p.state = "done")
                      /\ NoneFor(s.item)' => s.step < start'[s.item]
    BY <1>3 DEF RanBehind
  <2>1. s.item \notin lost /\ s.item \in Items /\ s.step \in 1..Last(handler)
    BY <1>1
  <2>2. /\ Changes(handler, s.step)
        /\ \A p \in reqs : p.item = s.item =>
               s.step < p.step \/ (s.step = p.step /\ p.state = "done")
        /\ NoneFor(s.item) => s.step < start[s.item]
    BY <2>1 DEF WriteInv, RanBehind
  <2>3. CASE s.item = r.item
    <3>1. s.step < r.step
      BY <2>2, <2>3
    <3>2. s.step \notin ResumeAt(handler, r.step)..(r.step - 1)
      BY <1>2, <2>2 DEF StartsOver
    <3>3. s.step < ResumeAt(handler, r.step)
      BY <1>2, <2>1, <3>1, <3>2
    <3>4. start'[s.item] = ResumeAt(handler, r.step)
      BY <1>1, <1>2, <1>3, <2>3
    <3> QED
      BY <1>3, <2>2, <3>3, <3>4
  <2>4. CASE s.item # r.item
    <3>1. start'[s.item] = start[s.item] /\ (NoneFor(s.item)' => NoneFor(s.item))
      BY <1>1, <1>3, <2>1, <2>4 DEF NoneFor
    <3> QED
      BY <1>3, <2>2, <3>1
  <2> QED
    BY <2>3, <2>4
<1>6. NothingTwice'
  BY <1>3 DEF WriteInv, NothingTwice
<1>7. InStep'
  <2> SUFFICES ASSUME Reconciles(handler), NEW j \in Items, j \notin Excused'
               PROVE  Alone(j)' /\ Shown(j)' /\ Carried(j)' /\ Copied(j)'
    BY DEF InStep
  <2>1. j \notin Excused
    BY <1>3 DEF Excused
  <2>2. Alone(j) /\ Shown(j) /\ Carried(j) /\ Copied(j)
    BY <2>1 DEF WriteInv, InStep
  <2>3. Copied(j)'
    BY <1>3, <2>2 DEF Copied
  <2>4. CASE r.item = j
    <3>1. NoneFor(j)'
      BY <1>3, <2>2, <2>4 DEF Alone, NoneFor
    <3>2. Alone(j)' /\ Carried(j)'
      BY <3>1 DEF Alone, Carried, NoneFor
    <3>3. ASSUME handler.fail = "reload" PROVE Shown(j)'
      <4>1. reading'
        BY <3>3 DEF Throw, Reloads
      <4> QED
        BY <3>3, <4>1 DEF Shown
    <3>4. ASSUME handler.fail # "reload" PROVE Shown(j)'
      <4>1. ~(r.state = "done" /\ Changes(handler, r.step))
        BY <2>4, <3>4 DEF Excused
      <4>2. ~(r.step = Last(handler) /\ r.state = "done")
        BY <1>1, <4>1, ReconcilingRows
      <4>3. /\ view[j] = IF handler.early THEN r.to ELSE r.was
            /\ r.snap[j] = r.was /\ stored[j] = r.was
        BY <2>2, <2>4, <4>2 DEF Carried
      <4>4. handler.early => handler.fail \in {"undo", "restore"}
        BY <3>4 DEF Reconciles
      <4>5. view'[j] = r.was
        BY <1>1, <1>2, <1>3, <2>4, <4>3, <4>4 DEF AfterThrow
      <4>6. stored'[j] = r.was
        BY <4>3
      <4> QED
        BY <4>5, <4>6 DEF Shown
    <3> QED
      BY <2>3, <3>2, <3>3, <3>4
  <2>5. CASE r.item # j
    <3>1. NoneFor(j)' <=> NoneFor(j)
      BY <1>3, <2>5 DEF NoneFor
    <3>2. handler.fail = "reload" => NoneFor(j)
      BY <1>3, <2>5 DEF Excused, NoneFor
    <3>3. handler.fail = "restore" => NoneFor(j)
      BY <2>2, <2>5 DEF Alone, NoneFor
    <3>4. Alone(j)'
      BY <1>3, <2>2, <3>1, <3>2, <3>3 DEF Alone, NoneFor
    <3>5. handler.fail # "restore" => view'[j] = view[j]
      BY <1>1, <1>2, <1>3, <2>5 DEF AfterThrow
    <3>6. handler.fail = "restore" => view'[j] = stored[j]
      BY <1>3, <2>2, <2>5 DEF AfterThrow, Copied
    <3>7. Shown(j)'
      BY <1>3, <2>2, <3>1, <3>5, <3>6 DEF Shown
    <3>8. Carried(j)'
      BY <1>3, <2>2, <3>3, <3>5 DEF Carried, NoneFor
    <3> QED
      BY <2>3, <3>4, <3>7, <3>8
  <2> QED
    BY <2>4, <2>5
<1> QED
  BY <1>4, <1>5, <1>6, <1>7

\* The next request of a chain: the step behind it ran, or was not needed.
LEMMA NextStepKeeps ==
  ASSUME WriteInv, NEW r \in reqs, Succeed(r), r.step < Last(handler),
         UNCHANGED <<handler, stored, lost, twice>>
  PROVE  OneUnderWay' /\ RanBehind' /\ NothingTwice' /\ InStep'
<1> DEFINE q == [r EXCEPT !.step = @ + 1, !.state = "sent"]
<1>1. r \in Requests /\ r.step \in Nat
  BY HandlerRows DEF WriteInv, TypeOK, Requests
<1>2. /\ q.item = r.item /\ q.to = r.to /\ q.was = r.was /\ q.snap = r.snap
      /\ q.step = r.step + 1 /\ q.state = "sent"
  BY <1>1 DEF Requests
<1>3. Moved(r, q) /\ UNCHANGED <<lost, stored, ran, twice>>
  BY <1>2 DEF Succeed, Moved
<1> HIDE DEF q
<1>4. OneUnderWay'
  BY <1>3, MovedOneUnderWay
<1>5. RanBehind'
  <2> SUFFICES ASSUME Exclusive(handler), ~StartsOver(handler),
                      NEW s \in ran, s.item \notin lost
               PROVE  /\ Changes(handler, s.step)
                      /\ \A p \in reqs' : p.item = s.item =>
                             s.step < p.step \/ (s.step = p.step /\ p.state = "done")
                      /\ NoneFor(s.item)' => s.step < start[s.item]
    BY <1>3 DEF RanBehind, Moved
  <2>1. /\ Changes(handler, s.step)
        /\ \A p \in reqs : p.item = s.item =>
               s.step < p.step \/ (s.step = p.step /\ p.state = "done")
        /\ NoneFor(s.item) => s.step < start[s.item]
    BY DEF WriteInv, RanBehind
  <2>2. NoneFor(s.item)' => NoneFor(s.item)
    BY <1>2, <1>3 DEF Moved, NoneFor
  <2>3. s.step \in Nat
    BY HandlerRows DEF WriteInv, TypeOK
  <2>4. s.item = r.item => s.step < q.step
    BY <1>1, <1>2, <2>1, <2>3
  <2> QED
    BY <1>2, <1>3, <2>1, <2>2, <2>4 DEF Moved
<1>6. NothingTwice'
  BY <1>3 DEF WriteInv, NothingTwice, Moved
<1>7. InStep'
  <2> SUFFICES ASSUME Reconciles(handler), NEW j \in Items, j \notin Excused'
               PROVE  Alone(j)' /\ Shown(j)' /\ Carried(j)' /\ Copied(j)'
    BY <1>3 DEF InStep, Moved
  <2>1. j \notin Excused
    BY <1>3 DEF Excused, Moved
  <2>2. Shown(j) /\ Carried(j) /\ Copied(j)
    BY <2>1 DEF WriteInv, InStep
  <2>3. Alone(j)' /\ (NoneFor(j)' <=> NoneFor(j))
    BY <1>3, <2>1, MovedKeeps
  <2>4. Shown(j)' /\ Copied(j)'
    BY <1>2, <1>3, <2>2, <2>3 DEF Shown, Copied, Moved
  <2>5. Carried(j)'
    <3>1. handler' = handler /\ view' = view /\ stored' = stored /\ q \in reqs'
          /\ \A p \in reqs' : p = q \/ p \in reqs
      BY <1>3 DEF Moved
    <3>2. \A p \in reqs : p.item = j =>
              /\ view[j] = IF handler.early THEN p.to ELSE p.was
              /\ p.snap[j] = p.was
              /\ stored[j] = IF p.step = Last(handler) /\ p.state = "done" THEN p.to ELSE p.was
      BY <2>2 DEF Carried
    <3>3. r.item = j => stored[j] = r.was
      BY <1>1, <3>2
    <3>4. q.item = j =>
              /\ view[j] = IF handler.early THEN q.to ELSE q.was
              /\ q.snap[j] = q.was /\ stored[j] = q.was
      BY <1>2, <3>2, <3>3
    <3> QED
      BY <1>2, <3>1, <3>2, <3>4 DEF Carried
  <2> QED
    BY <2>3, <2>4, <2>5
<1> QED
  BY <1>4, <1>5, <1>6, <1>7

\* The end of a handler: the change ran, and the screen shows it or reads again.
LEMMA FinishKeeps ==
  ASSUME WriteInv, NEW r \in reqs, Succeed(r), ~(r.step < Last(handler)),
         Reconciles(handler) => r.state = "done",
         UNCHANGED <<handler, stored, lost, twice>>
  PROVE  OneUnderWay' /\ RanBehind' /\ NothingTwice' /\ InStep'
<1> USE HandlerRows
<1>1. /\ r \in Requests /\ handler \in Handlers
      /\ view \in [Items -> BOOLEAN] /\ start \in [Items -> 1..Last(handler)]
      /\ ran \subseteq [item : Items, step : 1..Last(handler)]
  BY DEF WriteInv, TypeOK, Requests
<1>2. r.item \in Items /\ r.step = Last(handler)
  BY <1>1 DEF Requests
<1>3. /\ reqs' = reqs \ {r}
      /\ view' = AfterSuccess(handler, r, view)
      /\ busy' = Freed(handler, r.item, TRUE, busy)
      /\ start' = [start EXCEPT ![r.item] = 1]
      /\ reading' = (reading \/ handler.ok = "reload")
      /\ crossed' = IF handler.ok = "reload" THEN crossed \cup {q.item : q \in reqs \ {r}}
                    ELSE crossed
      /\ ran' = {s \in ran : s.item # r.item}
  BY DEF Succeed, Reloads
<1>4. OneUnderWay'
  BY <1>3, GoneKeeps
<1>5. RanBehind'
  <2> SUFFICES ASSUME Exclusive(handler), ~StartsOver(handler),
                      NEW s \in ran, s.item # r.item, s.item \notin lost
               PROVE  /\ Changes(handler, s.step)
                      /\ \A p \in reqs' : p.item = s.item =>
                             s.step < p.step \/ (s.step = p.step /\ p.state = "done")
                      /\ NoneFor(s.item)' => s.step < start'[s.item]
    BY <1>3 DEF RanBehind
  <2>1. start'[s.item] = start[s.item] /\ (NoneFor(s.item)' => NoneFor(s.item))
    BY <1>1, <1>3 DEF NoneFor
  <2> QED
    BY <1>3, <2>1 DEF WriteInv, RanBehind
<1>6. NothingTwice'
  BY DEF WriteInv, NothingTwice
<1>7. InStep'
  <2> SUFFICES ASSUME Reconciles(handler), NEW j \in Items, j \notin Excused'
               PROVE  Alone(j)' /\ Shown(j)' /\ Carried(j)' /\ Copied(j)'
    BY DEF InStep
  <2>1. j \notin Excused
    BY <1>3 DEF Excused
  <2>2. Alone(j) /\ Shown(j) /\ Carried(j) /\ Copied(j)
    BY <2>1 DEF WriteInv, InStep
  <2>3. Copied(j)'
    BY <1>3, <2>2 DEF Copied
  <2>4. CASE r.item = j
    <3>1. NoneFor(j)'
      BY <1>3, <2>2, <2>4 DEF Alone, NoneFor
    <3>2. Alone(j)' /\ Carried(j)'
      BY <3>1 DEF Alone, Carried, NoneFor
    <3>3. stored[j] = r.to /\ (handler.early => view[j] = r.to)
      BY <1>2, <2>2, <2>4 DEF Carried
    <3>4. handler.early \/ handler.ok = "apply" => view'[j] = r.to
      BY <1>1, <1>2, <1>3, <2>4, <3>3 DEF AfterSuccess
    <3>5. handler.ok = "reload" => reading'
      BY DEF Succeed, Reloads
    <3>6. handler.early \/ handler.ok \in {"apply", "reload"}
      BY <1>1 DEF Reconciles
    <3>7. Shown(j)'
      BY <3>3, <3>4, <3>5, <3>6 DEF Shown
    <3> QED
      BY <2>3, <3>2, <3>7
  <2>5. CASE r.item # j
    <3>1. NoneFor(j)' <=> NoneFor(j)
      BY <1>3, <2>5 DEF NoneFor
    <3>2. handler.ok = "reload" => NoneFor(j)
      BY <1>3, <2>5 DEF Excused, NoneFor
    <3>3. Alone(j)'
      BY <1>3, <2>2, <3>1, <3>2 DEF Alone, NoneFor
    <3>4. view'[j] = view[j]
      BY <1>1, <1>2, <1>3, <2>5 DEF AfterSuccess
    <3>5. Shown(j)'
      BY <1>3, <2>2, <3>1, <3>4 DEF Shown
    <3>6. Carried(j)'
      BY <1>3, <2>2, <3>4 DEF Carried
    <3> QED
      BY <2>3, <3>3, <3>5, <3>6
  <2> QED
    BY <2>4, <2>5
<1> QED
  BY <1>4, <1>5, <1>6, <1>7

\* What is delivered is an end of the handler, its next request or a rejection;
\* a handler with a way back goes on only after a request that was carried out.
LEMMA DeliverKeeps ==
  ASSUME WriteInv, NEW r \in reqs, NEW w \in handler.steps[r.step], NEW reply \in Replies,
         Deliver(r, w, reply)
  PROVE  OneUnderWay' /\ RanBehind' /\ NothingTwice' /\ InStep'
<1>1. r.step \in 1..Last(handler) /\ r.state \in {"sent", "done", "refused"}
  BY DEF WriteInv, TypeOK
<1>2. /\ r.state # "sent" /\ reply \in RepliesTo(r.state)
      /\ UNCHANGED <<handler, stored, twice>>
      /\ lost' = IF r.state = "done" /\ Changes(handler, r.step) /\ Outcome(w, reply) = "throws"
                   THEN lost \cup {r.item} ELSE lost
  BY DEF Deliver
<1>3. CASE Outcome(w, reply) = "throws"
  <2>1. Throw(r)
    BY <1>3 DEF Deliver
  <2> QED
    BY <1>2, <1>3, <2>1, ThrowKeeps
<1>4. CASE Outcome(w, reply) # "throws"
  <2>1. Succeed(r) /\ UNCHANGED lost
    BY <1>2, <1>4 DEF Deliver
  <2>2. Reconciles(handler) => r.state = "done"
    <3> SUFFICES ASSUME Reconciles(handler), r.state # "done" PROVE FALSE
      OBVIOUS
    <3>1. reply \in Refusals \cup {"lost"}
      BY <1>2 DEF RepliesTo
    <3> QED
      BY <1>1, <1>4, <3>1, Heard
  <2> QED
    BY <1>2, <2>1, <2>2, NextStepKeeps, FinishKeeps
<1> QED
  BY <1>3, <1>4

\* Before the first press nothing is under way and the screen agrees.
LEMMA InitWrite == Init => WriteInv
<1> SUFFICES ASSUME Init PROVE WriteInv
  OBVIOUS
<1> USE WriteConstants, HandlerRows DEF Init
<1>1. TypeOK
  <2>1. handler \in Handlers /\ Last(handler) \in Nat \ {0} /\ presses \in 0..MaxPresses
    OBVIOUS
  <2>2. 1 \in 1..Last(handler)
    BY <2>1
  <2>3. start \in [Items -> 1..Last(handler)] /\ stored \in [Items -> BOOLEAN]
    BY <2>2
  <2> QED
    BY <2>1, <2>3 DEF TypeOK
<1>2. OneUnderWay /\ RanBehind /\ NothingTwice
  BY DEF OneUnderWay, RanBehind, NothingTwice
<1>3. InStep
  BY DEF InStep, Alone, Shown, Carried, Copied, NoneFor
<1> QED
  BY <1>1, <1>2, <1>3 DEF WriteInv

\* Every step keeps the invariant.
LEMMA NextWrite == WriteInv /\ [Next]_vars => WriteInv'
<1> SUFFICES ASSUME WriteInv, [Next]_vars PROVE WriteInv'
  OBVIOUS
<1>1. TypeOK'
  BY NextType DEF WriteInv
<1>2. ASSUME NEW i \in Items, Press(i) PROVE WriteInv'
  BY <1>1, <1>2, PressKeeps DEF WriteInv
<1>3. ASSUME NEW r \in reqs, Execute(r) PROVE WriteInv'
  BY <1>1, <1>3, ExecuteKeeps DEF WriteInv
<1>4. ASSUME NEW r \in reqs, Refuse(r) PROVE WriteInv'
  BY <1>1, <1>4, RefuseKeeps DEF WriteInv
<1>5. ASSUME NEW r \in reqs, NEW w \in handler.steps[r.step], NEW reply \in Replies,
             Deliver(r, w, reply)
      PROVE  WriteInv'
  BY <1>1, <1>5, DeliverKeeps DEF WriteInv
<1>6. CASE Refresh
  BY <1>1, <1>6, RefreshKeeps DEF WriteInv
<1>7. CASE UNCHANGED vars
  BY <1>1, <1>7 DEF vars, WriteInv, OneUnderWay, RanBehind, NothingTwice, InStep, Excused,
                    Alone, Shown, Carried, Copied, NoneFor
<1> QED
  BY <1>2, <1>3, <1>4, <1>5, <1>6, <1>7 DEF Next, DeliverSome

\* For every table of handlers, every set of items and any number of presses,
\* the bookkeeping of each handler of the screens fits what the server did.
THEOREM WriteInvariant == Spec => []WriteInv
BY InitWrite, NextWrite, PTL DEF Spec

\* At rest the invariant says what the two agreements say.
LEMMA Settled == WriteInv => PageAgrees /\ HealsAfterLoss
<1> SUFFICES ASSUME WriteInv PROVE PageAgrees /\ HealsAfterLoss
  OBVIOUS
<1>1. TypeOK /\ handler \in Handlers
  BY DEF WriteInv, TypeOK
<1>2. ASSUME AtRest, Reconciles(handler), NEW i \in Items, i \notin Excused
      PROVE  view[i] = stored[i]
  BY <1>2 DEF WriteInv, InStep, Shown, NoneFor, AtRest
<1>3. AgreesAtRest
  BY <1>2 DEF AgreesAtRest, Excused
<1>4. HealsAfterLoss
  BY <1>1, <1>2, ReconcilingRows DEF HealsAfterLoss, Excused
<1> QED
  BY <1>1, <1>3, <1>4 DEF PageAgrees

\* Once nothing is under way, a screen whose handler has a way back from a
\* refusal shows what the server holds, for every set of items and any number
\* of presses on them: optimistic changes, their undoing and the restored copies
\* of the whole screen agree with it, where changes did not overlap.
THEOREM PageAgreesHolds == Spec => []PageAgrees
BY WriteInvariant, Settled, PTL

\* A handler that reads again after a failure shows what the server holds even
\* when the reply to a change that ran was lost.
THEOREM HealsAfterLossHolds == Spec => []HealsAfterLoss
BY WriteInvariant, Settled, PTL

\* A handler that keeps a second press out, and whose retry knows how far the
\* first attempt came, never makes the server run a step of a change twice,
\* unless a reply was lost.
THEOREM NothingTwiceHolds == Spec => []NothingTwice
<1>1. WriteInv => NothingTwice
  BY DEF WriteInv
<1> QED
  BY <1>1, WriteInvariant, PTL

-----------------------------------------------------------------------------
(* Screens: the inductive invariant *)

\* ?next= is there on the login and onboarding paths only, and the one of the login page
\* alone holds a second one, behind an onboarding path.
NextNests ==
    /\ next # <<>> => path \in OnboardingRoutes \cup {"/login"}
    /\ Len(next) = 2 => path = "/login" /\ next[1] \in OnboardingRoutes

\* Only an overlay has a page behind it, and never one of those that send on.
BackgroundIs ==
    background # None => path \in Overlays /\ background \notin OnboardingRoutes \cup {"/login"}

\* A sign-in or onboarding returns to a page, never to the login page.
Returns == Routes \ {"/login"}
USE DEF Returns

PlaceInv ==
    /\ session \in Sessions /\ onboard \in BOOLEAN /\ flag \in {"pending", "on", "off"}
    /\ path \in Routes /\ next \in {<<>>} \cup {<<p>> : p \in Returns} \cup Returns \X Returns
    /\ background \in Routes \cup {None} /\ wanted \in Routes
    /\ Destination(path, next) = wanted /\ NextNests /\ BackgroundIs

\* Every gate on the way to the component looked at lets the session through.
GatesKept == \A g \in kept : Passes(g, session, flag, path)

OpenerIs ==
    /\ session = "pending" => opener = "pending"
    /\ opener = "guest" => "unlessGuest" \notin kept

\* The component is one that a session of the opener's level can come to.
AtLeastMember(l) == IF l = 0 THEN 1 ELSE l
MetHere ==
    /\ at \in MetAt[AtLeastMember(Level[opener])]
    /\ "unlessGuest" \notin kept => at \in MetAt[Level[opener]]

Inside == at \in OuterParts \/ "open" \in kept
PublicHere ==
    PublicPath(path) /\ background = None /\ "member" \notin kept => at \in PublicParts
LoginHere == path = "/login" => at \in LoginParts
AwayHere == path \notin OnboardingRoutes => at \in AwayParts

CursorInv ==
    /\ at \in DOMAIN Components /\ kept \subseteq Gates /\ opener \in Sessions
    /\ GatesKept /\ OpenerIs /\ MetHere /\ Inside /\ PublicHere /\ LoginHere /\ AwayHere

ScreensInv == PlaceInv /\ CursorInv

-----------------------------------------------------------------------------
(* Paths *)

\* The routes the gates name, as the redirects need them.
LEMMA RouteFacts ==
  /\ "/" \in Routes /\ "/browse" \in Routes /\ "/login" \in Routes /\ "/admin" \in Routes
  /\ "/onboarding/preferences" \in Routes /\ Overlays \subseteq Routes
  /\ OnboardingRoutes \subseteq Routes
  /\ \A p \in Overlays \cup ProtectedRoutes : p \notin OnboardingRoutes /\ p # "/login"
  BY RoutesKnown DEF Routes, OnboardingRoutes, Overlays, ProtectedRoutes, AdminRoutes

LEMMA NestingCases ==
  ASSUME PlaceInv
  PROVE  \/ next = <<>>
         \/ \E p \in Returns : next = <<p>>
         \/ \E p, q \in Returns : next = <<p, q>>
<1>1. next = <<>> \/ next \in {<<p>> : p \in Returns} \/ next \in Returns \X Returns
  BY DEF PlaceInv
<1>2. ASSUME NEW n, n \in Returns \X Returns PROVE n = <<n[1], n[2]>> /\ n[1] \in Returns /\ n[2] \in Returns
  BY <1>2
<1> QED BY <1>1, <1>2

\* What ?next= becomes when the front end adds to it or follows it.
LEMMA Nesting ==
  ASSUME NEW p, NEW q, NEW r
  PROVE  /\ <<r>> \o <<>> = <<r>> /\ <<r>> \o <<p>> = <<r, p>>
         /\ Len(<<p>>) = 1 /\ Len(<<p, q>>) = 2 /\ Head(<<p>>) = p /\ Head(<<p, q>>) = p
         /\ Tail(<<p>>) = <<>> /\ Tail(<<p, q>>) = <<q>>
         /\ <<p>> # <<>> /\ <<p, q>> # <<>> /\ Len(<<>>) = 0
<1>1. <<r>> \o <<>> = <<r>> /\ <<r>> \o <<p>> = <<r, p>>
  <2>1. <<r>> \in Seq({p, r}) /\ <<p>> \in Seq({p, r}) /\ <<r, p>> \in Seq({p, r})
    OBVIOUS
  <2>2. <<r>> \o <<p>> \in Seq({p, r}) /\ Len(<<r>> \o <<p>>) = 2
        /\ (<<r>> \o <<p>>)[1] = r /\ (<<r>> \o <<p>>)[2] = p
    <3>1. /\ <<r>> \o <<p>> \in Seq({p, r}) /\ Len(<<r>> \o <<p>>) = Len(<<r>>) + Len(<<p>>)
          /\ \A i \in 1 .. Len(<<r>>) + Len(<<p>>) : (<<r>> \o <<p>>)[i] =
                IF i <= Len(<<r>>) THEN <<r>>[i] ELSE <<p>>[i - Len(<<r>>)]
      BY <2>1, ConcatProperties, Zenon
    <3>2. Len(<<r>>) = 1 /\ Len(<<p>>) = 1 /\ <<r>>[1] = r /\ <<p>>[1] = p
      OBVIOUS
    <3> QED BY <3>1, <3>2
  <2>3. <<r>> \o <<p>> = <<r, p>>
    <3>1. Len(<<r, p>>) = 2 /\ <<r, p>>[1] = r /\ <<r, p>>[2] = p
      OBVIOUS
    <3>2. \A i \in 1 .. Len(<<r>> \o <<p>>) : (<<r>> \o <<p>>)[i] = <<r, p>>[i]
      BY <2>2, <3>1
    <3>3. Len(<<r>> \o <<p>>) = Len(<<r, p>>)
      BY <2>2, <3>1
    <3> QED BY <2>1, <2>2, <3>2, <3>3, SeqEqual, Zenon
  <2> QED BY <2>1, <2>3, ConcatEmptySeq
<1>2. Len(<<p>>) = 1 /\ Len(<<p, q>>) = 2 /\ Len(<<>>) = 0
  OBVIOUS
<1>3. Head(<<p>>) = p /\ Head(<<p, q>>) = p
  OBVIOUS
<1>4. Tail(<<p>>) = <<>>
  OBVIOUS
<1>5. Tail(<<p, q>>) = <<q>>
  OBVIOUS
<1>6. <<p>> # <<>> /\ <<p, q>> # <<>>
  BY <1>2
<1> QED BY <1>1, <1>2, <1>3, <1>4, <1>5, <1>6

\* A path without ?next= leads to itself, one with it to the innermost.
LEMMA DestinationIs ==
  ASSUME NEW p, NEW q, NEW r
  PROVE  /\ Destination(p, <<>>) = Asked(p) /\ Destination(p, <<q>>) = Asked(q)
         /\ Destination(p, <<q, r>>) = Asked(r)
<1>1. Destination(p, <<>>) = Asked(p)
  BY DEF Destination
<1>2. Destination(p, <<q>>) = Asked(q)
  BY Nesting DEF Destination
<1>3. Destination(p, <<q, r>>) = Asked(r)
  BY Nesting DEF Destination
<1> QED BY <1>1, <1>2, <1>3

\* A path that ends nowhere but on itself.
PlainPath(p) == p \in Routes \ (OnboardingRoutes \cup {"/login"})

LEMMA AskedIs ==
  ASSUME NEW p \in Routes
  PROVE  /\ Asked(p) \in Routes /\ Asked("/") = "/" /\ Asked("/login") = "/"
         /\ PlainPath(p) => Asked(p) = p
         /\ p \in OnboardingRoutes => Asked(p) = "/"
  BY RouteFacts DEF Asked, PlainPath, OnboardingRoutes

-----------------------------------------------------------------------------
(* The path asked for survives *)

\* Arriving at a path without ?next=.
LEMMA PlainArrival ==
  ASSUME PlaceInv, NEW p \in Routes, NEW b \in Routes \cup {None}, Arrive(p, <<>>, b),
         b # None => p \in Overlays /\ b \notin OnboardingRoutes \cup {"/login"},
         wanted' = Asked(p), session' \in Sessions, onboard' \in BOOLEAN, flag' = flag
  PROVE  PlaceInv'
<1>1. path' = p /\ next' = <<>> /\ background' = b
  BY DEF Arrive
<1>2. Destination(p, <<>>) = Asked(p) /\ Asked(p) \in Routes
  BY DestinationIs, AskedIs
<1>3. NextNests'
  BY <1>1, Nesting DEF NextNests
<1> QED BY <1>1, <1>2, <1>3 DEF PlaceInv, BackgroundIs

\* Arriving at a path that returns to one that was asked for.
LEMMA ReturningArrival ==
  ASSUME PlaceInv, NEW p \in OnboardingRoutes \cup {"/login"}, NEW q \in Returns, Arrive(p, <<q>>, None),
         wanted' = Asked(q), UNCHANGED <<session, onboard, flag>>
  PROVE  PlaceInv'
<1>1. path' = p /\ next' = <<q>> /\ background' = None /\ p \in Routes
  BY RouteFacts DEF Arrive
<1>2. Destination(p, <<q>>) = Asked(q) /\ Asked(q) \in Routes
  BY DestinationIs, AskedIs
<1>3. NextNests'
  BY <1>1, Nesting DEF NextNests
<1> QED BY <1>1, <1>2, <1>3 DEF PlaceInv, BackgroundIs

\* A redirect keeps the page asked for or names another one.
LEMMA RedirectPlace ==
  ASSUME PlaceInv, Redirect
  PROVE  PlaceInv'
<1> USE DEF PlaceInv
<1>1. ShownPath \in Routes
  BY DEF ShownPath
<1>2. CASE GateRedirect
  <2>1. path \notin PublicRoutes /\ path # "/login"
    BY <1>2 DEF GateRedirect, GateCloses, AccessGate, PublicPath, PublicRoutes
  <2>2. next = <<>> \/ \E q \in Returns : next = <<q>> /\ path \in OnboardingRoutes
    BY <2>1, NestingCases, Nesting DEF NextNests
  <2>3. CASE next = <<>>
    <3>1. Arrive("/login", <<path>>, None) /\ wanted = Asked(path) /\ path \in Returns
      BY <1>2, <2>1, <2>3, Nesting, DestinationIs DEF GateRedirect
    <3> QED BY <1>2, <3>1, ReturningArrival DEF GateRedirect
  <2>4. CASE \E q \in Returns : next = <<q>> /\ path \in OnboardingRoutes
    <3>1. PICK q \in Returns : next = <<q>> /\ path \in OnboardingRoutes
      BY <2>4
    <3>2. path' = "/login" /\ next' = <<path, q>> /\ background' = None
          /\ UNCHANGED <<session, onboard, flag, wanted>>
      BY <1>2, <3>1, Nesting DEF GateRedirect, Arrive
    <3>3. wanted = Asked(q)
      BY <3>1, DestinationIs
    <3>4. Destination(path', next') = wanted'
      <4>1. Destination("/login", <<path, q>>) = Asked(q)
        BY Nesting DEF Destination
      <4> QED BY <3>2, <3>3, <4>1
    <3>5. NextNests'
      BY <3>1, <3>2, Nesting DEF NextNests
    <3> QED BY <2>1, <3>1, <3>2, <3>4, <3>5, RouteFacts DEF BackgroundIs
  <2> QED BY <2>2, <2>3, <2>4
<1>3. CASE HomeRedirect
  <2>1. Asked("/browse") = "/browse"
    BY DEF Asked, OnboardingRoutes
  <2> QED BY <1>3, <2>1, PlainArrival, RouteFacts DEF HomeRedirect
<1>4. CASE RouteRedirect
  <2>1. PlainPath(Legacy[ShownPath])
    BY <1>4, TablesAgree DEF RouteRedirect, RouteMoves, PlainPath, Routes
  <2> QED BY <1>4, <2>1, AskedIs, PlainArrival DEF RouteRedirect, PlainPath
<1>5. CASE ProtectedRedirect
  <2>1. PlainPath(ShownPath)
    BY <1>1, <1>5, RouteFacts DEF ProtectedRedirect, NeedsSession, PlainPath
  <2> QED BY <1>1, <1>5, <2>1, AskedIs, ReturningArrival DEF ProtectedRedirect
<1>6. CASE AdminRedirect
  <2>1. Asked("/") = "/"
    BY AskedIs, RouteFacts
  <2> QED BY <1>6, <2>1, PlainArrival, RouteFacts DEF AdminRedirect
<1>7. CASE OnboardingRedirect
  <2>1. path \notin OnboardingRoutes \cup {"/login"}
    BY <1>7 DEF OnboardingRedirect, NeedsOnboarding, SkipsOnboarding
  <2>2. wanted = Asked(path)
    BY <2>1, DestinationIs DEF NextNests
  <2>3. "/onboarding/preferences" \in OnboardingRoutes
    BY DEF OnboardingRoutes
  <2> QED BY <1>7, <2>1, <2>2, <2>3, ReturningArrival DEF OnboardingRedirect
<1>8. CASE LoginRedirect
  <2>1. CASE session = "admin"
    <3>1. Asked("/admin") = "/admin"
      BY DEF Asked, OnboardingRoutes
    <3> QED BY <1>8, <2>1, <3>1, PlainArrival, RouteFacts DEF LoginRedirect
  <2>2. CASE session # "admin"
    <3>1. Arrive(Return, ReturnNext, None) /\ wanted' = wanted /\ UNCHANGED <<session, onboard, flag>>
      BY <1>8, <2>2 DEF LoginRedirect
    <3>2. CASE next = <<>>
      <4>1. wanted = "/" /\ Asked("/") = "/"
        BY <1>8, <3>2, DestinationIs, AskedIs, RouteFacts DEF LoginRedirect, LoginDone
      <4> QED BY <3>1, <3>2, <4>1, PlainArrival, RouteFacts DEF Return, ReturnNext
    <3>3. ASSUME NEW p \in Returns, next = <<p>> PROVE PlaceInv'
      <4>1. wanted = Asked(p) /\ Return = p /\ ReturnNext = <<>>
        BY <3>3, DestinationIs, Nesting DEF Return, ReturnNext
      <4> QED BY <3>1, <4>1, PlainArrival
    <3>4. ASSUME NEW p \in Returns, NEW q \in Returns, next = <<p, q>> PROVE PlaceInv'
      <4>1. wanted = Asked(q) /\ Return = p /\ ReturnNext = <<q>>
        BY <3>4, Nesting DEF Return, ReturnNext, Destination
      <4>2. p \in OnboardingRoutes
        BY <3>4, Nesting DEF NextNests
      <4> QED BY <3>1, <4>1, <4>2, ReturningArrival
    <3> QED BY <3>2, <3>3, <3>4, NestingCases
  <2> QED BY <2>1, <2>2
<1> QED BY <1>2, <1>3, <1>4, <1>5, <1>6, <1>7, <1>8 DEF Redirect

-----------------------------------------------------------------------------
(* The parts a component has *)

\* A part of the shell that the location adds: a page behind the gate of its route, the frame
\* of the section, or the page of an overlay.
LEMMA RoutedIs ==
  ASSUME NEW t \in Routed
  PROVE  /\ t[1] = "shows"
         /\ \/ ShownPath \in DOMAIN Page /\ t[2] = RouteGate(ShownPath) /\ t[3] = Page[ShownPath]
            \/ ShownPath \in SectionRoutes /\ t[2] = "any" /\ t[3] = "SectionLayout"
            \/ background # None /\ path \in Overlays /\ t[2] = "any" /\ t[3] = Page[path]
<1>1. \/ ShownPath \in DOMAIN Page /\ t \in Shows(RouteGate(ShownPath), {Page[ShownPath]})
      \/ ShownPath \in SectionRoutes /\ t \in Shows("any", {"SectionLayout"})
      \/ background # None /\ path \in Overlays /\ t \in Shows("any", {Page[path]})
  BY DEF Routed
<1>2. ASSUME NEW g, NEW c, t \in Shows(g, {c}) PROVE t[1] = "shows" /\ t[2] = g /\ t[3] = c
  BY <1>2 DEF Shows
<1> QED BY <1>1, <1>2

LEMMA RouteGateIs ==
  ASSUME NEW p
  PROVE  /\ RouteGate(p) \in AllGates /\ Rank(RouteGate(p)) = PageRank(p)
         /\ p \notin ProtectedRoutes \cup SectionRoutes => RouteGate(p) = "any"
         /\ p \in ProtectedRoutes \ AdminRoutes => RouteGate(p) = "member"
  BY DEF RouteGate, AllGates, Gates, Rank, PageRank, Level, ProtectedRoutes

\* A part on offer is in the table or one of the shell's, its gate lets the session through,
\* and what it shows or opens is a component.
LEMMA OfferedIs ==
  ASSUME PlaceInv, at \in DOMAIN Components, NEW t \in Offered
  PROVE  /\ Passes(t[2], session, flag, path) /\ t[2] \in AllGates
         /\ t \in Components[at] \/ (at = "AppShell" /\ t \in Routed)
         /\ t[1] \in Rendered => t[3] \in DOMAIN Components
         /\ t[1] = "links" => t[3] \in Routes
         /\ t[1] = "signs" => t[3] \in Returns \cup {"here", "nowhere"}
<1>1. Passes(t[2], session, flag, path) /\ (t \in Components[at] \/ (at = "AppShell" /\ t \in Routed))
  BY DEF Offered, Parts, PartsOf
<1>2. CASE t \in Components[at]
  BY <1>1, <1>2, TablesAgree
<1>3. CASE t \in Routed
  <2>1. path \in Overlays => path \in DOMAIN Page
    BY RoutesKnown
  <2>2. "any" \in AllGates
    BY DEF AllGates
  <2>3. t[1] = "shows" /\ t[3] \in DOMAIN Components /\ t[2] \in AllGates
    BY <1>3, <2>1, <2>2, RoutedIs, RouteGateIs, TablesAgree
  <2> QED BY <1>1, <2>3
<1> QED BY <1>1, <1>2, <1>3

\* A part of the table is an edge of the tree.
LEMMA LeadsIs ==
  ASSUME NEW c \in DOMAIN Components, NEW t \in Components[c], NEW kinds, NEW gates,
         t[1] \in kinds, t[2] \in gates
  PROVE  <<c, t[3]>> \in Leads(kinds, gates)
  BY DEF Leads

\* The gates a session passes are of its level at most, "unlessGuest" aside.
LEMMA PassesIs ==
  ASSUME NEW g \in AllGates, NEW s \in Sessions, NEW f, NEW p, Passes(g, s, f, p)
  PROVE  /\ Level[s] \in 0..3 /\ Rank(g) \in 0..3 /\ Rank(g) <= AtLeastMember(Level[s])
         /\ g # "unlessGuest" \/ s = "guest" => Rank(g) <= Level[s]
         /\ s = "guest" => g # "unlessGuest" /\ g # "member"
         /\ ~SignedIn(s) /\ p = "/login" => g \in LoginGates
  BY DEF AllGates, Gates, Sessions, Passes, Rank, Level, AtLeastMember, SignedIn, LoginGates

-----------------------------------------------------------------------------
(* The cursor *)

LEMMA AtIs ==
  \A s \in Sessions : Level[s] \in 0..3 /\ AtLeastMember(Level[s]) \in 0..3
  BY DEF Sessions, Level, AtLeastMember

\* At the top of the tree.
LEMMA TopKeeps ==
  ASSUME at' = "App", kept' = {}, opener' = session', session' \in Sessions
  PROVE  CursorInv'
<1>1. "App" \in DOMAIN Components
  BY TablesAgree
<1>2. \A l \in 0..3 : "App" \in MetAt[l]
  BY RolesAgree DEF MetStart
<1>3. "App" \in OuterParts /\ "App" \in PublicParts /\ "App" \in LoginParts /\ "App" \in AwayParts
  BY PlacesAgree
<1>4. MetHere'
  BY <1>2, AtIs DEF MetHere
<1> QED BY <1>1, <1>3, <1>4 DEF CursorInv, GatesKept, OpenerIs, Inside, PublicHere, LoginHere, AwayHere

\* The session or the flag changes and every gate on the way still lets it through.
LEMMA StayKeeps ==
  ASSUME CursorInv, UNCHANGED <<at, kept, opener, path, background>>,
         \A g \in kept : Passes(g, session', flag', path), session' = "pending" => session = "pending"
  PROVE  CursorInv'
<1>1. GatesKept' /\ OpenerIs'
  BY DEF CursorInv, GatesKept, OpenerIs
<1>2. MetHere' /\ Inside' /\ PublicHere' /\ LoginHere' /\ AwayHere'
  BY DEF CursorInv, MetHere, Inside, PublicHere, LoginHere, AwayHere
<1> QED BY <1>1, <1>2 DEF CursorInv

LEMMA RerenderKeeps ==
  ASSUME ScreensInv, Rerender(session', flag'), UNCHANGED <<path, background>>, session' \in Sessions,
         session' = "pending" => session = "pending"
  PROVE  CursorInv'
  BY TopKeeps, StayKeeps DEF Rerender, AtTop, ScreensInv

\* A part on offer to a component that a session of level l can come to leads to another one,
\* when its gate is of that level, or when it is opened while the session is pending.
LEMMA MetLeads ==
  ASSUME ScreensInv, NEW l \in 0..3, at \in MetAt[l], NEW t \in Offered, t[1] \in Rendered,
         Rank(t[2]) <= l \/ (t[1] = "opens" /\ t[2] = "unlessGuest")
  PROVE  t[3] \in MetAt[l]
<1>1. /\ MetStart(l) \subseteq MetAt[l] /\ ClosedUnder(MetEdges(l), MetAt[l])
  BY RolesAgree
<1>2. at \in DOMAIN Components /\ t[2] \in AllGates
      /\ (t \in Components[at] \/ (at = "AppShell" /\ t \in Routed))
  BY OfferedIs DEF ScreensInv, CursorInv
<1>3. CASE t \in Components[at]
  <2>1. CASE Rank(t[2]) <= l
    <3>1. t[2] \in GatesUpTo(l)
      BY <1>2, <2>1 DEF GatesUpTo
    <3>2. <<at, t[3]>> \in Leads(Rendered, GatesUpTo(l))
      BY <1>2, <1>3, <3>1, LeadsIs
    <3> QED BY <1>1, <3>2 DEF MetEdges, ClosedUnder
  <2>2. CASE t[1] = "opens" /\ t[2] = "unlessGuest"
    <3>1. t[1] \in {"opens"} /\ t[2] \in {"unlessGuest"}
      BY <2>2
    <3>2. <<at, t[3]>> \in Leads({"opens"}, {"unlessGuest"})
      BY <1>2, <1>3, <3>1, LeadsIs
    <3> QED BY <1>1, <3>2 DEF MetEdges, ClosedUnder
  <2> QED BY <2>1, <2>2
<1>4. CASE t \in Routed
  <2>1. CASE ShownPath \in DOMAIN Page /\ t[2] = RouteGate(ShownPath) /\ t[3] = Page[ShownPath]
    <3>1. PageRank(ShownPath) <= l
      BY <1>4, <2>1, RoutedIs, RouteGateIs
    <3> QED BY <1>1, <2>1, <3>1 DEF MetStart
  <2>2. CASE t[3] = "SectionLayout"
    BY <1>1, <2>2 DEF MetStart
  <2>3. CASE path \in Overlays /\ t[3] = Page[path]
    <3>1. path \in DOMAIN Page /\ PageRank(path) = 0
      BY <2>3, RoutesKnown DEF PageRank, Overlays, AdminRoutes, ProtectedRoutes, SectionRoutes
    <3> QED BY <1>1, <2>3, <3>1 DEF MetStart
  <2> QED BY <1>4, <2>1, <2>2, <2>3, RoutedIs
<1> QED BY <1>2, <1>3, <1>4

\* One step down the tree.
Step(t) ==
    /\ t[1] \in Rendered /\ at' = t[3]
    /\ kept' = IF t[1] = "shows" /\ t[2] # "any" THEN kept \cup {t[2]} ELSE kept
    /\ opener' = IF Level[opener] > Level[session] THEN opener ELSE session
    /\ UNCHANGED <<session, onboard, flag, path, next, background, wanted>>

LEMMA StepOpener ==
  ASSUME ScreensInv, NEW t \in Offered, Step(t)
  PROVE  OpenerIs' /\ GatesKept'
<1>1. Passes(t[2], session, flag, path) /\ t[2] \in AllGates /\ session \in Sessions /\ opener \in Sessions
  BY OfferedIs DEF ScreensInv, PlaceInv, CursorInv
<1>2. GatesKept'
  BY <1>1 DEF GatesKept, Step, ScreensInv, CursorInv
<1>3. session = "pending" => opener' = "pending"
  <2>1. session = "pending" => opener = "pending"
    BY DEF ScreensInv, CursorInv, OpenerIs
  <2> QED BY <1>1, <2>1 DEF Step, Level, Sessions
<1>4. ASSUME opener' = "guest" PROVE "unlessGuest" \notin kept'
  <2>1. session = "guest"
    BY <1>1, <1>4 DEF Step, Level, Sessions
  <2>2. \A g \in kept' : g # "unlessGuest"
    BY <1>2, <2>1 DEF GatesKept, Passes, Step
  <2> QED BY <2>2
<1> QED BY <1>2, <1>3, <1>4 DEF OpenerIs, Step

LEMMA StepMet ==
  ASSUME ScreensInv, NEW t \in Offered, Step(t)
  PROVE  MetHere'
<1>1. /\ Passes(t[2], session, flag, path) /\ t[2] \in AllGates
      /\ session \in Sessions /\ opener \in Sessions /\ opener' \in Sessions /\ MetHere
  BY OfferedIs DEF ScreensInv, PlaceInv, CursorInv, Step
<1> DEFINE l == Level[opener']
<1>2. /\ l \in 0..3 /\ Level[opener] \in 0..3 /\ Level[session] \in 0..3
      /\ Level[opener] <= l /\ Level[session] <= l
  BY <1>1, AtIs DEF Step
<1>3. AtLeastMember(l) \in 0..3 /\ AtLeastMember(Level[opener]) <= AtLeastMember(l)
      /\ AtLeastMember(Level[session]) <= AtLeastMember(l)
      /\ AtLeastMember(Level[opener]) \in 0..3
  BY <1>2 DEF AtLeastMember
<1>4. Rank(t[2]) \in 0..3 /\ Rank(t[2]) <= AtLeastMember(Level[session])
      /\ (t[2] # "unlessGuest" => Rank(t[2]) <= Level[session])
  BY <1>1, PassesIs
<1>5. at' \in MetAt[AtLeastMember(l)]
  <2>1. at \in MetAt[AtLeastMember(l)]
    BY <1>1, <1>2, <1>3, RolesAgree DEF MetHere
  <2>2. Rank(t[2]) <= AtLeastMember(l)
    BY <1>2, <1>3, <1>4 DEF AtLeastMember
  <2> QED BY <1>3, <2>1, <2>2, MetLeads DEF Step
<1>6. ASSUME "unlessGuest" \notin kept' PROVE at' \in MetAt[l]
  <2>1. "unlessGuest" \notin kept /\ (t[1] = "shows" => t[2] # "unlessGuest")
    BY <1>6 DEF Step
  <2>2. at \in MetAt[l]
    BY <1>1, <1>2, <2>1, RolesAgree DEF MetHere
  <2>3. Rank(t[2]) <= l \/ (t[1] = "opens" /\ t[2] = "unlessGuest")
    BY <1>2, <1>4, <2>1 DEF Step, Rendered
  <2> QED BY <1>2, <2>2, <2>3, MetLeads DEF Step
<1> QED BY <1>5, <1>6 DEF MetHere

\* The places: inside or outside of the access gate, under a public page, on the login page,
\* away from onboarding.
LEMMA StepPlaces ==
  ASSUME ScreensInv, NoneDue, NEW t \in Offered, Step(t)
  PROVE  Inside' /\ PublicHere' /\ LoginHere' /\ AwayHere'
<1>1. /\ Passes(t[2], session, flag, path) /\ t[2] \in AllGates /\ session \in Sessions
      /\ at \in DOMAIN Components /\ (t \in Components[at] \/ (at = "AppShell" /\ t \in Routed))
      /\ path' = path /\ background' = background /\ at' = t[3] /\ t[1] \in Rendered
  BY OfferedIs DEF ScreensInv, PlaceInv, CursorInv, Step
<1>2. /\ Inside /\ PublicHere /\ LoginHere /\ AwayHere /\ BackgroundIs
      /\ OuterParts \cap {"AppShell"} = {}
  BY PlacesAgree DEF ScreensInv, CursorInv, PlaceInv
<1>3. kept \subseteq kept'
  BY DEF Step
<1>4. Inside'
  <2>1. ASSUME at \in OuterParts, t[2] # "open" PROVE at' \in OuterParts
    <3>1. t \in Components[at] /\ t[2] \in AllGates \ {"open"}
      BY <1>1, <1>2, <2>1
    <3>2. <<at, t[3]>> \in Leads(Rendered, AllGates \ {"open"})
      BY <1>1, <3>1, LeadsIs
    <3> QED BY <1>1, <2>1, <3>2, PlacesAgree DEF ClosedUnder
  <2>2. ASSUME at \in OuterParts, t[2] = "open" PROVE "open" \in kept'
    <3>1. t \in Components[at]
      BY <1>1, <1>2, <2>2
    <3>2. t[1] # "opens"
      <4> SUFFICES ASSUME t[1] = "opens" PROVE FALSE
        OBVIOUS
      <4>1. t[1] \in {"opens"} /\ t[2] \in {"open"}
        BY <2>2
      <4>2. <<at, t[3]>> \in Leads({"opens"}, {"open"})
        BY <1>1, <3>1, <4>1, LeadsIs
      <4> QED BY <4>2, PlacesAgree
    <3> QED BY <1>1, <2>2, <3>2 DEF Step, Rendered
  <2> QED BY <1>2, <1>3, <2>1, <2>2 DEF Inside
<1>5. PublicHere'
  <2> SUFFICES ASSUME PublicPath(path), background = None, "member" \notin kept'
               PROVE  at' \in PublicParts
    BY <1>1 DEF PublicHere
  <2>1. at \in PublicParts
    BY <1>2, <1>3 DEF PublicHere
  <2>2. CASE t \in Components[at]
    <3>1. <<at, t[3]>> \in Leads(Rendered, AllGates)
      BY <1>1, <2>2, LeadsIs
    <3> QED BY <1>1, <2>1, <3>1, PlacesAgree DEF ClosedUnder
  <2>3. CASE t \in Routed
    <3>1. ShownPath = path /\ path \in PublicRoutes
      BY DEF ShownPath, PublicPath
    <3>2. path \notin SectionRoutes /\ path \notin AdminRoutes
      BY <3>1 DEF PublicRoutes, EventRoutes, SectionRoutes, AdminRoutes
    <3>3. t[1] = "shows" /\ path \in DOMAIN Page /\ t[2] = RouteGate(path) /\ t[3] = Page[path]
      BY <2>3, <3>1, <3>2, RoutedIs
    <3>4. path \notin ProtectedRoutes
      BY <3>2, <3>3, RouteGateIs DEF Step
    <3> QED BY <1>1, <3>1, <3>3, <3>4, PlacesAgree
  <2> QED BY <1>1, <2>2, <2>3
<1>6. LoginHere'
  <2> SUFFICES ASSUME path = "/login" PROVE at' \in LoginParts
    BY <1>1 DEF LoginHere
  <2>1. ~SignedIn(session)
    BY DEF NoneDue, LoginDone
  <2>2. at \in LoginParts /\ t[2] \in LoginGates
    BY <1>1, <1>2, <2>1, PassesIs DEF LoginHere
  <2>3. CASE t \in Components[at]
    <3>1. <<at, t[3]>> \in Leads(Rendered, LoginGates)
      BY <1>1, <2>2, <2>3, LeadsIs
    <3> QED BY <1>1, <2>2, <3>1, PlacesAgree DEF ClosedUnder
  <2>4. CASE t \in Routed
    <3>1. path \notin Overlays /\ path \notin SectionRoutes
      BY DEF Overlays, SectionRoutes
    <3>2. ShownPath = path
      BY <1>2, <3>1 DEF BackgroundIs, ShownPath
    <3> QED BY <1>1, <2>4, <3>1, <3>2, RoutedIs, PlacesAgree
  <2> QED BY <1>1, <2>3, <2>4
<1>7. AwayHere'
  <2> SUFFICES ASSUME path \notin OnboardingRoutes PROVE at' \in AwayParts
    BY <1>1 DEF AwayHere
  <2>1. at \in AwayParts
    BY <1>2 DEF AwayHere
  <2>2. CASE t \in Components[at]
    <3>1. <<at, t[3]>> \in Leads(Rendered, AllGates)
      BY <1>1, <2>2, LeadsIs
    <3> QED BY <1>1, <2>1, <3>1, PlacesAgree DEF ClosedUnder
  <2>3. CASE t \in Routed
    <3>1. ShownPath \notin OnboardingRoutes
      BY <1>2 DEF ShownPath, BackgroundIs
    <3>2. path \in Overlays => path \in DOMAIN Page
      BY RoutesKnown
    <3> QED BY <1>1, <2>3, <3>1, <3>2, RoutedIs, PlacesAgree
  <2> QED BY <1>1, <2>2, <2>3
<1> QED BY <1>4, <1>5, <1>6, <1>7

LEMMA DescendKeeps ==
  ASSUME ScreensInv, Descend
  PROVE  ScreensInv'
<1>1. PICK t \in Offered : Step(t)
  BY DEF Descend, Step, Rendered
<1>2. NoneDue
  BY DEF Descend
<1>3. PlaceInv'
  BY <1>1 DEF ScreensInv, PlaceInv, Step, NextNests, BackgroundIs
<1>4. at' \in DOMAIN Components /\ kept' \subseteq Gates /\ opener' \in Sessions
  <2>1. t[2] \in AllGates /\ t[3] \in DOMAIN Components
    BY <1>1, OfferedIs DEF ScreensInv, CursorInv, Step
  <2> QED BY <1>1, <2>1 DEF ScreensInv, PlaceInv, CursorInv, Step, AllGates
<1>5. OpenerIs' /\ GatesKept' /\ MetHere' /\ Inside' /\ PublicHere' /\ LoginHere' /\ AwayHere'
  BY <1>1, <1>2, StepOpener, StepMet, StepPlaces
<1> QED BY <1>3, <1>4, <1>5 DEF ScreensInv, CursorInv

-----------------------------------------------------------------------------
(* The other steps *)

LEMMA ArrivalKeeps ==
  ASSUME ScreensInv, PlaceInv', NEW p, NEW n, NEW b, Arrive(p, n, b), session' = session
  PROVE  ScreensInv'
<1>1. at' = "App" /\ kept' = {} /\ opener' = session' /\ session' \in Sessions
  BY DEF Arrive, AtTop, ScreensInv, PlaceInv
<1> QED BY <1>1, TopKeeps DEF ScreensInv

LEMMA RedirectKeeps ==
  ASSUME ScreensInv, Redirect
  PROVE  ScreensInv'
<1>1. PlaceInv'
  BY RedirectPlace DEF ScreensInv
<1>2. session' = session /\ \E p, n, b : Arrive(p, n, b)
  BY DEF Redirect, GateRedirect, HomeRedirect, RouteRedirect, ProtectedRedirect, AdminRedirect,
         OnboardingRedirect, LoginRedirect
<1> QED BY <1>1, <1>2, ArrivalKeeps

LEMMA SessionKeeps ==
  ASSUME ScreensInv, AuthSettles \/ FlagsSettle \/ SignIn \/ Expire
  PROVE  ScreensInv'
<1>1. /\ Rerender(session', flag') /\ UNCHANGED <<path, next, background, wanted>>
      /\ session' \in Sessions /\ (session' = "pending" => session = "pending")
      /\ onboard' \in BOOLEAN /\ flag' \in {"pending", "on", "off"}
  BY DEF AuthSettles, FlagsSettle, SignIn, Expire, Sessions, SignedIn, ScreensInv, PlaceInv
<1>2. PlaceInv'
  BY <1>1 DEF ScreensInv, PlaceInv, NextNests, BackgroundIs
<1> QED BY <1>1, <1>2, RerenderKeeps DEF ScreensInv

LEMMA FollowKeeps ==
  ASSUME ScreensInv, Follow
  PROVE  ScreensInv'
<1>1. PICK t \in Offered, b \in {None, ShownPath} :
        /\ t[1] = "links"
        /\ b # None => t[3] \in Overlays /\ ShownPath \notin Overlays \cup OnboardingRoutes \cup {"/login"}
        /\ Arrive(t[3], <<>>, b) /\ wanted' = Asked(t[3]) /\ UNCHANGED <<session, onboard, flag>>
  BY DEF Follow
<1>2. t[3] \in Routes /\ ShownPath \in Routes
  BY <1>1, OfferedIs DEF ScreensInv, PlaceInv, CursorInv, ShownPath
<1>3. PlaceInv'
  BY <1>1, <1>2, PlainArrival DEF ScreensInv, PlaceInv
<1> QED BY <1>1, <1>3, ArrivalKeeps

LEMMA FinishOnboardingKeeps ==
  ASSUME ScreensInv, FinishOnboarding
  PROVE  ScreensInv'
<1>1. /\ Arrive(Return, ReturnNext, None) /\ onboard' = FALSE /\ UNCHANGED <<session, flag, wanted>>
      /\ at = "OnboardingFlowContent"
  BY DEF FinishOnboarding
<1>2. path \in OnboardingRoutes
  BY <1>1, PlacesAgree DEF ScreensInv, CursorInv, AwayHere
<1>3. path # "/login"
  BY <1>2 DEF OnboardingRoutes
<1>4. PlaceInv'
  <2>1. CASE next = <<>>
    <3>1. wanted = "/" /\ Asked("/") = "/"
      BY <1>2, <2>1, DestinationIs, AskedIs, RouteFacts DEF ScreensInv, PlaceInv
    <3> QED BY <1>1, <2>1, <3>1, PlainArrival, RouteFacts DEF Return, ReturnNext, ScreensInv, PlaceInv
  <2>2. ASSUME NEW p \in Returns, next = <<p>> PROVE PlaceInv'
    <3>1. wanted = Asked(p) /\ Return = p /\ ReturnNext = <<>>
      BY <2>2, DestinationIs, Nesting DEF Return, ReturnNext, ScreensInv, PlaceInv
    <3> QED BY <1>1, <3>1, PlainArrival DEF ScreensInv, PlaceInv
  <2>3. ASSUME NEW p \in Returns, NEW q \in Returns, next = <<p, q>> PROVE FALSE
    BY <1>3, <2>3, Nesting DEF ScreensInv, PlaceInv, NextNests
  <2> QED BY <2>1, <2>2, <2>3, NestingCases DEF ScreensInv
<1> QED BY <1>1, <1>4, ArrivalKeeps

LEMMA LogoutKeeps ==
  ASSUME ScreensInv, Logout
  PROVE  ScreensInv'
<1>1. /\ path' \in {"/", "/login"} /\ next' = <<>> /\ background' = None /\ wanted' = "/"
      /\ session' = "guest" /\ onboard' = FALSE /\ flag' = flag /\ AtTop("guest")
  BY DEF Logout
<1>2. Destination(path', next') = "/"
  BY <1>1, AskedIs, RouteFacts DEF Destination
<1>3. PlaceInv'
  <2>1. NextNests' /\ BackgroundIs'
    BY <1>1, Nesting DEF NextNests, BackgroundIs
  <2>2. path' \in Routes /\ wanted' \in Routes /\ Destination(path', next') = wanted'
    BY <1>1, <1>2, RouteFacts
  <2> QED BY <1>1, <2>1, <2>2 DEF ScreensInv, PlaceInv, Sessions
<1>4. CursorInv'
  BY <1>1, TopKeeps DEF AtTop, Sessions
<1> QED BY <1>3, <1>4 DEF ScreensInv

\* A sign-in starts on a page, or on an onboarding page that returns to one, never on the
\* login page itself.
LEMMA StartSignInKeeps ==
  ASSUME ScreensInv, StartSignIn
  PROVE  ScreensInv'
<1> DEFINE Back(r) == IF r = "here" THEN <<path>> \o next ELSE IF r = "nowhere" THEN <<>> ELSE <<r>>
<1>1. PICK t \in Offered :
        /\ t[1] = "signs" /\ Arrive("/login", Back(t[3]), None) /\ wanted' = Destination("/", Back(t[3]))
        /\ UNCHANGED <<session, onboard, flag>>
  BY DEF StartSignIn
<1>2. session = "guest"
  BY DEF StartSignIn
<1>3. /\ Passes(t[2], session, flag, path) /\ t[2] \in AllGates /\ t[3] \in Returns \cup {"here", "nowhere"}
      /\ at \in DOMAIN Components /\ t \in Components[at]
  BY <1>1, OfferedIs, RoutedIs DEF ScreensInv, PlaceInv, CursorInv
<1>4. path # "/login"
  <2> SUFFICES ASSUME path = "/login" PROVE FALSE
    OBVIOUS
  <2>1. at \in LoginParts /\ t[2] \in LoginGates
    BY <1>2, <1>3, PassesIs DEF ScreensInv, CursorInv, LoginHere, SignedIn, Sessions
  <2> QED BY <1>1, <1>3, <2>1, PlacesAgree
<1>5. /\ path \in Routes /\ (next = <<>> \/ \E p \in Returns : next = <<p>> /\ path \in OnboardingRoutes)
  BY <1>4, NestingCases, Nesting DEF ScreensInv, PlaceInv, NextNests
<1>6. \/ Back(t[3]) = <<>> \/ (\E p \in Returns : Back(t[3]) = <<p>>)
      \/ (\E p \in OnboardingRoutes, q \in Returns : Back(t[3]) = <<p, q>>)
  <2>1. CASE t[3] = "here"
    <3>1. CASE next = <<>>
      BY <1>4, <1>5, <2>1, <3>1, Nesting
    <3>2. ASSUME NEW p \in Returns, next = <<p>>, path \in OnboardingRoutes
          PROVE  \E r \in OnboardingRoutes, q \in Returns : Back(t[3]) = <<r, q>>
      <4>1. Back(t[3]) = <<path, p>>
        BY <2>1, <3>2, Nesting
      <4> QED BY <3>2, <4>1
    <3> QED BY <1>5, <3>1, <3>2
  <2>2. CASE t[3] = "nowhere"
    BY <2>2
  <2>3. CASE t[3] \in Returns /\ t[3] # "here" /\ t[3] # "nowhere"
    BY <2>3
  <2> QED BY <1>3, <2>1, <2>2, <2>3
<1>7. /\ path' = "/login" /\ next' = Back(t[3]) /\ background' = None
      /\ wanted' = Destination("/", Back(t[3])) /\ UNCHANGED <<session, onboard, flag>>
  BY <1>1 DEF Arrive
<1>8. PlaceInv'
  <2>1. CASE Back(t[3]) = <<>>
    BY <1>7, <2>1, Nesting, AskedIs, RouteFacts
       DEF Destination, ScreensInv, PlaceInv, NextNests, BackgroundIs
  <2>2. ASSUME NEW p \in Returns, Back(t[3]) = <<p>> PROVE PlaceInv'
    BY <1>7, <2>2, Nesting, AskedIs, RouteFacts
       DEF Destination, ScreensInv, PlaceInv, NextNests, BackgroundIs
  <2>3. ASSUME NEW p \in OnboardingRoutes, NEW q \in Returns, Back(t[3]) = <<p, q>> PROVE PlaceInv'
    BY <1>7, <2>3, Nesting, AskedIs, RouteFacts
       DEF Destination, ScreensInv, PlaceInv, NextNests, BackgroundIs, OnboardingRoutes
  <2> QED BY <1>6, <2>1, <2>2, <2>3
<1> QED BY <1>1, <1>8, ArrivalKeeps

-----------------------------------------------------------------------------
(* The theorems *)

LEMMA ScreensStart ==
  ASSUME ScreensInit
  PROVE  ScreensInv
<1>1. PlaceInv
  <2>1. NextNests /\ BackgroundIs
    BY Nesting DEF ScreensInit, NextNests, BackgroundIs
  <2>2. path \in Routes /\ wanted \in Routes /\ Destination(path, next) = wanted
    BY DestinationIs, AskedIs DEF ScreensInit
  <2> QED BY <2>1, <2>2 DEF ScreensInit, PlaceInv, Sessions
<1>2. /\ "App" \in DOMAIN Components /\ \A l \in 0..3 : "App" \in MetAt[l]
  BY TablesAgree, RolesAgree DEF MetStart
<1>3. "App" \in OuterParts /\ "App" \in PublicParts /\ "App" \in LoginParts /\ "App" \in AwayParts
  BY PlacesAgree
<1>4. MetHere
  BY <1>2, AtIs DEF ScreensInit, MetHere, Sessions
<1> QED BY <1>1, <1>2, <1>3, <1>4
        DEF ScreensInit, ScreensInv, CursorInv, GatesKept, OpenerIs, Inside, PublicHere, LoginHere,
            AwayHere, Sessions

\* Every step of the front end keeps the invariant.
LEMMA ScreensStep ==
  ASSUME ScreensInv, [ScreensNext]_screenVars
  PROVE  ScreensInv'
<1>1. CASE Redirect
  BY <1>1, RedirectKeeps
<1>2. CASE AuthSettles \/ FlagsSettle \/ SignIn \/ Expire
  BY <1>2, SessionKeeps
<1>3. CASE Descend
  BY <1>3, DescendKeeps
<1>4. CASE Follow
  BY <1>4, FollowKeeps
<1>5. CASE StartSignIn
  BY <1>5, StartSignInKeeps
<1>6. CASE FinishOnboarding
  BY <1>6, FinishOnboardingKeeps
<1>7. CASE Logout
  BY <1>7, LogoutKeeps
<1>8. CASE UNCHANGED screenVars
  BY <1>8 DEF screenVars, ScreensInv, PlaceInv, CursorInv, NextNests, BackgroundIs, GatesKept,
             OpenerIs, MetHere, Inside, PublicHere, LoginHere, AwayHere
<1> QED BY <1>1, <1>2, <1>3, <1>4, <1>5, <1>6, <1>7, <1>8 DEF ScreensNext

\* The invariant of the routes and gates: where the session is, where it wants to go, and how
\* the component on the screen was reached.
THEOREM ScreensInvariant == ScreensSpec => []ScreensInv
<1>1. ScreensInit => ScreensInv
  BY ScreensStart
<1>2. ScreensInv /\ [ScreensNext]_screenVars => ScreensInv'
  BY ScreensStep
<1> QED BY <1>1, <1>2, PTL DEF ScreensSpec

\* Whatever chain of redirects, sign-ins, sign-outs and returns a session goes through, it is
\* on the page it asked for or on its way to it, and on a route the table knows.
THEOREM WantedKeptHolds == ScreensSpec => []WantedKept
<1>1. ScreensInv => WantedKept
  BY DEF ScreensInv, PlaceInv, CursorInv, WantedKept, ScreensTypeOK
<1> QED BY <1>1, ScreensInvariant, PTL

\* A component is offered to a session under the role its requests ask for, however deep it is
\* and whatever the session was when it was opened.
THEOREM OffersPermittedHolds == ScreensSpec => []OffersPermitted
<1>1. ASSUME ScreensInv PROVE OffersPermitted
  <2> SUFFICES ASSUME opener # "pending", NEW t \in Offered, t[1] = "calls"
               PROVE  \/ Needs(t[3]) <= Level[opener] \/ Needs(t[3]) <= Level[session]
                      \/ <<at, t[3]>> \in Unchecked
    BY DEF OffersPermitted
  <2>1. /\ Passes(t[2], session, flag, path) /\ t[2] \in AllGates /\ t \in Components[at]
        /\ session \in Sessions /\ opener \in Sessions /\ MetHere /\ OpenerIs
    BY <1>1, OfferedIs, RoutedIs DEF ScreensInv, PlaceInv, CursorInv
  <2> DEFINE l == IF Level[opener] > Level[session] THEN Level[opener] ELSE Level[session]
  <2>2. /\ l \in 0..3 /\ Level[opener] \in 0..3 /\ Level[session] \in 0..3
        /\ (l = Level[opener] \/ l = Level[session])
    BY <2>1, AtIs
  <2>3. at \in MetAt[l] /\ Rank(t[2]) <= l
    <3>1. CASE l = 0
      <4>1. opener = "guest" /\ session = "guest"
        BY <2>1, <2>2, <3>1 DEF OpenerIs, Sessions, Level
      <4> QED BY <2>1, <2>2, <3>1, <4>1, PassesIs DEF MetHere, OpenerIs, Level
    <3>2. CASE l # 0
      <4>1. AtLeastMember(Level[opener]) <= l /\ AtLeastMember(Level[opener]) \in 0..3
            /\ AtLeastMember(Level[session]) <= l
        BY <2>2, <3>2 DEF AtLeastMember
      <4>2. at \in MetAt[l]
        BY <2>1, <2>2, <4>1, RolesAgree DEF MetHere
      <4>3. Rank(t[2]) \in 0..3 /\ Rank(t[2]) <= AtLeastMember(Level[session])
        BY <2>1, PassesIs
      <4> QED BY <2>2, <4>1, <4>2, <4>3 DEF AtLeastMember
    <3> QED BY <3>1, <3>2
  <2>4. Needs(t[3]) <= l \/ <<at, t[3]>> \in Unchecked
    BY <2>1, <2>2, <2>3, RolesAgree
  <2> QED BY <2>2, <2>4
<1> QED BY <1>1, ScreensInvariant, PTL

\* A screen behind a gate goes away with the session that opened it, and a guest of a closed app
\* sees no page but the published ones.
THEOREM GatesHoldHolds == ScreensSpec => []GatesHold
<1>1. ASSUME ScreensInv PROVE GatesHold
  <2>1. \A g \in kept : Passes(g, session, flag, path)
    BY <1>1 DEF ScreensInv, CursorInv, GatesKept
  <2>2. ASSUME session = "guest", flag = "on", background = None, at \in PageNames
        PROVE  at \in PublishedPages
    <3>1. "open" \in kept
      BY <1>1, <2>2, PlacesAgree DEF ScreensInv, CursorInv, Inside
    <3>2. PublicPath(path)
      BY <2>1, <2>2, <3>1 DEF Passes, AccessGate, SignedIn
    <3>3. "member" \notin kept
      BY <2>1, <2>2 DEF Passes, Level
    <3>4. at \in PublicParts
      BY <1>1, <2>2, <3>2, <3>3 DEF ScreensInv, CursorInv, PublicHere
    <3> QED BY <2>2, <3>4, PlacesAgree
  <2> QED BY <2>1, <2>2 DEF GatesHold
<1> QED BY <1>1, ScreensInvariant, PTL

-----------------------------------------------------------------------------
(* Chains of redirects *)

\* How far a session may still be sent on: out of the login page, off a legacy route, off a
\* protected one, off the home page, to onboarding or to sign in.
Distance ==
    IF path = "/login" THEN IF SignedIn(session) THEN 6 ELSE 0
    ELSE IF ShownPath \in DOMAIN Legacy THEN 5
    ELSE IF ShownPath \in ProtectedRoutes THEN 4
    ELSE IF path = "/" THEN 3
    ELSE IF path \in OnboardingRoutes THEN 1 ELSE 2

\* A redirect brings the session closer to where the gates leave it: the gates never send it
\* round in circles, and at most six of their redirects follow one another.
RedirectsShorten == [][Redirect => Distance' < Distance /\ Distance \in 0..6]_screenVars

LEMMA Shorter ==
  ASSUME PlaceInv, Redirect
  PROVE  Distance' < Distance /\ Distance \in 0..6
<1>1. Distance \in 0..6 /\ (path # "/login" => Distance >= 1)
  BY DEF Distance
<1>2. \A p, n : Arrive(p, n, None) => path' = p /\ ShownPath' = p
  BY DEF Arrive, ShownPath
<1>3. session' = session
  BY DEF Redirect, GateRedirect, HomeRedirect, RouteRedirect, ProtectedRedirect, AdminRedirect,
         OnboardingRedirect, LoginRedirect
<1>4. ASSUME NEW p \in DOMAIN Page \ {"/login"}, path' = p, ShownPath' = p
      PROVE  /\ p \notin ProtectedRoutes => Distance' <= 3
             /\ p \notin ProtectedRoutes \cup {"/"} => Distance' <= 2
             /\ p \in OnboardingRoutes => Distance' = 1
             /\ Distance' <= 4 /\ Distance' \in 0..6
  BY <1>4, RoutesKnown DEF Distance, OnboardingRoutes, ProtectedRoutes, AdminRoutes
<1>5. path' = "/login" /\ ~SignedIn(session) => Distance' = 0
  BY <1>3 DEF Distance
<1>6. {"/", "/browse", "/admin", "/onboarding/preferences"} \subseteq DOMAIN Page \ {"/login"}
  BY RoutesKnown DEF OnboardingRoutes
<1>7. CASE GateRedirect
  <2>1. path # "/login" /\ ~SignedIn(session) /\ path' = "/login"
    BY <1>2, <1>7 DEF GateRedirect, GateCloses, AccessGate, PublicPath, PublicRoutes
  <2> QED BY <1>1, <1>5, <2>1
<1>8. CASE HomeRedirect
  <2>1. path = "/" /\ path' = "/browse" /\ ShownPath' = "/browse"
    BY <1>2, <1>8 DEF HomeRedirect, HomeIsBrowse, AccessGate
  <2>2. Distance >= 3 /\ "/browse" \notin ProtectedRoutes \cup {"/"}
    BY <2>1 DEF Distance, ProtectedRoutes, AdminRoutes
  <2> QED BY <1>1, <1>4, <1>6, <2>1, <2>2
<1>9. CASE RouteRedirect
  <2>1. ShownPath \in DOMAIN Legacy /\ Legacy[ShownPath] \in DOMAIN Page \ {"/login"}
        /\ path' = Legacy[ShownPath] /\ ShownPath' = Legacy[ShownPath]
    BY <1>2, <1>9, TablesAgree DEF RouteRedirect, RouteMoves
  <2>2. path # "/login"
    <3> SUFFICES ASSUME path = "/login" PROVE FALSE
      OBVIOUS
    <3>1. ShownPath = path
      BY DEF PlaceInv, BackgroundIs, ShownPath, Overlays
    <3> QED BY <2>1, <3>1, RoutesKnown
  <2>3. Distance = 5
    BY <2>1, <2>2 DEF Distance
  <2> QED BY <1>1, <1>4, <2>1, <2>3
<1>10. CASE ProtectedRedirect
  <2>1. ShownPath \in ProtectedRoutes /\ session = "guest" /\ path' = "/login"
    BY <1>2, <1>10 DEF ProtectedRedirect, NeedsSession
  <2>2. path # "/login"
    BY <2>1, RouteFacts DEF PlaceInv, BackgroundIs, ShownPath, Overlays
  <2> QED BY <1>1, <1>5, <2>1, <2>2 DEF SignedIn
<1>11. CASE AdminRedirect
  <2>1. ShownPath \in ProtectedRoutes /\ path' = "/" /\ ShownPath' = "/"
    BY <1>2, <1>11 DEF AdminRedirect, NeedsAdmin, ProtectedRoutes
  <2>2. path # "/login"
    BY <2>1, RouteFacts DEF PlaceInv, BackgroundIs, ShownPath, Overlays
  <2>3. Distance >= 4 /\ "/" \notin ProtectedRoutes
    BY <2>1, <2>2 DEF Distance, ProtectedRoutes, AdminRoutes
  <2> QED BY <1>1, <1>4, <1>6, <2>1, <2>3
<1>12. CASE OnboardingRedirect
  <2>1. path \notin OnboardingRoutes \cup {"/login"} /\ path' = "/onboarding/preferences"
        /\ ShownPath' = "/onboarding/preferences"
    BY <1>2, <1>12 DEF OnboardingRedirect, NeedsOnboarding, SkipsOnboarding
  <2>2. Distance >= 2
    BY <2>1 DEF Distance
  <2>3. Distance' = 1
    BY <1>4, <1>6, <2>1 DEF OnboardingRoutes
  <2> QED BY <1>1, <2>2, <2>3
<1>13. CASE LoginRedirect
  <2>1. Distance = 6
    BY <1>13 DEF LoginRedirect, LoginDone, Distance
  <2>2. path' # "/login"
    <3>1. Return # "/login"
      BY NestingCases, Nesting DEF Return
    <3> QED BY <1>2, <1>13, <3>1 DEF LoginRedirect
  <2>3. Distance' <= 5 /\ Distance' \in 0..6
    BY <2>2 DEF Distance
  <2> QED BY <2>1, <2>3
<1> QED BY <1>7, <1>8, <1>9, <1>10, <1>11, <1>12, <1>13 DEF Redirect

\* The safety side of RedirectsEnd: no table of routes lets the gates send a session on for
\* ever, or more than six times.
THEOREM RedirectsShortenHolds == ScreensSpec => RedirectsShorten
<1>1. ScreensInv /\ [ScreensNext]_screenVars
        => [Redirect => Distance' < Distance /\ Distance \in 0..6]_screenVars
  BY Shorter DEF ScreensInv
<1> QED BY <1>1, ScreensInvariant, PTL DEF ScreensSpec, RedirectsShorten
=============================================================================
