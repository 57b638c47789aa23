----------------------------- MODULE PageWrites -----------------------------
(***************************************************************************)
(* How the screens of src/frontend change things.  A handler sends one or  *)
(* several requests in turn, shows the change before, after or by reading  *)
(* again, and copes with a refusal in its own way; meanwhile the user may  *)
(* press again, on the same thing or on another.                           *)
(*                                                                         *)
(* The machine below runs ONE handler, any of those UserWrites, AdminWrites*)
(* and DashboardWrites take from the source, against a server that does or *)
(* refuses requests in any order and whose replies may be lost.  A handler *)
(* is made of                                                              *)
(*   steps   the api.ts functions it calls in turn (a set where one of     *)
(*           several is called),                                           *)
(*   busy    what keeps a second press out: "whole" (one flag or ref for   *)
(*           the component), "row" (one slot holding the id acted on: only *)
(*           that row is disabled), "rows" (a status per row), or "none",  *)
(*   early   TRUE when the change is shown before the request,             *)
(*   ok      what success does: "apply" the change to what is shown,       *)
(*           "reload" it, or "leave" it,                                   *)
(*   fail    what a rejection does: "undo" that change, "restore" the whole*)
(*           state copied before it, "reload", "tell" (a message only),    *)
(*           "hide" (swallowed), "escape" (not caught),                    *)
(*   frees   when the busy mark is lowered: "always", or on "fail" only    *)
(*           (success leaves the screen),                                  *)
(*   resume  for each step, the step the next press starts at when that    *)
(*           one was rejected.                                             *)
(***************************************************************************)
EXTENDS Naturals, Sequences, ApiClient

CONSTANTS Items,      \* the rows, settings or records the handler acts on
          Handlers,   \* the handlers to run
          MaxPresses  \* bound: how often the user presses

ASSUME WriteConstants == Items # {} /\ MaxPresses \in Nat \ {0}

Saga(steps, resume, busy, early, ok, fail, frees) ==
    [steps |-> steps, resume |-> resume, busy |-> busy, early |-> early,
     ok |-> ok, fail |-> fail, frees |-> frees]
Write(calls, busy, early, ok, fail, frees) ==
    Saga(<<calls>>, <<1>>, busy, early, ok, fail, frees)

VARIABLES
    handler,  \* the handler being run
    stored,   \* the server's value of each item
    view,     \* the value the screen shows
    reqs,     \* requests under way: [item, to, was, snap, step, state]
    busy,     \* the items whose control is disabled
    start,    \* the step the next press on an item starts at
    reading,  \* a reload is under way
    closed,   \* success took the user off this screen
    presses,  \* how often the user pressed
    \* what happened, for the properties:
    crossed,  \* items whose change overlapped another one or a reload
    lost,     \* items a change of which ran although the caller saw it fail
    ran,      \* [item, step]: steps of the unfinished changes the server ran
    twice     \* items a step of which the server ran again

vars == <<handler, stored, view, reqs, busy, start, reading, closed, presses,
          crossed, lost, ran, twice>>

Last(h) == Len(h.steps)
Changes(h, k) == \E w \in h.steps[k] : w.verb # "GET"

-----------------------------------------------------------------------------
\* Mutant: a handler with a status per row locks the one slot all rows share.
RaisedForRow(h, i, now) == IF h.busy = "none" THEN now ELSE {i}
\* setBusy(true), setBusyId(id), setPending((p) => new Set(p).add(id)).
Raised(h, i, now) ==
    IF h.busy = "whole" THEN Items
    ELSE IF h.busy = "row" THEN {i}
    ELSE IF h.busy = "rows" THEN now \cup {i}
    ELSE now

\* Mutant: setBusy(false) after the await, not in a finally.
FreedOnSuccess(h, i, ok, now) == IF ok THEN {} ELSE now
\* finally { setBusy(false) }: a slot is cleared whoever holds it by now.
Freed(h, i, ok, now) ==
    IF ok /\ h.frees = "fail" THEN now
    ELSE IF h.busy = "rows" THEN now \ {i}
    ELSE {}

\* Mutant: the catch of an optimistic change forgets to put the value back.
AfterThrowLeft(h, r, now) == now
\* What a rejection makes of the values shown.
AfterThrow(h, r, now) ==
    IF h.fail = "undo" THEN [now EXCEPT ![r.item] = r.was]
    ELSE IF h.fail = "restore" THEN r.snap
    ELSE now

\* What success makes of the values shown.
AfterSuccess(h, r, now) == IF h.ok = "apply" THEN [now EXCEPT ![r.item] = r.to] ELSE now

\* Mutant: the catch shows the error and does not read again.
ReloadsOnSuccess(h, ok) == ok /\ h.ok = "reload"
\* await load() after the request, or in the catch.
Reloads(h, ok) == (IF ok THEN h.ok ELSE h.fail) = "reload"

\* if (!published) { ... }: the steps a retry skips.
ResumeAt(h, k) == h.resume[k]

Init ==
    /\ handler \in Handlers
    /\ stored = [i \in Items |-> FALSE]
    /\ view = stored
    /\ reqs = {}
    /\ busy = {}
    /\ start = [i \in Items |-> 1]
    /\ reading = FALSE
    /\ closed = FALSE
    /\ presses = 0
    /\ crossed = {} /\ lost = {} /\ ran = {} /\ twice = {}

\* The user presses: the handler runs up to its first await.
Press(i) ==
    /\ i \notin busy
    /\ ~closed
    /\ presses < MaxPresses
    /\ LET other == {r.item : r \in {q \in reqs : q.item = i \/ handler.fail = "restore"}}
           r == [item |-> i, to |-> ~view[i], was |-> view[i], snap |-> view,
                 step |-> start[i], state |-> "sent"]
       IN /\ reqs' = reqs \cup {r}
          /\ view' = IF handler.early THEN [view EXCEPT ![i] = ~@] ELSE view
          /\ crossed' = crossed \cup other
                        \cup (IF other # {} \/ reading THEN {i} ELSE {})
    /\ busy' = Raised(handler, i, busy)
    /\ presses' = presses + 1
    /\ UNCHANGED <<handler, stored, start, reading, closed, lost, ran, twice>>

\* The server carries out a request.
Execute(r) ==
    /\ r.state = "sent"
    /\ reqs' = (reqs \ {r}) \cup {[r EXCEPT !.state = "done"]}
    /\ stored' = IF r.step = Last(handler) THEN [stored EXCEPT ![r.item] = r.to] ELSE stored
    /\ LET this == [item |-> r.item, step |-> r.step]
       IN IF Changes(handler, r.step)
            THEN /\ ran' = ran \cup {this}
                 /\ twice' = IF this \in ran THEN twice \cup {r.item} ELSE twice
            ELSE UNCHANGED <<ran, twice>>
    /\ UNCHANGED <<handler, view, busy, start, reading, closed, presses, crossed, lost>>

\* The server refuses a request, or it never gets there.
Refuse(r) ==
    /\ r.state = "sent"
    /\ reqs' = (reqs \ {r}) \cup {[r EXCEPT !.state = "refused"]}
    /\ UNCHANGED <<handler, stored, view, busy, start, reading, closed, presses,
                   crossed, lost, ran, twice>>

\* What can reach the browser of a request in this state (the shell page is
\* only ever served to a GET).
RepliesTo(state) == {"lost"} \cup (IF state = "done" THEN {"ok"} ELSE Refusals)

\* The call succeeded: the next step is sent, or the handler is done.
Succeed(r) ==
    LET h == handler
        rest == reqs \ {r}
    IN IF r.step < Last(h)
         THEN /\ reqs' = rest \cup {[r EXCEPT !.step = @ + 1, !.state = "sent"]}
              /\ UNCHANGED <<view, busy, start, reading, closed, crossed, ran>>
         ELSE /\ reqs' = rest
              /\ view' = AfterSuccess(h, r, view)
              /\ busy' = Freed(h, r.item, TRUE, busy)
              /\ start' = [start EXCEPT ![r.item] = 1]
              /\ reading' = (reading \/ Reloads(h, TRUE))
              /\ closed' = (closed \/ h.frees = "fail")
              /\ crossed' = IF Reloads(h, TRUE) THEN crossed \cup {q.item : q \in rest} ELSE crossed
              /\ ran' = {s \in ran : s.item # r.item}

\* The call threw.
Throw(r) ==
    LET h == handler
        rest == reqs \ {r}
    IN /\ reqs' = rest
       /\ view' = AfterThrow(h, r, view)
       /\ busy' = Freed(h, r.item, FALSE, busy)
       /\ start' = [start EXCEPT ![r.item] = ResumeAt(h, r.step)]
       /\ reading' = (reading \/ Reloads(h, FALSE))
       /\ crossed' = IF Reloads(h, FALSE) THEN crossed \cup {q.item : q \in rest} ELSE crossed
       /\ UNCHANGED <<closed, ran>>

\* A reply, or the lack of one, reaches the handler through its api function.
Deliver(r, w, reply) ==
    /\ r.state # "sent"
    /\ reply \in RepliesTo(r.state)
    /\ IF Outcome(w, reply) = "throws" THEN Throw(r) ELSE Succeed(r)
    /\ lost' = IF r.state = "done" /\ Changes(handler, r.step) /\ Outcome(w, reply) = "throws"
               THEN lost \cup {r.item} ELSE lost
    /\ UNCHANGED <<handler, stored, presses, twice>>

\* The reload answers (a reload that fails is the business of PageLoads).
Refresh ==
    /\ reading
    /\ reading' = FALSE
    /\ view' = stored
    /\ UNCHANGED <<handler, stored, reqs, busy, start, closed, presses,
                   crossed, lost, ran, twice>>

DeliverSome == \E r \in reqs : \E w \in handler.steps[r.step], reply \in Replies : Deliver(r, w, reply)

Next ==
    \/ \E i \in Items : Press(i)
    \/ \E r \in reqs : Execute(r) \/ Refuse(r)
    \/ DeliverSome
    \/ Refresh

\* The server and the browser settle every request sooner or later.
Fairness ==
    /\ WF_vars(\E r \in reqs : Execute(r) \/ Refuse(r))
    /\ WF_vars(DeliverSome)
    /\ WF_vars(Refresh)

Spec == Init /\ [][Next]_vars /\ Fairness

-----------------------------------------------------------------------------
AtRest == reqs = {} /\ ~reading

\* The handler has a way back from a refusal: it hears of it, what it showed
\* early it takes back, and what it shows late it shows only on success.
Reconciles(h) ==
    /\ \A k \in 1..Last(h) : \A w \in h.steps[k] : w.quiet = {}
    /\ IF h.early THEN h.fail \in {"undo", "restore", "reload"} ELSE h.ok # "leave"

\* A second press on the same thing is kept out while the first is under way.
Exclusive(h) == h.busy \in {"whole", "rows"}

\* What the rows have in common: a retry starts at a step of the handler, and
\* only a change shown early is taken back by restoring what was shown before.
ASSUME HandlerRows == \A h \in Handlers :
    /\ Last(h) \in Nat \ {0}
    /\ \A k \in 1..Last(h) : ResumeAt(h, k) \in 1..Last(h)
    /\ h.busy \in {"whole", "row", "rows", "none"}
    /\ h.ok \in {"apply", "reload", "leave"}
    /\ h.fail = "restore" => h.early

\* A handler that reads again after a refusal has a way back, and one with a way
\* back ends with the request that changes something.
ASSUME ReconcilingRows == \A h \in Handlers :
    /\ h.fail = "reload" => Reconciles(h)
    /\ Reconciles(h) => Changes(h, Last(h))

\* A retry repeats a step that already succeeded.
StartsOver(h) == \E k \in 1..Last(h) : \E j \in ResumeAt(h, k)..(k - 1) : Changes(h, j)

\* The state of one handler.
TypeOK ==
    /\ handler \in Handlers
    /\ stored \in [Items -> BOOLEAN] /\ view \in [Items -> BOOLEAN]
    /\ reqs \subseteq [item : Items, to : BOOLEAN, was : BOOLEAN, snap : [Items -> BOOLEAN],
                       step : 1..Last(handler), state : {"sent", "done", "refused"}]
    /\ busy \subseteq Items
    /\ start \in [Items -> 1..Last(handler)]
    /\ reading \in BOOLEAN /\ closed \in BOOLEAN /\ presses \in 0..MaxPresses
    /\ crossed \subseteq Items /\ lost \subseteq Items /\ twice \subseteq Items
    /\ ran \subseteq [item : Items, step : 1..Last(handler)]

\* Once nothing is under way the screen shows what the server holds: whatever
\* was accepted, refused, and in which order, of changes that did not overlap
\* and whose replies arrived.
AgreesAtRest ==
    AtRest /\ Reconciles(handler)
    => \A i \in Items \ (crossed \cup lost) : view[i] = stored[i]

\* The same, with the bookkeeping of the handler well-formed.
PageAgrees == TypeOK /\ AgreesAtRest

\* A handler that reads again when a call throws also recovers from the reply
\* it never got: the change that ran without the screen knowing shows up.
HealsAfterLoss ==
    AtRest /\ handler.fail = "reload"
    => \A i \in Items \ crossed : view[i] = stored[i]

\* No handler that keeps a second press out, and no retry that knows how far
\* the first attempt came, makes the server do a step of one change twice,
\* unless the reply to it was lost: a program is not published again because
\* its notification failed.
NothingTwice ==
    Exclusive(handler) /\ ~StartsOver(handler) => twice \subseteq lost

\* A control that was disabled for a request becomes usable again, whatever
\* the reply, unless success left the screen.
BusyEnds == busy # {} ~> (busy = {} \/ closed)
===============================================================================
