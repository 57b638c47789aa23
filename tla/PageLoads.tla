------------------------------ MODULE PageLoads ------------------------------
(***************************************************************************)
(* How the screens of src/frontend load what they show.  Every load is an  *)
(* effect or a callback that sends requests for the current key (the event,*)
(* the query, the tab, the signed-in user ...), and applies the answers to *)
(* component state some time later, when the key may have changed, the     *)
(* gate that let it run may have closed, or a newer run may be under way.  *)
(*                                                                         *)
(* The machine below runs ONE load, any of those UserLoads and AdminLoads  *)
(* take from the source, against a server that answers in any              *)
(* order, refuses, or never replies.  What a load is made of:              *)
(*   calls  the api.ts functions whose answer it shows,                    *)
(*   run    when it runs: "once" (on mount), "again" (on mount and whenever*)
(*          a handler asks for a reload), "keyed" (whenever the key        *)
(*          changes), "gated" (keyed, with an early return while a         *)
(*          condition does not hold), "latched" (gated, and a ref lets it  *)
(*          through only once),                                            *)
(*   guard  what keeps an overtaken answer out: "cancel" (a flag its       *)
(*          cleanup sets), "latest" (a counter or key ref compared on      *)
(*          arrival), "none",                                              *)
(*   reset  "clear" when it drops what is shown before it asks, or "keep", *)
(*   off    what the early return does: "keep" everything, "clear" what is *)
(*          shown, or "settle": clear and end the spinner,                 *)
(*   fail   what a rejected request leads to: "tell" (a message), "replace"*)
(*          (a message instead of the data), "default" (an empty value in  *)
(*          place of the data), "keep" (nothing), "leave" (navigate away), *)
(*          "escape" (not caught here),                                    *)
(*   spin   its busy flag: "no" flag; "each" run raises it and its own end *)
(*          lowers it; "first": raised from mount until the first end;     *)
(*          "loose": raised by each run, lowered by the end of any.        *)
(* A debounce timer is part of the time a request takes.                   *)
(***************************************************************************)
EXTENDS Naturals, FiniteSets, ApiClient

CONSTANTS Keys,      \* what the screen can be on
          Loads,     \* the loads to run
          MaxRuns    \* bound: how often the effect or callback runs

ASSUME LoadConstants == Keys # {} /\ Keys \cap {"none", "empty"} = {} /\ MaxRuns \in Nat \ {0}

\* A load that is let through only once drops its answer in its cleanup and
\* keeps what is shown.
ASSUME LatchedLoads == \A l \in Loads : l.run = "latched" => l.guard = "cancel" /\ l.reset = "keep"

Load(calls, run, guard, reset, off, fail, spin) ==
    [calls |-> calls, run |-> run, guard |-> guard, reset |-> reset,
     off |-> off, fail |-> fail, spin |-> spin]

VARIABLES
    load,     \* the load being run
    key,      \* the key the screen is on
    open,     \* does the gate's condition hold
    runs,     \* how many times it has sent a request
    live,     \* the run whose answer the guard still lets in, 0 for none
    asked,    \* requests under way: [run, key]
    shown,    \* "none", "empty", or the key whose data is on screen
    spinner,  \* the busy flag
    ended     \* how the run `live` ended: "pending", "answer", "empty", "throws"

loadVars == <<load, key, open, runs, live, asked, shown, spinner, ended>>

-----------------------------------------------------------------------------
\* Each run is told apart from the earlier ones by its closure or its number.
NextRun == runs + 1

\* Mutant: what was shown stays while the next key loads.
ClearedNever(l, was) == was
\* setX(null) or setX([]) before the request.
Cleared(l, was) == IF l.reset = "clear" THEN "none" ELSE was

\* Mutant: no run of the effect checks whether it was overtaken.
AppliedAlways(l, run, current) == TRUE
\* if (cancelled) return;  if (id !== requestRef.current) return;
Applied(l, run, current) == l.guard = "none" \/ run = current

\* A rejected request, as the load's catch treats it.
AfterFailure(l, was) == IF l.fail \in {"default", "replace"} THEN "empty" ELSE was

\* Mutant: the spinner ends with whichever request ends.
SpinnerAfterAny(l, applied, outcome, was) == was /\ l.spin = "no"
\* Mutant: setLoading(false) sits in the then-branch only.
SpinnerAfterOk(l, applied, outcome, was) == was /\ outcome = "throws"
\* .finally(() => { if (!cancelled) setLoading(false); })
SpinnerAfter(l, applied, outcome, was) == was /\ ~applied /\ l.spin # "loose"

\* Does the load send a request when it runs with the gate in this state.
Sends(l, gate, before) == gate /\ (l.run = "latched" => before = 0)

\* The cleanup of the previous run: only a flag of its own closure is set.
AfterCleanup(l, current) == IF l.guard = "cancel" THEN 0 ELSE current

\* One run of the effect or callback with key k and gate g.
Run(l, k, g, before, current, data, busy, how) ==
    /\ key' = k
    /\ open' = g
    /\ IF Sends(l, g, before)
         THEN /\ runs' = NextRun
              /\ live' = runs'
              /\ asked' = asked \cup {[run |-> runs', key |-> k]}
              /\ shown' = Cleared(l, data)
              /\ spinner' = (busy \/ l.spin \in {"each", "loose"})
              /\ ended' = "pending"
         ELSE /\ live' = AfterCleanup(l, current)
              /\ shown' = IF ~g /\ l.off # "keep" THEN "none" ELSE data
              /\ spinner' = (busy /\ (g \/ l.off # "settle"))
              /\ ended' = how
              /\ UNCHANGED <<runs, asked>>

\* The first render: the effect runs with what the page was opened on.
LoadsInit ==
    /\ load \in Loads
    /\ key \in Keys
    /\ open \in (IF load.run \in {"gated", "latched"} THEN BOOLEAN ELSE {TRUE})
    /\ runs = (IF open THEN 1 ELSE 0)
    /\ live = runs
    /\ asked = (IF open THEN {[run |-> 1, key |-> key]} ELSE {})
    /\ shown = "none"
    /\ spinner = (load.spin = "first" \/ (open /\ load.spin \in {"each", "loose"}))
                 /\ (~open => load.off # "settle")
    /\ ended = "pending"

\* A dependency changed: the key, the gate, or both.  React runs the cleanup
\* of the previous run first.
Rerun(k, g) ==
    /\ load.run \in {"keyed", "gated", "latched"}
    /\ <<k, g>> # <<key, open>>
    /\ load.run = "keyed" => g
    /\ runs < MaxRuns
    /\ Run(load, k, g, runs, live, shown, spinner, ended)
    /\ UNCHANGED load

\* A handler asks for a reload of the same thing.
Reload ==
    /\ load.run = "again"
    /\ runs < MaxRuns
    /\ Run(load, key, open, runs, live, shown, spinner, ended)
    /\ UNCHANGED load

\* A request ends; the outcome is what the api.ts function makes of the reply.
End(r, outcome) ==
    LET applied == Applied(load, r.run, live)
    IN /\ asked' = asked \ {r}
       /\ shown' = IF ~applied THEN shown
                   ELSE IF outcome = "answer" THEN r.key
                   ELSE IF outcome = "empty" THEN "empty"
                   ELSE AfterFailure(load, shown)
       /\ spinner' = SpinnerAfter(load, applied, outcome, spinner)
       /\ ended' = IF r.run = live THEN outcome ELSE ended
       /\ UNCHANGED <<load, key, open, runs, live>>

Outcomes(l) == {Outcome(w, reply) : w \in l.calls, reply \in Replies}

LoadsNext ==
    \/ \E k \in Keys, g \in BOOLEAN : Rerun(k, g)
    \/ Reload
    \/ \E r \in asked : \E outcome \in Outcomes(load) : End(r, outcome)

\* The browser settles every fetch sooner or later.
LoadsFairness == WF_loadVars(\E r \in asked : \E outcome \in Outcomes(load) : End(r, outcome))

LoadsSpec == LoadsInit /\ [][LoadsNext]_loadVars /\ LoadsFairness

-----------------------------------------------------------------------------
Guarded == load.guard # "none" \/ load.run = "once"

\* The state of one load.
LoadsTypeOK ==
    /\ load \in Loads /\ key \in Keys /\ open \in BOOLEAN
    /\ runs \in 0..MaxRuns /\ live \in 0..runs
    /\ asked \subseteq [run : 1..runs, key : Keys]
    /\ \A r, s \in asked : r.run = s.run => r = s
    /\ shown \in Keys \cup {"none", "empty"}
    /\ spinner \in BOOLEAN
    /\ ended \in {"pending", "answer", "empty", "throws"}

\* A guarded load ends on the data of the key the screen is on, whatever order
\* the answers of its runs came in: once its current run has been answered,
\* what is shown belongs to the key of the address, the query or the user.
RestShowsKey ==
    open /\ Guarded /\ live = runs /\ runs > 0 /\ ended = "answer" => shown = key

\* A guarded load that drops the old data before it asks never shows one key's
\* data while the screen is on another, at any moment.
NeverAnotherKey ==
    open /\ Guarded /\ load.reset = "clear" => shown \in {key, "none", "empty"}

\* While a guarded load's current request is under way its spinner turns: the
\* end of an overtaken request does not stop it early.
SpinnerHonest ==
    /\ open
    /\ Guarded
    /\ load.spin = "each"
    /\ \E r \in asked : r.run = live
    => spinner

\* No refusal and no lost request leaves a spinner turning for ever on an open
\* screen (a load let through by a ref only once is not covered: see README).
SpinnerEnds == load.run # "latched" => <>[](open => ~spinner)
===============================================================================
