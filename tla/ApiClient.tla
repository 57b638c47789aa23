----------------------------- MODULE ApiClient -----------------------------
(***************************************************************************)
(* src/frontend/src/api.ts: the functions through which every screen talks *)
(* to the server.  Each one sends a single HTTP request; what they differ  *)
(* in, and what the screens built on them depend on, is                    *)
(*   verb   the HTTP method,                                               *)
(*   reads  what it does with the body of a 2xx response,                  *)
(*   quiet  the refusals it turns into an empty answer instead of throwing.*)
(* A request that never gets a response rejects in every one of them.      *)
(* The loads and the handlers of the screens (PageLoads, PageWrites) name  *)
(* the functions they call, so a screen's behaviour on a refusal follows   *)
(* from the function's policy and its own error handling together.         *)
(***************************************************************************)

\* A refusal: 401, 404, or any other status outside 2xx.
Refusals == {"unauthorized", "missing", "refused"}

\* What can come back: a 2xx with the expected body ("ok"), with no body
\* ("blank") or with something that is not JSON ("page": the single-page
\* shell a misrouted request gets), a refusal, or nothing at all ("lost").
Replies == {"ok", "blank", "page", "lost"} \cup Refusals

\* How a function treats the body of a 2xx: parseJsonResponse, res.json(),
\* res.blob(), or not read at all.
Json(verb, quiet) == [verb |-> verb, reads |-> "json", quiet |-> quiet]
Body(verb, quiet) == [verb |-> verb, reads |-> "body", quiet |-> quiet]
File(verb, quiet) == [verb |-> verb, reads |-> "file", quiet |-> quiet]
Sent(verb, quiet) == [verb |-> verb, reads |-> "none", quiet |-> quiet]

\* parseJsonResponse: a refusal throws with the server's detail, an empty body
\* becomes an empty object, and a body that is not JSON throws.
Parsed(reply) ==
    IF reply \in Refusals \cup {"page"} THEN "throws"
    ELSE IF reply = "blank" THEN "empty" ELSE "answer"

\* res.json() after a check of res.ok: an empty or foreign body does not parse.
Unwrapped(reply) == IF reply = "ok" THEN "answer" ELSE "throws"

\* Checked for res.ok only.
Accepted(reply) == IF reply \in Refusals THEN "throws" ELSE "answer"

\* What the caller of w sees: an answer, an empty value standing for one, or a
\* rejected promise.
Outcome(w, reply) ==
    IF reply = "lost" THEN "throws"
    ELSE IF reply \in w.quiet THEN "empty"
    ELSE IF w.reads = "json" THEN Parsed(reply)
    ELSE IF w.reads = "body" THEN Unwrapped(reply)
    ELSE Accepted(reply)
===============================================================================
