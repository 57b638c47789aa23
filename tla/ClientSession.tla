--------------------------- MODULE ClientSession ---------------------------
(***************************************************************************)
(* The browser side of a session: AuthContext (who is shown as signed in)  *)
(* and the two providers that keep the viewer's own events, SavedEvents-   *)
(* Context and AttendingEventsContext, each a view in memory, a copy per   *)
(* identity in localStorage and optimistic writes that are rolled back.    *)
(*                                                                         *)
(* The two providers differ only in how a failed write is undone, so one   *)
(* view is modelled and "provider", chosen initially, says whose it is.    *)
(* A request carries the cookies of the moment it is sent, is served once  *)
(* at most, later, and is answered in a third step that may fail; answers  *)
(* arrive in any order.  Cookies change when an answer arrives.            *)
(***************************************************************************)
EXTENDS Naturals, FiniteSets

CONSTANTS Users, Events,
          Audiences,      \* what the audience pickers offer
          DefaultAudience,  \* the account's own default, used by the server
          NoUser, NoAudience,
          MaxRequests,    \* requests in flight at once
          MaxOps,         \* operations started by the user
          MaxFaults       \* answers that fail

Absent == "absent"      \* what the server holds where there is no row

ASSUME SessionAssumption ==
    /\ IsFiniteSet(Users) /\ NoUser \notin Users
    /\ IsFiniteSet(Events) /\ DefaultAudience \in Audiences
    /\ {NoAudience, Absent} \cap Audiences = {}
    /\ {MaxRequests, MaxOps, MaxFaults} \subseteq Nat
    /\ MaxRequests >= 2     \* the page opens with two

VARIABLES
    provider,   \* the provider the view belongs to: "saved" or "attending"
    cookie,     \* the cookie jar: the session's user and the anonymous id
    auth,       \* user, loading and generation of AuthContext, the device id
    identity,   \* lastIdentity of the provider
    synced,     \* syncedKey of the provider
    view,       \* ids and audiences shown
    storage,    \* localStorage: a copy of the view per identity
    rows,       \* the server's rows: owner -> event -> audience
    deleted,    \* accounts the server has purged
    inflight,   \* requests sent and not answered
    unsaved,    \* failures of the clearAll under way
    ops, faults,
    met         \* the races and faults this behaviour has met

vars == <<provider, cookie, auth, identity, synced, view, storage, rows,
          deleted, inflight, unsaved, ops, faults, met>>

Anon(k) == <<"anon", k>>

\* rotations of the anonymous ids are bounded by the operations that cause them
Identities == {<<"user", u>> : u \in Users} \cup {Anon(k) : k \in 0..MaxOps}

identityKey(u, device) == IF u # NoUser THEN <<"user", u>> ELSE Anon(device)

Unknown == [e \in Events |-> NoAudience]
EmptyView == [ids |-> {}, audience |-> Unknown]
NoIdentity == <<"none", 0>>

Sent(kind) == {r \in inflight : r.kind = kind}
Writes == {r \in inflight : r.kind \in {"write", "clear"}}
AuthOps == {r \in inflight : r.kind \in {"login", "logout", "delete"}}
Quiet == inflight = {}

----------------------------------------------------------------------------
(* Requests *)

FreeSlots(reqs) == {i \in 1..MaxRequests : \A r \in reqs : r.n # i}

\* A free slot names the request a step sends; which one does not matter.
Slot(reqs) == CHOOSE i \in FreeSlots(reqs) : TRUE

\* What every request carries: its number, the cookies it is sent with and the
\* identity it was sent for.
Request(kind) ==
    [n |-> Slot(inflight), kind |-> kind, jar |-> cookie, served |-> FALSE,
     by |-> identity]

LoginRequest(u) ==
    [n |-> Slot(inflight), kind |-> "login", jar |-> cookie, served |-> FALSE,
     by |-> identity, as |-> u]

MeRequest ==
    [n |-> Slot(inflight), kind |-> "me", jar |-> cookie, served |-> FALSE,
     by |-> identity, gen |-> auth.generation + 1, first |-> FALSE,
     result |-> NoUser]

\* The reconciliation effect's request; "live" is its cancelled flag.
ListRequest(jar, key, reqs) ==
    [n |-> Slot(reqs), kind |-> "list", jar |-> jar, served |-> FALSE,
     by |-> key, live |-> TRUE, result |-> Unknown]

\* Mutant: the effect's cleanup does not set the cancelled flag.
CancelNothing(reqs) == reqs

\* The cleanup of the effect.
Cancel(reqs) ==
    {IF r.kind = "list" THEN [r EXCEPT !.live = FALSE] ELSE r : r \in reqs}

\* Whom the server takes the sender of r for.
Owner(jar, gone) ==
    IF jar.user # NoUser /\ jar.user \notin gone
    THEN <<"user", jar.user>> ELSE Anon(jar.aid)

----------------------------------------------------------------------------
(* The provider's effects *)

\* What a provider shows at once for a new identity.
Hydrated(key) == storage[key]

\* Mutant: the write-through effect still writes to the previous identity.
WriteThroughToPrevious(key, v) == [storage EXCEPT ![identity] = v]

\* The write-through effects: every change of the view is copied.
WriteThrough(key, v) == [storage EXCEPT ![key] = v]

\* The effects that run when the shown user or the device id has changed:
\* nothing for the same identity; otherwise hydrate from the new identity's
\* copy, cancel the reconciliation under way and start a new one.
IdentityEffect(u, device, jar, reqs) ==
    LET key == identityKey(u, device)
    IN  IF key = identity
        THEN /\ inflight' = reqs
             /\ UNCHANGED <<identity, view, storage>>
        ELSE /\ FreeSlots(reqs) # {}
             /\ identity' = key
             /\ view' = Hydrated(key)
             /\ storage' = WriteThrough(key, Hydrated(key))
             /\ inflight' = Cancel(reqs) \cup {ListRequest(jar, key, reqs)}

\* A provider's own change of its view.
SetView(v) == /\ view' = v
              /\ storage' = WriteThrough(identity, v)
              /\ UNCHANGED identity

----------------------------------------------------------------------------
(* AuthContext *)

\* AuthProvider mounts with a session cookie or without one, and both
\* effects have run: fetchMe and the first reconciliation are in flight.
Init ==
    /\ provider \in {"saved", "attending"}
    /\ cookie \in {[user |-> u, aid |-> 0] : u \in Users \cup {NoUser}}
    /\ auth = [user |-> NoUser, loading |-> TRUE, generation |-> 1, device |-> 0]
    /\ identity = Anon(0) /\ synced = NoIdentity
    /\ view = EmptyView
    /\ storage = [k \in Identities |-> EmptyView]
    /\ \E shared \in SUBSET Events :      \* from an earlier visit, for each account
         rows = [k \in Identities |-> [e \in Events |->
                   IF k[1] = "user" /\ e \in shared THEN DefaultAudience ELSE Absent]]
    /\ deleted = {}
    /\ inflight = {[n |-> 1, kind |-> "me", jar |-> cookie, served |-> FALSE,
                    by |-> Anon(0), gen |-> 1, first |-> TRUE, result |-> NoUser],
                   [n |-> 2, kind |-> "list", jar |-> cookie, served |-> FALSE,
                    by |-> Anon(0), live |-> TRUE, result |-> Unknown]}
    /\ unsaved = {} /\ ops = 0 /\ faults = 0 /\ met = {}

\* ++generation, the first thing every operation does.
Bump == [auth EXCEPT !.generation = @ + 1]

\* An operation of the user that sends one request.
Operation(r) ==
    /\ ops < MaxOps /\ ops' = ops + 1
    /\ FreeSlots(inflight) # {}
    /\ inflight' = inflight \cup {r}

Overlap == IF AuthOps # {} THEN {"authOverlap"} ELSE {}

AuthUnchanged == UNCHANGED <<provider, cookie, identity, synced, view, storage,
                             rows, deleted, unsaved, faults>>

\* login and loginWithEmailCode, offered while nobody is signed in.
Login(u) ==
    /\ auth.user = NoUser
    /\ Operation(LoginRequest(u))
    /\ auth' = Bump
    /\ met' = met \cup Overlap
    /\ AuthUnchanged

Logout ==
    /\ auth.user # NoUser
    /\ Operation(Request("logout"))
    /\ auth' = Bump
    /\ met' = met \cup Overlap
    /\ AuthUnchanged

DeleteAccount ==
    /\ auth.user # NoUser
    /\ Operation(Request("delete"))
    /\ auth' = Bump
    /\ met' = met \cup Overlap
    /\ AuthUnchanged

\* refreshUser, called by a component or by the network:changed listener.
RefreshUser ==
    /\ auth.user # NoUser
    /\ auth' = Bump
    /\ Operation(MeRequest)
    /\ met' = met \cup Overlap
    /\ AuthUnchanged

----------------------------------------------------------------------------
(* SavedEventsContext and AttendingEventsContext *)

\* The optimistic flip of one event.
Flipped(e) == IF e \in view.ids THEN view.ids \ {e} ELSE view.ids \cup {e}

Omitted(e, a) == IF e \notin view.ids /\ a = NoAudience
                 THEN {"audienceOmitted"} ELSE {}

WriteRaces(e) ==
    (IF \E r \in Sent("list") : r.live THEN {"readCrossesWrite"} ELSE {})
    \cup (IF e \in unsaved \/ \E r \in Writes : r.event = e \/ provider = "attending"
          THEN {"writesOverlap"} ELSE {})

\* A change of audience under way would, if refused, restore all audiences.
AudienceRaces == IF \E r \in Sent("write") : r.action = "audience"
                 THEN {"audiencesOverlap"} ELSE {}

WriteUnchanged == UNCHANGED <<provider, cookie, auth, synced, rows, deleted,
                              unsaved, faults>>

WriteRequest(e, action, a) ==
    [n |-> Slot(inflight), kind |-> "write", jar |-> cookie, served |-> FALSE,
     by |-> identity, event |-> e, action |-> action, audience |-> a,
     before |-> view]

\* An audience is recorded when an event is saved with one; it stays when the
\* event is unsaved.
ToggleSave(e, a) ==
    LET was == e \in view.ids
    IN  /\ provider = "saved"
        /\ Operation(WriteRequest(e, IF was THEN "remove" ELSE "add",
                                  IF was THEN NoAudience ELSE a))
        /\ SetView([ids |-> Flipped(e),
                    audience |-> IF ~was /\ a # NoAudience
                                 THEN [view.audience EXCEPT ![e] = a]
                                 ELSE view.audience])
        /\ met' = met \cup WriteRaces(e) \cup AudienceRaces \cup Omitted(e, a)
        /\ WriteUnchanged

\* Going: as above, and the audience is forgotten with the event.
ToggleAttending(e, a) ==
    LET was == e \in view.ids
    IN  /\ provider = "attending"
        /\ Operation(WriteRequest(e, IF was THEN "remove" ELSE "add",
                                  IF was THEN NoAudience ELSE a))
        /\ SetView([ids |-> Flipped(e),
                    audience |-> IF was THEN [view.audience EXCEPT ![e] = NoAudience]
                                 ELSE IF a # NoAudience
                                 THEN [view.audience EXCEPT ![e] = a]
                                 ELSE view.audience])
        /\ met' = met \cup WriteRaces(e) \cup Omitted(e, a)
        /\ WriteUnchanged

\* setSavedAudience and setAudience: nothing for an event that is not shown.
SetAudience(e, a) ==
    /\ e \in view.ids
    /\ Operation(WriteRequest(e, "audience", a))
    /\ SetView([view EXCEPT !.audience[e] = a])
    /\ met' = met \cup WriteRaces(e) \cup AudienceRaces
    /\ WriteUnchanged

ClearRequest(e, i) ==
    [n |-> i, kind |-> "clear", jar |-> cookie, served |-> FALSE,
     by |-> identity, event |-> e]

\* clearAll empties the view and sends one request per event, if all fit.
ClearAll ==
    /\ provider = "saved" /\ view.ids # {} /\ Sent("clear") = {}
    /\ Cardinality(view.ids) <= Cardinality(FreeSlots(inflight))
    /\ ops < MaxOps /\ ops' = ops + 1
    /\ \E slots \in [view.ids -> FreeSlots(inflight)] :
        /\ \A d, e \in view.ids : d # e => slots[d] # slots[e]
        /\ inflight' = inflight \cup {ClearRequest(e, slots[e]) : e \in view.ids}
    /\ SetView([view EXCEPT !.ids = {}])
    /\ met' = met \cup UNION {WriteRaces(e) : e \in view.ids}
    /\ WriteUnchanged

----------------------------------------------------------------------------
(* The server, as the client's requests see it *)

\* An anonymous row is private; otherwise the given audience, the row's own
\* or the account's default.
RowAudience(owner, given) ==
    IF owner[1] = "anon" THEN "private"
    ELSE IF given # NoAudience THEN given ELSE DefaultAudience

NoRows == [e \in Events |-> Absent]

\* Signing in attributes the rows of the anonymous id to the user.
Merged(k, u) ==
    [rows EXCEPT ![<<"user", u>>] = [e \in Events |->
                     IF rows[<<"user", u>>][e] = Absent
                     THEN rows[k][e] ELSE rows[<<"user", u>>][e]],
                 ![k] = NoRows]

\* The row of one event of an owner.
SetRow(owner, e, x) ==
    [rows EXCEPT ![owner] = [rows[owner] EXCEPT ![e] = x]]

\* Saving again without an audience keeps the row's own.
WrittenRow(r, owner) ==
    IF r.action = "remove" THEN Absent
    ELSE IF r.audience = NoAudience /\ rows[owner][r.event] # Absent
    THEN rows[owner][r.event]
    ELSE RowAudience(owner, r.audience)

\* The request with the answer the server gives it.
Served(r) ==
    CASE r.kind = "me" -> [r EXCEPT !.served = TRUE,
            !.result = IF r.jar.user \in deleted THEN NoUser ELSE r.jar.user]
      [] r.kind = "list" -> [r EXCEPT !.served = TRUE,
            !.result = rows[Owner(r.jar, deleted)]]
      [] OTHER -> [r EXCEPT !.served = TRUE]

Serve(r) ==
    LET owner == Owner(r.jar, deleted)
    IN  /\ ~r.served
        /\ inflight' = (inflight \ {r}) \cup {Served(r)}
        /\ rows' = CASE r.kind = "login" -> Merged(Anon(r.jar.aid), r.as)
                     [] r.kind = "delete" /\ owner[1] = "user" ->
                          [rows EXCEPT ![owner] = NoRows]
                     [] r.kind = "clear" -> SetRow(owner, r.event, Absent)
                     [] r.kind = "write" -> SetRow(owner, r.event, WrittenRow(r, owner))
                     [] OTHER -> rows
        /\ deleted' = IF r.kind = "delete" /\ owner[1] = "user"
                      THEN deleted \cup {owner[2]}
                      ELSE IF r.kind = "login" THEN deleted \ {r.as}  \* a new account
                      ELSE deleted
        /\ UNCHANGED <<provider, cookie, auth, identity, synced, view, storage,
                       unsaved, ops, faults, met>>

----------------------------------------------------------------------------
(* Answers *)

\* How an answer reaches the client: "ok", "http" (refused, nothing done) or
\* "lost" (the connection failed, before or after the server acted).
Outcome(r, o) ==
    /\ o = "ok" => r.served
    /\ o = "http" => ~r.served
    /\ o # "ok" => faults < MaxFaults
    /\ faults' = faults + (IF o = "ok" THEN 0 ELSE 1)

Rest(r) == inflight \ {r}

\* A new reconciliation reads what a write under way is about to change.
Crossing(jar) ==
    IF identity' # identity
       /\ \E w \in Writes : Owner(w.jar, deleted) = Owner(jar, deleted)
    THEN {"readCrossesWrite"} ELSE {}

Met(o, race) == IF o = "ok" THEN met ELSE met \cup {race}

\* Mutant: an answer of an earlier generation is applied as well.
AnyGeneration(r) == TRUE

\* The guard on every answer to fetchMe.
CurrentGeneration(r) == r.gen = auth.generation

\* fetchMe of the mount effect: a failure, or nobody, shows nobody; of
\* refreshUser: a failure leaves the user alone.
AnswerMe(r, o) ==
    LET u == IF o = "ok" THEN r.result ELSE NoUser
    IN  /\ r.kind = "me" /\ Outcome(r, o)
        /\ IF CurrentGeneration(r) /\ (r.first \/ u # NoUser)
           THEN /\ auth' = [auth EXCEPT !.user = u,
                                        !.loading = @ /\ ~r.first]
                /\ IdentityEffect(u, auth.device, cookie, Rest(r))
           ELSE /\ inflight' = Rest(r)
                /\ UNCHANGED <<auth, identity, view, storage>>
        /\ met' = Crossing(cookie) \cup IF r.first THEN Met(o, "authFault") ELSE met
        /\ UNCHANGED <<provider, cookie, synced, rows, deleted, unsaved, ops>>

\* applyLoggedInUser.
LoggedIn(u) == [auth EXCEPT !.user = u, !.loading = FALSE]

\* applyLoggedInUser after login; a failure only reaches the caller.
AnswerLogin(r, o) ==
    /\ r.kind = "login" /\ Outcome(r, o)
    /\ IF o = "ok"
       THEN /\ cookie' = [cookie EXCEPT !.user = r.as]
            /\ auth' = LoggedIn(r.as)
            /\ IdentityEffect(r.as, auth.device, cookie', Rest(r))
       ELSE /\ inflight' = Rest(r)
            /\ UNCHANGED <<cookie, auth, identity, view, storage>>
    /\ met' = Crossing(cookie')
              \cup (IF auth.loading THEN Met(o, "loadOvertaken") ELSE met)
              \cup (IF o = "lost" THEN {"authFault"} ELSE {})
    /\ UNCHANGED <<provider, synced, rows, deleted, unsaved, ops>>

\* logout after its request, which only a lost connection makes fail, and
\* deleteAccount, which any failure makes fail: rotate the device id, show
\* nobody.  The cookies go with the answer of a server that acted.
AnswerLogout(r, o) ==
    LET done == o = "ok" \/ (o = "http" /\ r.kind = "logout")
        jar == IF o = "ok" THEN [user |-> NoUser, aid |-> cookie.aid + 1] ELSE cookie
    IN  /\ r.kind \in {"logout", "delete"} /\ Outcome(r, o)
        /\ cookie' = jar
        /\ IF done
           THEN /\ auth' = [auth EXCEPT !.user = NoUser, !.device = @ + 1]
                /\ IdentityEffect(NoUser, auth.device + 1, jar, Rest(r))
           ELSE /\ inflight' = Rest(r)
                /\ UNCHANGED <<auth, identity, view, storage>>
        /\ met' = Crossing(jar) \cup Met(o, "authFault")
        /\ UNCHANGED <<provider, synced, rows, deleted, unsaved, ops>>

\* The view the server's rows give.
Listed(got) ==
    [ids |-> {e \in Events : got[e] # Absent},
     audience |-> [e \in Events |-> IF got[e] = Absent THEN NoAudience ELSE got[e]]]

\* Mutant: syncedKey is set by the success path only.
SettledWhenOk(r, o) == IF r.live /\ o = "ok" THEN r.by ELSE synced

\* finally: syncedKey is set unless cancelled.
Settled(r, o) == IF r.live THEN r.by ELSE synced

\* The reconciliation: replace the view by the server's rows, unless it was
\* cancelled.  A refused request reads as an empty list, a lost one is ignored.
AnswerList(r, o) ==
    LET got == IF o = "ok" THEN r.result ELSE NoRows
    IN  /\ r.kind = "list" /\ Outcome(r, o)
        /\ inflight' = Rest(r)
        /\ synced' = Settled(r, o)
        /\ IF r.live /\ o # "lost" THEN SetView(Listed(got))
           ELSE UNCHANGED <<view, storage, identity>>
        /\ met' = Met(o, "readFault")
        /\ UNCHANGED <<provider, cookie, auth, rows, deleted, unsaved, ops>>

\* Mutant: a failed toggle is not undone.
RolledBackNothing(r) == view

\* Saved: undo that event only, whatever else has changed; the audience map is
\* not restored by toggleSave, and restored as a whole by setSavedAudience.
\* Attending: restore everything as it was before the write.
RolledBack(r) ==
    IF r.action = "audience" THEN [view EXCEPT !.audience = r.before.audience]
    ELSE IF provider = "attending" THEN r.before
    ELSE [view EXCEPT !.ids = IF r.action = "remove" THEN @ \cup {r.event}
                              ELSE @ \ {r.event}]

AnswerWrite(r, o) ==
    /\ r.kind = "write" /\ Outcome(r, o)
    /\ inflight' = Rest(r)
    /\ IF o = "ok" THEN UNCHANGED <<view, storage, identity>>
       ELSE SetView(RolledBack(r))
    /\ met' = met \cup (IF o = "lost" THEN {"writeLost"} ELSE {})
                  \cup (IF o # "ok" /\ r.by # identity THEN {"lateRollback"} ELSE {})
    /\ UNCHANGED <<provider, cookie, auth, synced, rows, deleted, unsaved, ops>>

\* clearAll's requests settle one by one; after the last, what failed returns.
AnswerClear(r, o) ==
    LET failed == unsaved \cup (IF o = "ok" THEN {} ELSE {r.event})
        last == Sent("clear") = {r}
    IN  /\ r.kind = "clear" /\ Outcome(r, o)
        /\ inflight' = Rest(r)
        /\ unsaved' = IF last THEN {} ELSE failed
        /\ IF last /\ failed # {} THEN SetView([view EXCEPT !.ids = @ \cup failed])
           ELSE UNCHANGED <<view, storage, identity>>
        /\ met' = met \cup (IF o = "lost" THEN {"writeLost"} ELSE {})
                      \cup (IF last /\ failed # {} /\ r.by # identity
                          THEN {"lateRollback"} ELSE {})
        /\ UNCHANGED <<provider, cookie, auth, synced, rows, deleted, ops>>

Answer(r) ==
    \E o \in {"ok", "http", "lost"} :
        \/ AnswerMe(r, o)    \/ AnswerLogin(r, o) \/ AnswerLogout(r, o)
        \/ AnswerList(r, o)  \/ AnswerWrite(r, o) \/ AnswerClear(r, o)

----------------------------------------------------------------------------
Act ==
    \/ \E u \in Users : Login(u)
    \/ Logout
    \/ DeleteAccount
    \/ RefreshUser
    \/ \E e \in Events, a \in Audiences \cup {NoAudience} :
         ToggleSave(e, a) \/ ToggleAttending(e, a)
    \/ \E e \in Events, a \in Audiences : SetAudience(e, a)
    \/ ClearAll

Next ==
    \/ Act
    \/ \E r \in inflight : Serve(r)
    \/ \E r \in inflight : Answer(r)
    \/ Quiet /\ UNCHANGED vars          \* nothing under way: the page rests

\* Every request sent is answered, if only by the browser giving up.
Spec ==
    /\ Init /\ [][Next]_vars
    /\ \A n \in 1..MaxRequests :
         WF_vars(\E r \in inflight : r.n = n /\ Answer(r))
    /\ \A n \in 1..MaxRequests :
         WF_vars(\E r \in inflight : r.n = n /\ Serve(r))

----------------------------------------------------------------------------
(* Properties *)

\* The type of the state.
TypeOK ==
    /\ provider \in {"saved", "attending"}
    /\ cookie.user \in Users \cup {NoUser} /\ cookie.aid \in 0..MaxOps
    /\ auth.user \in Users \cup {NoUser} /\ auth.loading \in BOOLEAN
    /\ auth.generation \in 1..(MaxOps + 1) /\ auth.device \in 0..MaxOps
    /\ identity \in Identities /\ synced \in Identities \cup {NoIdentity}
    /\ view.ids \subseteq Events
    /\ \A r, s \in inflight : r.n = s.n => r = s
    /\ Cardinality(inflight) <= MaxRequests
    /\ unsaved \subseteq Events /\ deleted \subseteq Users

AuthTrouble == met \cap {"authOverlap", "authFault", "loadOvertaken"} # {}

\* AuthContext's generation counter: once every request is answered the user
\* shown is the session's, whatever order the answers of fetchMe, login,
\* logout and deleteAccount arrived in, unless an auth operation was started
\* while another one was under way, or one failed half way.
SessionAgrees == Quiet /\ ~AuthTrouble => auth.user = cookie.user

\* "loading" ends with the first answers, except when a sign-in that overtook
\* the first fetchMe failed.
LoadingEnds == Quiet /\ auth.loading => "loadOvertaken" \in met

Shared == {e \in Events : rows[Owner(cookie, deleted)][e] # Absent}

\* Optimistic updates with rollback: once every request is answered the
\* provider shows exactly the server's rows of the viewer, rejected writes
\* included, unless one of the named races or faults was met.
ViewAgrees ==
    Quiet /\ met \subseteq {"audienceOmitted", "audiencesOverlap"}
        => view.ids = Shared

\* The audience shown for an event of a signed-in viewer is then the audience
\* the server shares it with, if it was always given.
AudienceAgrees ==
    Quiet /\ met = {} /\ cookie.user # NoUser /\ auth.user = cookie.user =>
        \A e \in Shared : view.audience[e] = rows[Owner(cookie, deleted)][e]

\* What the two providers show, once every request is answered, is what the
\* server holds for the viewer, events and audiences, and no page still waits.
ViewsAgree == TypeOK /\ LoadingEnds /\ ViewAgrees /\ AudienceAgrees

\* The write-through effects never write under another identity's key: a step
\* changes the copy of no identity but the one shown after it.
OthersUntouched ==
    [][\A k \in Identities : k # identity' => storage'[k] = storage[k]]_vars

ForeignAnswer(r) == r \in inflight /\ r.n \notin {q.n : q \in inflight'}
                    /\ r.by # identity /\ identity' = identity

\* An answer to a request of an identity no longer shown leaves the view
\* alone, unless it is the failure of a write.
ForeignReadsIgnored ==
    [][\A r \in inflight : ForeignAnswer(r) /\ r.kind \notin {"write", "clear"}
            => view' = view]_vars

\* "ready" is reached for every identity that stays: the reconciliation of the
\* identity shown is never the one that was cancelled.
EventuallyReady == []<>(synced = identity)
=============================================================================
