------------------------- MODULE ClientSessionProofs -------------------------
(***************************************************************************)
(* Proofs about ClientSession, for any users, events and audiences, any    *)
(* number of operations, faults and requests in flight.                    *)
(***************************************************************************)
EXTENDS ClientSession, FiniteSetTheorems, TLAPS

----------------------------------------------------------------------------
(* Types *)

Jars == [user : Users \cup {NoUser}, aid : 0..MaxOps]
Shown == Audiences \cup {NoAudience, "private"}
Held == Audiences \cup {Absent, "private"}
Views == [ids : SUBSET Events, audience : [Events -> Shown]]
Numbers == 1..MaxRequests

MeRequests ==
    [n : Numbers, kind : {"me"}, jar : Jars, served : BOOLEAN, by : Identities,
     gen : Nat, first : BOOLEAN, result : Users \cup {NoUser}]

ListRequests ==
    [n : Numbers, kind : {"list"}, jar : Jars, served : BOOLEAN, by : Identities,
     live : BOOLEAN, result : [Events -> Held \cup Shown]]

LoginRequests ==
    [n : Numbers, kind : {"login"}, jar : Jars, served : BOOLEAN, by : Identities,
     as : Users]

LogoutRequests ==
    [n : Numbers, kind : {"logout", "delete"}, jar : Jars, served : BOOLEAN,
     by : Identities]

WriteRequests ==
    [n : Numbers, kind : {"write"}, jar : Jars, served : BOOLEAN, by : Identities,
     event : Events, action : {"add", "remove", "audience"},
     audience : Audiences \cup {NoAudience}, before : Views]

ClearRequests ==
    [n : Numbers, kind : {"clear"}, jar : Jars, served : BOOLEAN, by : Identities,
     event : Events]

Requests == MeRequests \cup ListRequests \cup LoginRequests \cup LogoutRequests
              \cup WriteRequests \cup ClearRequests

Numbered(reqs) == \A r, s \in reqs : r.n = s.n => r = s

\* The identities are bounded by the operations, because each rotation is the
\* end of an auth operation.
Rotations ==
    /\ cookie.aid + Cardinality(AuthOps) <= ops
    /\ auth.device + Cardinality(AuthOps) <= ops

ShownTyped == /\ identity \in Identities
              /\ view \in Views /\ storage \in [Identities -> Views]

RequestsTyped == inflight \in SUBSET Requests /\ Numbered(inflight)

ServerTyped == rows \in [Identities -> [Events -> Held]] /\ deleted \in SUBSET Users

AuthTyped ==
    /\ cookie \in Jars
    /\ auth \in [user : Users \cup {NoUser}, loading : BOOLEAN, generation : Nat,
                 device : 0..MaxOps]
    /\ 1 <= auth.generation /\ auth.generation <= ops + 1
    /\ ops \in 0..MaxOps

RestTyped ==
    /\ provider \in {"saved", "attending"}
    /\ synced \in Identities \cup {NoIdentity}
    /\ unsaved \in SUBSET Events

Typed == AuthTyped /\ ShownTyped /\ RequestsTyped /\ ServerTyped /\ RestTyped

LEMMA ConstantsTyped ==
    /\ MaxOps \in Nat /\ MaxRequests \in Nat /\ MaxFaults \in Nat
    /\ MaxRequests >= 2
    /\ NoUser \notin Users /\ DefaultAudience \in Audiences
    /\ NoAudience \notin Audiences /\ Absent \notin Audiences
BY SessionAssumption

LEMMA KeyTyped ==
    ASSUME NEW u \in Users \cup {NoUser}, NEW d \in 0..MaxOps
    PROVE  identityKey(u, d) \in Identities
BY DEF identityKey, Identities, Anon

LEMMA OwnerTyped ==
    ASSUME NEW jar \in Jars, NEW gone
    PROVE  Owner(jar, gone) \in Identities
BY DEF Owner, Jars, Identities, Anon

\* The number given to a new request is free.
LEMMA SlotFree ==
    ASSUME NEW reqs, FreeSlots(reqs) # {}
    PROVE  Slot(reqs) \in Numbers /\ \A r \in reqs : r.n # Slot(reqs)
BY DEF Slot, FreeSlots, Numbers

\* Requests of one kind have one type.
LEMMA KindTyped ==
    ASSUME NEW r \in Requests
    PROVE  /\ r.kind = "me" => r \in MeRequests
           /\ r.kind = "list" => r \in ListRequests
           /\ r.kind = "login" => r \in LoginRequests
           /\ r.kind \in {"logout", "delete"} => r \in LogoutRequests
           /\ r.kind = "write" => r \in WriteRequests
           /\ r.kind = "clear" => r \in ClearRequests
BY DEF Requests, MeRequests, ListRequests, LoginRequests, LogoutRequests,
       WriteRequests, ClearRequests

LEMMA FieldsTyped ==
    ASSUME NEW r \in Requests
    PROVE  /\ r.n \in Numbers /\ r.jar \in Jars /\ r.served \in BOOLEAN
           /\ r.by \in Identities
           /\ r.kind \in {"me", "list", "login", "logout", "delete", "write", "clear"}
BY DEF Requests, MeRequests, ListRequests, LoginRequests, LogoutRequests,
       WriteRequests, ClearRequests

LEMMA SentTyped ==
    ASSUME NEW r \in Requests, NEW reqs \in SUBSET Requests, Numbered(reqs),
           \A q \in reqs : q.n # r.n
    PROVE  reqs \cup {r} \in SUBSET Requests /\ Numbered(reqs \cup {r})
BY DEF Numbered

LEMMA CancelTyped ==
    ASSUME NEW reqs \in SUBSET Requests, Numbered(reqs)
    PROVE  /\ Cancel(reqs) \in SUBSET Requests /\ Numbered(Cancel(reqs))
           /\ \A q \in Cancel(reqs) : \E r \in reqs :
                 r.n = q.n /\ r.kind = q.kind /\ (r.kind # "list" => r = q)
           /\ \A r \in reqs : r.kind # "list" => r \in Cancel(reqs)
           /\ \A q \in Cancel(reqs) : q.kind = "list" => q.live = FALSE
<1> DEFINE c(r) == [r EXCEPT !.live = FALSE]
<1>1. ASSUME NEW r \in reqs, r.kind = "list"
      PROVE  /\ c(r) \in Requests /\ c(r).n = r.n /\ c(r).kind = r.kind
             /\ c(r).live = FALSE
  <2>1. r \in ListRequests
    BY <1>1, KindTyped
  <2>2. c(r) \in ListRequests /\ c(r).n = r.n /\ c(r).kind = r.kind /\ c(r).live = FALSE
    BY <2>1 DEF ListRequests
  <2> QED BY <2>2 DEF Requests
<1> HIDE DEF c
<1>2. Cancel(reqs) = {IF r.kind = "list" THEN c(r) ELSE r : r \in reqs}
  BY DEF Cancel, c
<1>3. \A q \in Cancel(reqs) : \E r \in reqs :
          q = (IF r.kind = "list" THEN c(r) ELSE r)
  BY <1>2
<1>4. Numbered(Cancel(reqs))
  <2> SUFFICES ASSUME NEW p \in Cancel(reqs), NEW q \in Cancel(reqs), p.n = q.n
               PROVE  p = q
    BY DEF Numbered
  <2>1. PICK r \in reqs : p = (IF r.kind = "list" THEN c(r) ELSE r)
    BY <1>3
  <2>2. PICK s \in reqs : q = (IF s.kind = "list" THEN c(s) ELSE s)
    BY <1>3
  <2>3. r.n = p.n /\ s.n = q.n
    BY <2>1, <2>2, <1>1
  <2>4. r = s
    BY <2>3 DEF Numbered
  <2> QED BY <2>1, <2>2, <2>4
<1>5. \A r \in reqs : r.kind # "list" => r \in Cancel(reqs)
  BY <1>2
<1> QED BY <1>1, <1>3, <1>4, <1>5

----------------------------------------------------------------------------
(* Who is under way *)

LEMMA AuthOpsFinite ==
    ASSUME RequestsTyped
    PROVE  IsFiniteSet(inflight) /\ IsFiniteSet(AuthOps)
           /\ Cardinality(AuthOps) \in Nat
           /\ Cardinality(inflight) <= MaxRequests
<1> DEFINE number == [r \in inflight |-> r.n]
<1>1. number \in Injection(inflight, Numbers)
  <2>1. \A r \in inflight : r.n \in Numbers
    BY FieldsTyped DEF RequestsTyped
  <2> QED BY <2>1 DEF RequestsTyped, Numbered, Injection, IsInjective
<1>2. IsFiniteSet(Numbers) /\ Cardinality(Numbers) = MaxRequests
  BY ConstantsTyped, FS_Interval DEF Numbers
<1>3. IsFiniteSet(inflight) /\ Cardinality(inflight) <= MaxRequests
  <2> HIDE DEF number
  <2> QED BY <1>1, <1>2, FS_Injection
<1>4. AuthOps \in SUBSET inflight
  BY DEF AuthOps
<1> QED BY <1>3, <1>4, FS_Subset, FS_CardinalityType

\* Only these operations count: an answered one is gone, a served one counts
\* as before, a new one counts once.
LEMMA AuthOpAnswered ==
    ASSUME RequestsTyped, NEW r \in AuthOps, AuthOps' = AuthOps \ {r}
    PROVE  Cardinality(AuthOps') = Cardinality(AuthOps) - 1
           /\ Cardinality(AuthOps) >= 1
<1>1. IsFiniteSet(AuthOps)
  BY AuthOpsFinite
<1>2. Cardinality(AuthOps \ {r}) = Cardinality(AuthOps) - 1
  BY <1>1, FS_RemoveElement
<1>3. Cardinality(AuthOps \ {r}) \in Nat
  BY <1>1, FS_RemoveElement, FS_CardinalityType
<1>4. Cardinality(AuthOps) \in Nat
  BY AuthOpsFinite
<1> QED BY <1>2, <1>3, <1>4

LEMMA AuthOpStarted ==
    ASSUME RequestsTyped, NEW r, r \notin AuthOps, AuthOps' = AuthOps \cup {r}
    PROVE  Cardinality(AuthOps') = Cardinality(AuthOps) + 1
BY AuthOpsFinite, FS_AddElement

LEMMA AuthOpServed ==
    ASSUME RequestsTyped, NEW r \in AuthOps, NEW s,
           s \notin AuthOps \ {r}, AuthOps' = (AuthOps \ {r}) \cup {s}
    PROVE  Cardinality(AuthOps') = Cardinality(AuthOps)
<1>1. IsFiniteSet(AuthOps) /\ IsFiniteSet(AuthOps \ {r})
  BY AuthOpsFinite, FS_RemoveElement
<1>2. Cardinality(AuthOps \ {r}) = Cardinality(AuthOps) - 1
  BY <1>1, FS_RemoveElement
<1>3. Cardinality((AuthOps \ {r}) \cup {s}) = Cardinality(AuthOps \ {r}) + 1
  BY <1>1, FS_AddElement
<1>4. Cardinality(AuthOps) \in Nat
  BY AuthOpsFinite
<1> QED BY <1>2, <1>3, <1>4

\* A new request is another request than those under way.
LEMMA Sends ==
    ASSUME NEW r \in Requests, RequestsTyped, Operation(r), r.n = Slot(inflight)
    PROVE  /\ inflight' = inflight \cup {r} /\ r \notin inflight
           /\ RequestsTyped'
           /\ ops' = ops + 1 /\ ops < MaxOps
<1>1. inflight' = inflight \cup {r} /\ ops' = ops + 1 /\ ops < MaxOps /\ FreeSlots(inflight) # {}
  BY DEF Operation
<1>2. \A q \in inflight : q.n # r.n
  BY <1>1, SlotFree
<1>3. inflight \cup {r} \in SUBSET Requests /\ Numbered(inflight \cup {r})
  BY <1>2, SentTyped DEF RequestsTyped
<1>4. RequestsTyped'
  BY <1>1, <1>3 DEF RequestsTyped, Numbered
<1> QED BY <1>1, <1>2, <1>4

\* The effects of a new identity: everything but the lists goes on as it was,
\* the lists are cancelled, and one new list is live.
LEMMA EffectTyped ==
    ASSUME NEW u \in Users \cup {NoUser}, NEW d \in 0..MaxOps, NEW jar \in Jars,
           NEW reqs \in SUBSET Requests, Numbered(reqs), ShownTyped,
           IdentityEffect(u, d, jar, reqs)
    PROVE  ShownTyped' /\ RequestsTyped'
<1> DEFINE key == identityKey(u, d)
           new == ListRequest(jar, key, reqs)
<1>1. key \in Identities
  BY KeyTyped
<1>2. CASE key = identity
  <2>1. inflight' = reqs /\ UNCHANGED <<identity, view, storage>>
    BY <1>2 DEF IdentityEffect
  <2> QED BY <2>1 DEF RequestsTyped, Numbered, ShownTyped
<1>3. CASE key # identity
  <2>1. /\ FreeSlots(reqs) # {} /\ identity' = key /\ view' = Hydrated(key)
        /\ storage' = WriteThrough(key, Hydrated(key))
        /\ inflight' = Cancel(reqs) \cup {new}
    BY <1>3 DEF IdentityEffect
  <2>2. Slot(reqs) \in Numbers /\ \A r \in reqs : r.n # Slot(reqs)
    BY <2>1, SlotFree
  <2>3. Unknown \in [Events -> Held \cup Shown]
    BY DEF Unknown, Shown
  <2>4. new \in ListRequests /\ new.n = Slot(reqs)
    BY <1>1, <2>2, <2>3 DEF ListRequest, ListRequests
  <2>5. new \in Requests
    BY <2>4 DEF Requests
  <2>6. Cancel(reqs) \in SUBSET Requests /\ Numbered(Cancel(reqs))
        /\ \A q \in Cancel(reqs) : q.n # new.n
    BY <2>2, <2>4, CancelTyped
  <2> HIDE DEF new
  <2>7. inflight' \in SUBSET Requests /\ Numbered(Cancel(reqs) \cup {new})
    BY <2>1, <2>5, <2>6, SentTyped
  <2>8. RequestsTyped'
    BY <2>1, <2>7 DEF RequestsTyped, Numbered
  <2>9. ShownTyped'
    BY <1>1, <2>1 DEF ShownTyped, Hydrated, WriteThrough
  <2> QED BY <2>8, <2>9
<1> QED BY <1>2, <1>3

----------------------------------------------------------------------------
(* Every step keeps the types *)

LEMMA SetViewTyped ==
    ASSUME ShownTyped, NEW v \in Views, SetView(v)
    PROVE  ShownTyped'
BY DEF ShownTyped, SetView, WriteThrough

LEMMA InitTyped == Init => Typed
<1> SUFFICES ASSUME Init PROVE Typed
  OBVIOUS
<1> USE ConstantsTyped DEF Init
<1>1. EmptyView \in Views /\ Unknown \in [Events -> Held \cup Shown]
  BY DEF EmptyView, Unknown, Views, Shown, Held
<1>2. Anon(0) \in Identities
  BY DEF Anon, Identities
<1>3. AuthTyped
  BY DEF AuthTyped, Jars
<1>4. ShownTyped
  BY <1>1, <1>2 DEF ShownTyped
<1>5. ServerTyped
  BY DEF ServerTyped, Held
<1>6. RestTyped
  BY DEF RestTyped
<1>7. RequestsTyped
  <2> DEFINE m == [n |-> 1, kind |-> "me", jar |-> cookie, served |-> FALSE,
                   by |-> Anon(0), gen |-> 1, first |-> TRUE, result |-> NoUser]
             l == [n |-> 2, kind |-> "list", jar |-> cookie, served |-> FALSE,
                   by |-> Anon(0), live |-> TRUE, result |-> Unknown]
  <2>1. cookie \in Jars
    BY <1>3 DEF AuthTyped
  <2>2. m \in MeRequests
    BY <1>2, <2>1 DEF MeRequests, Numbers
  <2>3. l \in ListRequests
    BY <1>1, <1>2, <2>1 DEF ListRequests, Numbers
  <2>4. inflight = {m, l} /\ m.n = 1 /\ l.n = 2
    OBVIOUS
  <2>5. m \in Requests /\ l \in Requests
    BY <2>2, <2>3 DEF Requests
  <2> HIDE DEF m, l
  <2> QED BY <2>4, <2>5 DEF RequestsTyped, Numbered
<1> QED BY <1>3, <1>4, <1>5, <1>6, <1>7 DEF Typed

\* The operations of AuthContext send one request each and touch nothing else.
LEMMA AuthStepTyped ==
    ASSUME Typed, (\E u \in Users : Login(u)) \/ Logout \/ DeleteAccount \/ RefreshUser
    PROVE  Typed'
<1> USE DEF Typed
<1>1. /\ UNCHANGED <<cookie, identity, view, storage, rows, deleted, provider, synced, unsaved>>
      /\ auth' = Bump
  BY DEF Login, Logout, DeleteAccount, RefreshUser, AuthUnchanged
<1>2. \E r \in Requests : Operation(r) /\ r.n = Slot(inflight)
  <2>1. Slot(inflight) \in Numbers
    BY SlotFree DEF Login, Logout, DeleteAccount, RefreshUser, Operation
  <2>2. cookie \in Jars /\ identity \in Identities /\ auth.generation + 1 \in Nat
    BY DEF AuthTyped, ShownTyped
  <2>3. ASSUME NEW u \in Users, Login(u)
        PROVE  LoginRequest(u) \in Requests /\ Operation(LoginRequest(u))
               /\ LoginRequest(u).n = Slot(inflight)
    <3>1. LoginRequest(u) \in LoginRequests /\ LoginRequest(u).n = Slot(inflight)
      BY <2>1, <2>2 DEF LoginRequest, LoginRequests
    <3> QED BY <2>3, <3>1 DEF Login, Requests
  <2>4. \A k \in {"logout", "delete"} :
            Request(k) \in Requests /\ Request(k).n = Slot(inflight)
    <3>1. \A k \in {"logout", "delete"} :
            Request(k) \in LogoutRequests /\ Request(k).n = Slot(inflight)
      BY <2>1, <2>2 DEF Request, LogoutRequests
    <3> QED BY <3>1 DEF Requests
  <2>5. MeRequest \in Requests /\ MeRequest.n = Slot(inflight)
    <3>1. MeRequest \in MeRequests /\ MeRequest.n = Slot(inflight)
      BY <2>1, <2>2 DEF MeRequest, MeRequests
    <3> QED BY <3>1 DEF Requests
  <2> QED BY <2>3, <2>4, <2>5 DEF Logout, DeleteAccount, RefreshUser
<1>3. RequestsTyped' /\ ops' = ops + 1 /\ ops < MaxOps
  BY <1>2, Sends
<1>4. AuthTyped'
  BY <1>1, <1>3, ConstantsTyped DEF AuthTyped, Bump
<1> QED BY <1>1, <1>3, <1>4 DEF ShownTyped, ServerTyped, RestTyped

\* What the four writes of the providers have in common.
WriteStep ==
    \/ \E e \in Events, a \in Audiences \cup {NoAudience} :
         ToggleSave(e, a) \/ ToggleAttending(e, a)
    \/ \E e \in Events, a \in Audiences : SetAudience(e, a)

LEMMA WriteRequestTyped ==
    ASSUME Typed, FreeSlots(inflight) # {}, NEW e \in Events,
           NEW action \in {"add", "remove", "audience"}, NEW a \in Audiences \cup {NoAudience}
    PROVE  WriteRequest(e, action, a) \in Requests
           /\ WriteRequest(e, action, a).n = Slot(inflight)
<1>1. Slot(inflight) \in Numbers
  BY SlotFree
<1>2. cookie \in Jars /\ identity \in Identities /\ view \in Views
  BY DEF Typed, AuthTyped, ShownTyped
<1>3. WriteRequest(e, action, a) \in WriteRequests
      /\ WriteRequest(e, action, a).n = Slot(inflight)
  BY <1>1, <1>2 DEF WriteRequest, WriteRequests
<1> QED BY <1>3 DEF Requests

LEMMA WriteStepTyped ==
    ASSUME Typed, WriteStep
    PROVE  Typed'
<1> USE DEF Typed
<1>1. /\ UNCHANGED <<provider, cookie, auth, synced, rows, deleted, unsaved>>
      /\ FreeSlots(inflight) # {}
  BY DEF WriteStep, ToggleSave, ToggleAttending, SetAudience, WriteUnchanged, Operation
<1>2. \E r \in Requests : Operation(r) /\ r.n = Slot(inflight)
  BY <1>1, WriteRequestTyped DEF WriteStep, ToggleSave, ToggleAttending, SetAudience
<1>3. RequestsTyped' /\ ops' = ops + 1 /\ ops < MaxOps
  BY <1>2, Sends
<1>4. AuthTyped'
  BY <1>1, <1>3, ConstantsTyped DEF AuthTyped
<1>5. \E v \in Views : SetView(v)
  <2>1. view \in Views /\ view.ids \in SUBSET Events /\ view.audience \in [Events -> Shown]
    BY DEF ShownTyped, Views
  <2>2. \A e \in Events : Flipped(e) \in SUBSET Events
    BY <2>1 DEF Flipped
  <2>3. \A e \in Events, a \in Audiences \cup {NoAudience} :
          [view.audience EXCEPT ![e] = a] \in [Events -> Shown]
    BY <2>1 DEF Shown
  <2>4. \A e \in Events : \A a \in Audiences \cup {NoAudience} :
          ToggleSave(e, a) => \E v \in Views : SetView(v)
    BY <2>1, <2>2, <2>3 DEF ToggleSave, Views
  <2>5. \A e \in Events : \A a \in Audiences \cup {NoAudience} :
          ToggleAttending(e, a) => \E v \in Views : SetView(v)
    BY <2>1, <2>2, <2>3 DEF ToggleAttending, Views
  <2>6. \A e \in Events : \A a \in Audiences : SetAudience(e, a) => \E v \in Views : SetView(v)
    <3> SUFFICES ASSUME NEW e \in Events, NEW a \in Audiences, SetAudience(e, a)
                 PROVE  \E v \in Views : SetView(v)
      OBVIOUS
    <3>1. [view EXCEPT !.audience[e] = a] \in Views
      BY <2>1 DEF Views, Shown
    <3> QED BY <3>1 DEF SetAudience
  <2> QED BY <2>4, <2>5, <2>6 DEF WriteStep
<1>6. ShownTyped'
  BY <1>5, SetViewTyped
<1> QED BY <1>1, <1>3, <1>4, <1>6 DEF ServerTyped, RestTyped

LEMMA ClearAllTyped ==
    ASSUME Typed, ClearAll
    PROVE  Typed'
<1> USE DEF Typed
<1>1. /\ UNCHANGED <<provider, cookie, auth, synced, rows, deleted, unsaved>>
      /\ ops' = ops + 1 /\ ops < MaxOps
      /\ SetView([view EXCEPT !.ids = {}])
  BY DEF ClearAll, WriteUnchanged
<1>2. PICK slots \in [view.ids -> FreeSlots(inflight)] :
        /\ \A d, e \in view.ids : d # e => slots[d] # slots[e]
        /\ inflight' = inflight \cup {ClearRequest(e, slots[e]) : e \in view.ids}
  BY DEF ClearAll
<1>3. RequestsTyped'
  <2>1. cookie \in Jars /\ identity \in Identities /\ view.ids \in SUBSET Events
    BY DEF AuthTyped, ShownTyped, Views
  <2>2. \A e \in view.ids : slots[e] \in Numbers /\ \A r \in inflight : r.n # slots[e]
    BY <1>2 DEF FreeSlots, Numbers
  <2>3. \A e \in view.ids : ClearRequest(e, slots[e]) \in ClearRequests
                             /\ ClearRequest(e, slots[e]).n = slots[e]
    BY <2>1, <2>2 DEF ClearRequest, ClearRequests
  <2>4. \A e \in view.ids : ClearRequest(e, slots[e]) \in Requests
    BY <2>3 DEF Requests
  <2>5. inflight' \in SUBSET Requests
    BY <1>2, <2>4 DEF RequestsTyped
  <2>6. \A r \in inflight' : r \in inflight \/ \E e \in view.ids : r = ClearRequest(e, slots[e])
    BY <1>2
  <2>7. Numbered(inflight)'
    BY <1>2, <2>2, <2>3, <2>6 DEF RequestsTyped, Numbered
  <2> QED BY <2>5, <2>7 DEF RequestsTyped
<1>4. AuthTyped'
  BY <1>1, ConstantsTyped DEF AuthTyped
<1>5. ShownTyped'
  <2>1. [view EXCEPT !.ids = {}] \in Views
    BY DEF ShownTyped, Views
  <2> QED BY <1>1, <2>1, SetViewTyped
<1> QED BY <1>1, <1>3, <1>4, <1>5 DEF ServerTyped, RestTyped

----------------------------------------------------------------------------
(* The server *)

\* Serving a request sets its flag and, for the two kinds of reading, what it
\* answers; nothing else of it changes.
LEMMA ServedTyped ==
    ASSUME Typed, NEW r \in inflight
    PROVE  /\ Served(r) \in Requests /\ Served(r).served = TRUE
           /\ Served(r).n = r.n /\ Served(r).kind = r.kind
           /\ Served(r).jar = r.jar /\ Served(r).by = r.by
           /\ r.kind = "me" =>
                /\ Served(r).gen = r.gen /\ Served(r).first = r.first
                /\ Served(r).result = IF r.jar.user \in deleted THEN NoUser ELSE r.jar.user
           /\ r.kind = "list" => Served(r).live = r.live
                /\ Served(r).result = rows[Owner(r.jar, deleted)]
           /\ r.kind = "login" => Served(r).as = r.as
           /\ r.kind = "write" =>
                /\ Served(r).event = r.event /\ Served(r).action = r.action
                /\ Served(r).audience = r.audience /\ Served(r).before = r.before
           /\ r.kind = "clear" => Served(r).event = r.event
<1>1. r \in Requests
  BY DEF Typed, RequestsTyped
<1>2. CASE r.kind = "me"
  <2>1. r \in MeRequests /\ r.jar.user \in Users \cup {NoUser}
    BY <1>1, <1>2, KindTyped, FieldsTyped DEF Jars
  <2> DEFINE x == IF r.jar.user \in deleted THEN NoUser ELSE r.jar.user
  <2>2. Served(r) = [r EXCEPT !.served = TRUE, !.result = x]
    BY <1>2 DEF Served
  <2>3. x \in Users \cup {NoUser}
    BY <2>1
  <2> HIDE DEF x
  <2>4. Served(r) \in MeRequests
    BY <2>1, <2>2, <2>3 DEF MeRequests
  <2>5. Served(r).result = x
    BY <2>1, <2>2 DEF MeRequests
  <2> QED BY <1>2, <2>1, <2>2, <2>4, <2>5 DEF MeRequests, Requests, x
<1>3. CASE r.kind = "list"
  <2>1. r \in ListRequests
    BY <1>1, <1>3, KindTyped
  <2> DEFINE x == rows[Owner(r.jar, deleted)]
  <2>2. Served(r) = [r EXCEPT !.served = TRUE, !.result = x]
    BY <1>3 DEF Served
  <2>3. x \in [Events -> Held \cup Shown]
    BY <1>1, FieldsTyped, OwnerTyped DEF Typed, ServerTyped
  <2> HIDE DEF x
  <2>4. Served(r) \in ListRequests
    BY <2>1, <2>2, <2>3 DEF ListRequests
  <2>5. Served(r).result = x
    BY <2>1, <2>2 DEF ListRequests
  <2> QED BY <1>3, <2>1, <2>2, <2>4, <2>5 DEF ListRequests, Requests, x
<1>4. CASE r.kind \notin {"me", "list"}
  <2>1. Served(r) = [r EXCEPT !.served = TRUE]
    BY <1>4 DEF Served
  <2>2. CASE r \in LoginRequests
    BY <2>1, <2>2 DEF LoginRequests, Requests
  <2>3. CASE r \in LogoutRequests
    BY <2>1, <2>3 DEF LogoutRequests, Requests
  <2>4. CASE r \in WriteRequests
    BY <2>1, <2>4 DEF WriteRequests, Requests
  <2>5. CASE r \in ClearRequests
    BY <2>1, <2>5 DEF ClearRequests, Requests
  <2> QED BY <1>1, <1>4, <2>2, <2>3, <2>4, <2>5, KindTyped, FieldsTyped
<1> QED BY <1>2, <1>3, <1>4

LEMMA MergedTyped ==
    ASSUME ServerTyped, NEW k \in Identities, NEW u \in Users
    PROVE  Merged(k, u) \in [Identities -> [Events -> Held]]
<1>1. <<"user", u>> \in Identities
  BY DEF Identities
<1>2. NoRows \in [Events -> Held]
  BY DEF NoRows, Held
<1> DEFINE m == [e \in Events |-> IF rows[<<"user", u>>][e] = Absent
                                 THEN rows[k][e] ELSE rows[<<"user", u>>][e]]
<1>3. m \in [Events -> Held]
  BY <1>1 DEF ServerTyped
<1>4. Merged(k, u) = [rows EXCEPT ![<<"user", u>>] = m, ![k] = NoRows]
  BY DEF Merged
<1> HIDE DEF m
<1> QED BY <1>1, <1>2, <1>3, <1>4 DEF ServerTyped

LEMMA SetRowTyped ==
    ASSUME ServerTyped, NEW o \in Identities, NEW e \in Events, NEW x \in Held
    PROVE  SetRow(o, e, x) \in [Identities -> [Events -> Held]]
<1>1. [rows[o] EXCEPT ![e] = x] \in [Events -> Held]
  BY DEF ServerTyped
<1> QED BY <1>1 DEF SetRow, ServerTyped

LEMMA WrittenRowTyped ==
    ASSUME ServerTyped, NEW o \in Identities, NEW r \in WriteRequests
    PROVE  WrittenRow(r, o) \in Held
<1>1. rows[o][r.event] \in Held /\ r.audience \in Audiences \cup {NoAudience}
  BY DEF ServerTyped, WriteRequests
<1>2. Absent \in Held /\ "private" \in Held /\ DefaultAudience \in Held
      /\ (r.audience # NoAudience => r.audience \in Held)
  BY <1>1, ConstantsTyped DEF Held
<1>3. RowAudience(o, r.audience) \in Held
  BY <1>2 DEF RowAudience
<1> QED BY <1>1, <1>2, <1>3 DEF WrittenRow

LEMMA ServeTyped ==
    ASSUME Typed, NEW r \in inflight, Serve(r)
    PROVE  Typed'
<1> USE DEF Typed
<1> DEFINE o == Owner(r.jar, deleted)
<1>1. /\ UNCHANGED <<provider, cookie, auth, identity, synced, view, storage,
                     unsaved, ops, faults, met>>
      /\ inflight' = (inflight \ {r}) \cup {Served(r)}
  BY DEF Serve
<1>2. r \in Requests /\ o \in Identities
  BY FieldsTyped, OwnerTyped DEF RequestsTyped
<1>3. RequestsTyped'
  <2>1. Served(r) \in Requests /\ Served(r).n = r.n
    BY ServedTyped
  <2>2. \A q \in inflight \ {r} : q.n # Served(r).n
    BY <2>1 DEF RequestsTyped, Numbered
  <2>3. inflight' \in SUBSET Requests /\ Numbered((inflight \ {r}) \cup {Served(r)})
    BY <1>1, <2>1, <2>2, SentTyped DEF RequestsTyped, Numbered
  <2> QED BY <1>1, <2>3 DEF RequestsTyped, Numbered
<1>4. rows' \in [Identities -> [Events -> Held]]
  <2> USE <1>2
  <2>1. CASE r.kind = "login"
    <3>1. r \in LoginRequests /\ r.jar \in Jars
      BY <2>1, KindTyped, FieldsTyped
    <3>2. Anon(r.jar.aid) \in Identities /\ r.as \in Users
      BY <3>1 DEF LoginRequests, Jars, Identities, Anon
    <3>3. rows' = Merged(Anon(r.jar.aid), r.as)
      BY <2>1 DEF Serve
    <3> QED BY <3>2, <3>3, MergedTyped
  <2>2. CASE r.kind = "delete"
    <3>1. rows' = [rows EXCEPT ![o] = NoRows] \/ rows' = rows
      BY <2>2 DEF Serve
    <3>2. NoRows \in [Events -> Held]
      BY DEF NoRows, Held
    <3> HIDE DEF o
    <3> QED BY <3>1, <3>2 DEF ServerTyped
  <2>3. CASE r.kind = "clear"
    <3>1. r.event \in Events
      BY <2>3, KindTyped DEF ClearRequests
    <3>2. rows' = SetRow(o, r.event, Absent)
      BY <2>3 DEF Serve
    <3>3. Absent \in Held
      BY DEF Held
    <3> HIDE DEF o
    <3> QED BY <3>1, <3>2, <3>3, SetRowTyped
  <2>4. CASE r.kind = "write"
    <3>1. r \in WriteRequests /\ r.event \in Events
      BY <2>4, KindTyped DEF WriteRequests
    <3>2. rows' = SetRow(o, r.event, WrittenRow(r, o))
      BY <2>4 DEF Serve
    <3> HIDE DEF o
    <3> QED BY <3>1, <3>2, SetRowTyped, WrittenRowTyped
  <2>5. CASE r.kind \in {"me", "list", "logout"}
    BY <2>5 DEF Serve, ServerTyped
  <2> QED BY <2>1, <2>2, <2>3, <2>4, <2>5, FieldsTyped
<1>5. deleted' \in SUBSET Users
  <2>1. o[1] = "user" => o[2] \in Users
    <3>1. (o = <<"user", r.jar.user>> /\ r.jar.user \in Users) \/ o[1] = "anon"
      BY <1>2, FieldsTyped DEF Owner, Jars, Anon
    <3> QED BY <3>1
  <2> HIDE DEF o
  <2>2. \/ deleted' = deleted
        \/ (o[1] = "user" /\ deleted' = deleted \cup {o[2]})
        \/ deleted' = deleted \ {r.as}
    BY DEF Serve, o
  <2> QED BY <2>1, <2>2 DEF ServerTyped
<1>6. ServerTyped'
  BY <1>4, <1>5 DEF ServerTyped
<1> QED BY <1>1, <1>3, <1>6 DEF AuthTyped, ShownTyped, RestTyped

----------------------------------------------------------------------------
(* Answers *)

\* The requests of every other kind than the lists.
Others(reqs) == {q \in reqs : q.kind # "list"}

Live == {q \in Sent("list") : q.live}

\* After the effects of a new identity nothing has changed but the lists, and
\* the only live one is for that identity and was sent with its cookies.
LEMMA EffectLists ==
    ASSUME NEW u, NEW d, NEW jar, NEW reqs \in SUBSET Requests, Numbered(reqs),
           IdentityEffect(u, d, jar, reqs)
    PROVE  /\ identity' = identityKey(u, d)
           /\ Others(inflight') = Others(reqs)
           /\ identityKey(u, d) = identity =>
                inflight' = reqs /\ view' = view /\ storage' = storage
           /\ identityKey(u, d) # identity =>
                \E new \in inflight' :
                    /\ new.by = identity' /\ new.jar = jar /\ ~new.served
                    /\ Live' = {new}
<1> DEFINE key == identityKey(u, d)
           new == ListRequest(jar, key, reqs)
<1>1. CASE key = identity
  BY <1>1 DEF IdentityEffect
<1>2. CASE key # identity
  <2>1. identity' = key /\ inflight' = Cancel(reqs) \cup {new}
    BY <1>2 DEF IdentityEffect
  <2>2. /\ new.kind = "list" /\ new.live = TRUE /\ new.by = key /\ new.jar = jar
        /\ new.served = FALSE
    BY DEF ListRequest
  <2> HIDE DEF new
  <2>3. Others(inflight') = Others(reqs)
    <3>1. \A q \in inflight' : q.kind # "list" => q \in reqs
      <4>1. \A q \in Cancel(reqs) : q.kind # "list" => q \in reqs
        <5>1. \A q \in Cancel(reqs) : \E r \in reqs :
                 r.n = q.n /\ r.kind = q.kind /\ (r.kind # "list" => r = q)
          BY CancelTyped
        <5> QED BY <5>1
      <4> QED BY <2>1, <2>2, <4>1
    <3>2. \A q \in reqs : q.kind # "list" => q \in inflight'
      BY <2>1, <2>2, CancelTyped
    <3> QED BY <3>1, <3>2 DEF Others
  <2>4. Live' = {new}
    BY <2>1, <2>2, CancelTyped DEF Live, Sent
  <2> QED BY <1>2, <2>1, <2>2, <2>3, <2>4
<1> QED BY <1>1, <1>2

LEMMA RestIsTyped ==
    ASSUME RequestsTyped, NEW r \in inflight
    PROVE  /\ r \in Requests /\ Rest(r) \in SUBSET Requests /\ Numbered(Rest(r))
           /\ (inflight' = Rest(r) => RequestsTyped')
BY DEF RequestsTyped, Rest, Numbered

\* An answer ends its request and no other, but for the lists.
LEMMA AnswerOthers ==
    ASSUME RequestsTyped, NEW r \in inflight, Answer(r)
    PROVE  Others(inflight') = Others(inflight) \ {r}
<1>1. Others(Rest(r)) = Others(inflight) \ {r}
  BY DEF Others, Rest
<1>2. Rest(r) \in SUBSET Requests /\ Numbered(Rest(r))
  BY RestIsTyped
<1>3. ASSUME NEW u, NEW d, NEW jar, IdentityEffect(u, d, jar, Rest(r))
      PROVE  Others(inflight') = Others(Rest(r))
  BY <1>2, <1>3, EffectLists
<1>4. ASSUME NEW o, AnswerMe(r, o) PROVE Others(inflight') = Others(Rest(r))
  BY <1>3, <1>4 DEF AnswerMe
<1>5. ASSUME NEW o, AnswerLogin(r, o) PROVE Others(inflight') = Others(Rest(r))
  <2>1. \/ inflight' = Rest(r)
        \/ IdentityEffect(r.as, auth.device, cookie', Rest(r))
    BY <1>5 DEF AnswerLogin
  <2> QED BY <1>3, <2>1
<1>6. ASSUME NEW o, AnswerLogout(r, o) PROVE Others(inflight') = Others(Rest(r))
  <2>1. \/ inflight' = Rest(r)
        \/ IdentityEffect(NoUser, auth.device + 1, cookie', Rest(r))
    BY <1>6 DEF AnswerLogout
  <2> QED BY <1>3, <2>1
<1>7. ASSUME NEW o, AnswerList(r, o) \/ AnswerWrite(r, o) \/ AnswerClear(r, o)
      PROVE  inflight' = Rest(r)
  BY <1>7 DEF AnswerList, AnswerWrite, AnswerClear
<1> QED BY <1>1, <1>4, <1>5, <1>6, <1>7 DEF Answer

LEMMA AnswerMeTyped ==
    ASSUME Typed, NEW r \in inflight, NEW o, AnswerMe(r, o)
    PROVE  Typed'
<1> USE DEF Typed
<1> DEFINE u == IF o = "ok" THEN r.result ELSE NoUser
<1>1. r.kind = "me" /\ UNCHANGED <<provider, cookie, synced, rows, deleted, unsaved, ops>>
  BY DEF AnswerMe
<1>2. r \in Requests /\ Rest(r) \in SUBSET Requests /\ Numbered(Rest(r))
  BY RestIsTyped
<1>3. u \in Users \cup {NoUser}
  BY <1>1, <1>2, KindTyped DEF MeRequests
<1> HIDE DEF u
<1>4. CASE inflight' = Rest(r) /\ UNCHANGED <<auth, identity, view, storage>>
  BY <1>1, <1>4, RestIsTyped DEF AuthTyped, ShownTyped, ServerTyped, RestTyped
<1>5. CASE /\ auth' = [auth EXCEPT !.user = u, !.loading = auth.loading /\ ~r.first]
           /\ IdentityEffect(u, auth.device, cookie, Rest(r))
  <2>1. auth.device \in 0..MaxOps /\ cookie \in Jars
    BY DEF AuthTyped
  <2>2. ShownTyped' /\ RequestsTyped'
    BY <1>2, <1>3, <1>5, <2>1, EffectTyped
  <2>3. r.first \in BOOLEAN
    BY <1>1, <1>2, KindTyped DEF MeRequests
  <2>4. AuthTyped'
    BY <1>1, <1>3, <1>5, <2>3 DEF AuthTyped
  <2> QED BY <1>1, <2>2, <2>4 DEF ServerTyped, RestTyped
<1> QED BY <1>4, <1>5 DEF AnswerMe, u

LEMMA AnswerLoginTyped ==
    ASSUME Typed, NEW r \in inflight, NEW o, AnswerLogin(r, o)
    PROVE  Typed'
<1> USE DEF Typed
<1>1. r.kind = "login" /\ UNCHANGED <<provider, synced, rows, deleted, unsaved, ops>>
  BY DEF AnswerLogin
<1>2. r \in Requests /\ Rest(r) \in SUBSET Requests /\ Numbered(Rest(r))
  BY RestIsTyped
<1>3. CASE inflight' = Rest(r) /\ UNCHANGED <<cookie, auth, identity, view, storage>>
  BY <1>1, <1>3, RestIsTyped DEF AuthTyped, ShownTyped, ServerTyped, RestTyped
<1>4. CASE /\ cookie' = [cookie EXCEPT !.user = r.as] /\ auth' = LoggedIn(r.as)
           /\ IdentityEffect(r.as, auth.device, cookie', Rest(r))
  <2>1. r.as \in Users \cup {NoUser} /\ r.as \in Users
    BY <1>1, <1>2, KindTyped DEF LoginRequests
  <2>2. AuthTyped'
    BY <1>1, <1>4, <2>1 DEF AuthTyped, Jars, LoggedIn
  <2>3. auth.device \in 0..MaxOps /\ cookie' \in Jars
    BY <2>2 DEF AuthTyped
  <2>4. ShownTyped' /\ RequestsTyped'
    BY <1>2, <1>4, <2>1, <2>3, EffectTyped
  <2> QED BY <1>1, <2>2, <2>4 DEF ServerTyped, RestTyped
<1> QED BY <1>3, <1>4 DEF AnswerLogin

LEMMA AnswerLogoutTyped ==
    ASSUME Typed, Rotations, NEW r \in inflight, NEW o, AnswerLogout(r, o)
    PROVE  Typed' /\ cookie'.aid <= cookie.aid + 1 /\ auth'.device <= auth.device + 1
<1> USE DEF Typed
<1> DEFINE jar == IF o = "ok" THEN [user |-> NoUser, aid |-> cookie.aid + 1] ELSE cookie
<1>1. /\ r.kind \in {"logout", "delete"} /\ cookie' = jar
      /\ UNCHANGED <<provider, synced, rows, deleted, unsaved, ops>>
  BY DEF AnswerLogout
<1>2. r \in Requests /\ Rest(r) \in SUBSET Requests /\ Numbered(Rest(r))
  BY RestIsTyped
<1>3. cookie.aid + 1 \in 0..MaxOps /\ auth.device + 1 \in 0..MaxOps
  <2>1. r \in AuthOps
    BY <1>1 DEF AuthOps
  <2>2. Cardinality(AuthOps) >= 1
    <3>1. IsFiniteSet(AuthOps) /\ Cardinality(AuthOps) \in Nat
      BY AuthOpsFinite
    <3> QED BY <2>1, <3>1, FS_EmptySet
  <2>3. Cardinality(AuthOps) \in Nat
    BY AuthOpsFinite
  <2> QED BY <2>2, <2>3, ConstantsTyped DEF Rotations, AuthTyped, Jars
<1>4. jar \in Jars /\ jar.aid <= cookie.aid + 1
  BY <1>3 DEF Jars, AuthTyped
<1> HIDE DEF jar
<1>5. CASE inflight' = Rest(r) /\ UNCHANGED <<auth, identity, view, storage>>
  <2>1. AuthTyped' /\ auth'.device <= auth.device + 1
    BY <1>1, <1>4, <1>5 DEF AuthTyped
  <2> QED BY <1>1, <1>4, <1>5, <2>1, RestIsTyped DEF ShownTyped, ServerTyped, RestTyped
<1>6. CASE /\ auth' = [auth EXCEPT !.user = NoUser, !.device = auth.device + 1]
           /\ IdentityEffect(NoUser, auth.device + 1, jar, Rest(r))
  <2> DEFINE next == auth.device + 1
  <2>3. auth' = [auth EXCEPT !.user = NoUser, !.device = next] /\ next \in 0..MaxOps
    BY <1>3, <1>6
  <2> HIDE DEF next
  <2>4. /\ auth' \in [user : Users \cup {NoUser}, loading : BOOLEAN,
                      generation : Nat, device : 0..MaxOps]
        /\ auth'.device = next /\ auth'.generation = auth.generation
    BY <2>3 DEF AuthTyped
  <2>5. next \in Int /\ next <= auth.device + 1
    BY <1>3 DEF next
  <2>1. AuthTyped' /\ auth'.device <= auth.device + 1
    BY <1>1, <1>4, <2>4, <2>5 DEF AuthTyped
  <2>2. ShownTyped' /\ RequestsTyped'
    BY <1>2, <1>3, <1>4, <1>6, EffectTyped
  <2> QED BY <1>1, <1>4, <2>1, <2>2 DEF ServerTyped, RestTyped
<1> QED BY <1>5, <1>6 DEF AnswerLogout, jar

LEMMA ListedTyped ==
    ASSUME NEW got \in [Events -> Held \cup Shown]
    PROVE  Listed(got) \in Views
BY DEF Listed, Shown, Held, Views

LEMMA RolledBackTyped ==
    ASSUME Typed, NEW r \in WriteRequests
    PROVE  RolledBack(r) \in Views
<1>1. view \in Views /\ r.before \in Views /\ r.event \in Events
  BY DEF Typed, ShownTyped, WriteRequests
<1>2. [view EXCEPT !.audience = r.before.audience] \in Views
  BY <1>1 DEF Views
<1> DEFINE ids == IF r.action = "remove" THEN view.ids \cup {r.event}
                  ELSE view.ids \ {r.event}
<1>3. [view EXCEPT !.ids = ids] \in Views
  BY <1>1 DEF Views
<1> QED BY <1>1, <1>2, <1>3 DEF RolledBack

LEMMA AnswerReadWriteTyped ==
    ASSUME Typed, NEW r \in inflight, NEW o,
           AnswerList(r, o) \/ AnswerWrite(r, o) \/ AnswerClear(r, o)
    PROVE  Typed'
<1> USE DEF Typed
<1>1. /\ UNCHANGED <<provider, cookie, auth, rows, deleted, ops>>
      /\ inflight' = Rest(r)
  BY DEF AnswerList, AnswerWrite, AnswerClear
<1>2. r \in Requests /\ RequestsTyped'
  BY <1>1, RestIsTyped
<1>3. AuthTyped' /\ ServerTyped'
  BY <1>1 DEF AuthTyped, ServerTyped
<1>4. CASE AnswerList(r, o)
  <2>1. r \in ListRequests
    BY <1>2, <1>4, KindTyped DEF AnswerList
  <2>2. synced' \in Identities \cup {NoIdentity} /\ unsaved' = unsaved
    BY <1>4, <2>1 DEF AnswerList, Settled, RestTyped, ListRequests
  <2> DEFINE got == IF o = "ok" THEN r.result ELSE NoRows
  <2>3. got \in [Events -> Held \cup Shown]
    BY <2>1 DEF ListRequests, NoRows, Held
  <2>4. Listed(got) \in Views
    BY <2>3, ListedTyped
  <2>5. SetView(Listed(got)) \/ UNCHANGED <<view, storage, identity>>
    BY <1>4 DEF AnswerList
  <2> HIDE DEF got
  <2>6. ShownTyped'
    BY <2>4, <2>5, SetViewTyped DEF ShownTyped
  <2> QED BY <1>1, <1>2, <1>3, <2>2, <2>6 DEF RestTyped
<1>5. CASE AnswerWrite(r, o)
  <2>1. RolledBack(r) \in Views
    BY <1>2, <1>5, KindTyped, RolledBackTyped DEF AnswerWrite
  <2>2. SetView(RolledBack(r)) \/ UNCHANGED <<view, storage, identity>>
    BY <1>5 DEF AnswerWrite
  <2>3. ShownTyped'
    BY <2>1, <2>2, SetViewTyped DEF ShownTyped
  <2> QED BY <1>1, <1>2, <1>3, <1>5, <2>3 DEF RestTyped, AnswerWrite
<1>6. CASE AnswerClear(r, o)
  <2> DEFINE failed == unsaved \cup (IF o = "ok" THEN {} ELSE {r.event})
  <2>1. r.event \in Events
    BY <1>2, <1>6, KindTyped DEF AnswerClear, ClearRequests
  <2>2. failed \in SUBSET Events
    BY <2>1 DEF RestTyped
  <2>3. [view EXCEPT !.ids = view.ids \cup failed] \in Views
    BY <2>2 DEF ShownTyped, Views
  <2>4. /\ unsaved' = {} \/ unsaved' = failed
        /\ SetView([view EXCEPT !.ids = view.ids \cup failed])
             \/ UNCHANGED <<view, storage, identity>>
        /\ synced' = synced
    BY <1>6 DEF AnswerClear
  <2> HIDE DEF failed
  <2>5. ShownTyped'
    BY <2>3, <2>4, SetViewTyped DEF ShownTyped
  <2> QED BY <1>1, <1>2, <1>3, <2>2, <2>4, <2>5 DEF RestTyped
<1> QED BY <1>4, <1>5, <1>6

LEMMA AnswerTyped ==
    ASSUME Typed, Rotations, NEW r \in inflight, Answer(r)
    PROVE  Typed'
BY AnswerMeTyped, AnswerLoginTyped, AnswerLogoutTyped, AnswerReadWriteTyped DEF Answer

\* The steps of the specification, by what they do to the requests.
LEMMA Steps ==
    ASSUME [Next]_vars
    PROVE  \/ (\E u \in Users : Login(u)) \/ Logout \/ DeleteAccount \/ RefreshUser
           \/ WriteStep \/ ClearAll
           \/ (\E r \in inflight : Serve(r)) \/ (\E r \in inflight : Answer(r))
           \/ UNCHANGED vars
BY DEF Next, Act, WriteStep

LEMMA TypedStep ==
    ASSUME Typed, Rotations, [Next]_vars
    PROVE  Typed'
<1>1. CASE UNCHANGED vars
  BY <1>1 DEF vars, Typed, AuthTyped, ShownTyped, RequestsTyped, Numbered,
              ServerTyped, RestTyped
<1> QED BY <1>1, Steps, AuthStepTyped, WriteStepTyped, ClearAllTyped, ServeTyped, AnswerTyped

\* An operation of AuthContext adds one request.
LEMMA AuthStepSends ==
    ASSUME Typed
    PROVE  /\ \A u \in Users : Login(u) =>
                /\ inflight' = inflight \cup {LoginRequest(u)}
                /\ LoginRequest(u) \notin inflight
           /\ Logout => /\ inflight' = inflight \cup {Request("logout")}
                        /\ Request("logout") \notin inflight
           /\ DeleteAccount => /\ inflight' = inflight \cup {Request("delete")}
                               /\ Request("delete") \notin inflight
           /\ RefreshUser => /\ inflight' = inflight \cup {MeRequest}
                             /\ MeRequest \notin inflight
<1>1. ASSUME NEW r, Operation(r), r.n = Slot(inflight)
      PROVE  inflight' = inflight \cup {r} /\ r \notin inflight
  BY <1>1, SlotFree DEF Operation
<1>2. /\ \A u \in Users : LoginRequest(u).n = Slot(inflight)
      /\ \A k : Request(k).n = Slot(inflight)
      /\ MeRequest.n = Slot(inflight)
  BY DEF LoginRequest, Request, MeRequest
<1> QED BY <1>1, <1>2 DEF Login, Logout, DeleteAccount, RefreshUser

\* A write of a provider adds one request, clearAll some.
LEMMA WriteStepSends ==
    ASSUME Typed, WriteStep
    PROVE  \E e \in Events, action \in {"add", "remove", "audience"},
              a \in Audiences \cup {NoAudience} :
                /\ WriteRequest(e, action, a) \notin inflight
                /\ inflight' = inflight \cup {WriteRequest(e, action, a)}
<1>1. ASSUME NEW r, Operation(r), r.n = Slot(inflight)
      PROVE  inflight' = inflight \cup {r} /\ r \notin inflight
  BY <1>1, SlotFree DEF Operation
<1>2. \A e, action, a : WriteRequest(e, action, a).n = Slot(inflight)
  BY DEF WriteRequest
<1>3. \E e \in Events, action \in {"add", "remove", "audience"},
         a \in Audiences \cup {NoAudience} : Operation(WriteRequest(e, action, a))
  BY DEF WriteStep, ToggleSave, ToggleAttending, SetAudience
<1> QED BY <1>1, <1>2, <1>3

\* They add writes only.
LEMMA WriteStepOthers ==
    ASSUME Typed, WriteStep \/ ClearAll
    PROVE  /\ inflight \subseteq inflight'
           /\ \A q \in inflight' : q \notin inflight => q.kind \in {"write", "clear"}
           /\ \A k : k \notin {"write", "clear"} => Sent(k)' = Sent(k)
           /\ AuthOps' = AuthOps
<1>1. CASE WriteStep
  <2>1. \A e, action, a : WriteRequest(e, action, a).kind = "write"
    BY DEF WriteRequest
  <2>2. \E r : r.kind = "write" /\ inflight' = inflight \cup {r}
    BY <1>1, <2>1, WriteStepSends
  <2> QED BY <2>2 DEF Sent, AuthOps
<1>2. CASE ClearAll
  <2>1. \A e, i : ClearRequest(e, i).kind = "clear"
    BY DEF ClearRequest
  <2>2. PICK slots \in [view.ids -> FreeSlots(inflight)] :
          inflight' = inflight \cup {ClearRequest(e, slots[e]) : e \in view.ids}
    BY <1>2 DEF ClearAll
  <2>3. /\ inflight \subseteq inflight'
        /\ \A q \in inflight' : q \notin inflight => q.kind = "clear"
    BY <2>1, <2>2
  <2> QED BY <2>3 DEF Sent, AuthOps
<1> QED BY <1>1, <1>2

LEMMA AuthOpsStep ==
    ASSUME Typed, [Next]_vars
    PROVE  /\ (\E u \in Users : Login(u)) \/ Logout \/ DeleteAccount =>
                \E r : r \notin AuthOps /\ AuthOps' = AuthOps \cup {r}
           /\ RefreshUser \/ WriteStep \/ ClearAll \/ UNCHANGED vars => AuthOps' = AuthOps
           /\ \A r \in inflight : Serve(r) =>
                IF r \in AuthOps THEN AuthOps' = (AuthOps \ {r}) \cup {Served(r)}
                ELSE AuthOps' = AuthOps
           /\ \A r \in inflight : Answer(r) => AuthOps' = AuthOps \ {r}
<1>1. (\E u \in Users : Login(u)) \/ Logout \/ DeleteAccount =>
          \E r : r \notin AuthOps /\ AuthOps' = AuthOps \cup {r}
  <2>1. /\ \A u \in Users : LoginRequest(u).kind = "login"
        /\ Request("logout").kind = "logout" /\ Request("delete").kind = "delete"
    BY DEF LoginRequest, Request
  <2>2. ASSUME NEW r, r \notin inflight, inflight' = inflight \cup {r},
               r.kind \in {"login", "logout", "delete"}
        PROVE  r \notin AuthOps /\ AuthOps' = AuthOps \cup {r}
    BY <2>2 DEF AuthOps
  <2> QED BY <2>1, <2>2, AuthStepSends
<1>2. RefreshUser \/ WriteStep \/ ClearAll \/ UNCHANGED vars => AuthOps' = AuthOps
  <2>1. CASE RefreshUser
    <3>1. MeRequest.kind = "me"
      BY DEF MeRequest
    <3> QED BY <2>1, <3>1, AuthStepSends DEF AuthOps
  <2>2. CASE WriteStep \/ ClearAll
    BY <2>2, WriteStepOthers
  <2>3. CASE UNCHANGED vars
    BY <2>3 DEF vars, AuthOps
  <2> QED BY <2>1, <2>2, <2>3
<1>3. ASSUME NEW r \in inflight, Serve(r)
      PROVE  IF r \in AuthOps THEN AuthOps' = (AuthOps \ {r}) \cup {Served(r)}
             ELSE AuthOps' = AuthOps
  <2>1. Served(r).kind = r.kind
    BY ServedTyped
  <2>2. inflight' = (inflight \ {r}) \cup {Served(r)}
    BY <1>3 DEF Serve
  <2> QED BY <2>1, <2>2 DEF AuthOps
<1>4. ASSUME NEW r \in inflight, Answer(r) PROVE AuthOps' = AuthOps \ {r}
  <2>1. Others(inflight') = Others(inflight) \ {r}
    BY <1>4, AnswerOthers DEF Typed
  <2>2. \A q : q \in AuthOps' <=> q \in Others(inflight') /\ q.kind \in {"login", "logout", "delete"}
    BY DEF AuthOps, Others
  <2>3. \A q : q \in AuthOps <=> q \in Others(inflight) /\ q.kind \in {"login", "logout", "delete"}
    BY DEF AuthOps, Others
  <2> QED BY <2>1, <2>2, <2>3
<1> QED BY <1>1, <1>2, <1>3, <1>4

LEMMA RotationsStep ==
    ASSUME Typed, Rotations, [Next]_vars
    PROVE  Rotations'
<1> USE DEF Rotations
<1>1. RequestsTyped /\ Cardinality(AuthOps) \in Nat
  BY AuthOpsFinite DEF Typed
<1>2. cookie.aid \in Nat /\ auth.device \in Nat /\ ops \in Nat
  BY ConstantsTyped DEF Typed, AuthTyped, Jars
<1>3. CASE (\E u \in Users : Login(u)) \/ Logout \/ DeleteAccount
  <2>1. Cardinality(AuthOps') = Cardinality(AuthOps) + 1
    BY <1>1, <1>3, AuthOpsStep, AuthOpStarted
  <2>2. ops' = ops + 1 /\ cookie' = cookie /\ auth' = Bump
    BY <1>3 DEF Login, Logout, DeleteAccount, Operation, AuthUnchanged
  <2>3. auth'.device = auth.device
    BY <2>2 DEF Bump, Typed, AuthTyped
  <2> QED BY <1>1, <1>2, <2>1, <2>2, <2>3
<1>4. CASE RefreshUser \/ WriteStep \/ ClearAll \/ UNCHANGED vars
  <2>1. AuthOps' = AuthOps
    BY <1>4, AuthOpsStep
  <2>2. cookie' = cookie /\ (ops' = ops \/ ops' = ops + 1) /\ (auth' = auth \/ auth' = Bump)
    BY <1>4 DEF RefreshUser, WriteStep, ToggleSave, ToggleAttending, SetAudience,
                ClearAll, Operation, AuthUnchanged, WriteUnchanged, vars
  <2>3. auth'.device = auth.device
    BY <2>2 DEF Bump, Typed, AuthTyped
  <2> QED BY <1>1, <1>2, <2>1, <2>2, <2>3
<1>5. ASSUME NEW r \in inflight, Serve(r) PROVE Rotations'
  <2>1. UNCHANGED <<cookie, auth, ops>>
    BY <1>5 DEF Serve
  <2>2. Served(r) \notin AuthOps \ {r}
    <3>1. \A q \in inflight \ {r} : q.n # Served(r).n
      <4>1. Served(r).n = r.n
        BY ServedTyped
      <4> QED BY <4>1 DEF Typed, RequestsTyped, Numbered
    <3> QED BY <3>1 DEF AuthOps
  <2>3. Cardinality(AuthOps') = Cardinality(AuthOps)
    BY <1>1, <1>5, <2>2, AuthOpsStep, AuthOpServed
  <2> QED BY <2>1, <2>3
<1>6. ASSUME NEW r \in inflight, Answer(r) PROVE Rotations'
  <2>1. AuthOps' = AuthOps \ {r} /\ ops' = ops
    BY <1>6, AuthOpsStep DEF Answer, AnswerMe, AnswerLogin, AnswerLogout, AnswerList,
                             AnswerWrite, AnswerClear
  <2>2. CASE r \in AuthOps
    <3>1. Cardinality(AuthOps') = Cardinality(AuthOps) - 1
      BY <1>1, <2>1, <2>2, AuthOpAnswered
    <3>2. cookie'.aid \in Nat /\ auth'.device \in Nat
      BY <1>6, TypedStep, ConstantsTyped DEF Typed, AuthTyped, Jars
    <3>3. cookie'.aid <= cookie.aid + 1 /\ auth'.device <= auth.device + 1
      <4>1. (\E o : AnswerLogin(r, o)) \/ (\E o : AnswerLogout(r, o))
        BY <1>6, <2>2 DEF AuthOps, Answer, AnswerMe, AnswerList, AnswerWrite, AnswerClear
      <4>2. ASSUME NEW o, AnswerLogin(r, o)
            PROVE  cookie'.aid = cookie.aid /\ auth'.device = auth.device
        BY <4>2 DEF AnswerLogin, LoggedIn, Typed, AuthTyped, Jars
      <4> QED BY <1>2, <4>1, <4>2, AnswerLogoutTyped
    <3> QED BY <1>1, <1>2, <2>1, <3>1, <3>2, <3>3
  <2>3. CASE r \notin AuthOps
    <3>1. AuthOps' = AuthOps
      BY <2>1, <2>3
    <3>2. cookie' = cookie /\ auth'.device = auth.device
      <4>1. (\E o : AnswerMe(r, o)) \/ UNCHANGED <<cookie, auth>>
        BY <1>6, <2>3 DEF AuthOps, Answer, AnswerLogin, AnswerLogout, AnswerList,
                          AnswerWrite, AnswerClear
      <4> QED BY <4>1 DEF AnswerMe, Typed, AuthTyped
    <3> QED BY <2>1, <3>1, <3>2
  <2> QED BY <2>2, <2>3
<1> QED BY <1>3, <1>4, <1>5, <1>6, Steps

----------------------------------------------------------------------------
(* The session shown *)

\* What the steps do to AuthContext's state.
LEMMA AuthStepChanges ==
    ASSUME Typed, (\E u \in Users : Login(u)) \/ Logout \/ DeleteAccount \/ RefreshUser
    PROVE  /\ auth'.generation = auth.generation + 1 /\ auth'.user = auth.user
           /\ auth'.loading = auth.loading /\ auth'.device = auth.device
           /\ UNCHANGED <<provider, cookie, identity, view, storage, rows, deleted, unsaved>>
           /\ met' = met \cup Overlap
<1>1. auth' = Bump /\ met' = met \cup Overlap
      /\ UNCHANGED <<provider, cookie, identity, view, storage, rows, deleted, unsaved>>
  BY DEF Login, Logout, DeleteAccount, RefreshUser, AuthUnchanged
<1> QED BY <1>1 DEF Bump, Typed, AuthTyped

LEMMA WriteStepChanges ==
    ASSUME WriteStep \/ ClearAll
    PROVE  UNCHANGED <<provider, cookie, auth, identity, synced, rows, deleted, unsaved>>
           /\ met \subseteq met'
BY DEF WriteStep, ToggleSave, ToggleAttending, SetAudience, ClearAll, WriteUnchanged, SetView

\* Races and faults are never forgotten.
LEMMA MetGrows ==
    ASSUME [Next]_vars
    PROVE  met \subseteq met'
<1>1. ASSUME NEW r, Answer(r) PROVE met \subseteq met'
  BY <1>1 DEF Answer, AnswerMe, AnswerLogin, AnswerLogout, AnswerList, AnswerWrite,
              AnswerClear, Met
<1>2. ASSUME NEW r, Serve(r) PROVE met' = met
  BY <1>2 DEF Serve
<1>3. (\E u \in Users : Login(u)) \/ Logout \/ DeleteAccount \/ RefreshUser
        => met \subseteq met'
  BY DEF Login, Logout, DeleteAccount, RefreshUser
<1>4. UNCHANGED vars => met' = met
  BY DEF vars
<1> QED BY <1>1, <1>2, <1>3, <1>4, Steps, WriteStepChanges

\* The reads of the session under way: the first is the mount's, of generation
\* one, and there is one at most.
ReadsInv ==
    /\ identity = identityKey(auth.user, auth.device)
    /\ \A r \in Sent("me") : r.gen <= auth.generation /\ (r.first <=> r.gen = 1)
    /\ \A r, s \in Sent("me") : r.first /\ s.first => r = s

\* The mount's read, unless an operation has overtaken it.
FirstRead == {r \in Sent("me") : r.first /\ r.gen = auth.generation}

LEMMA ReadsInit == Init => ReadsInv
<1> SUFFICES ASSUME Init PROVE ReadsInv
  OBVIOUS
<1> DEFINE m == [n |-> 1, kind |-> "me", jar |-> cookie, served |-> FALSE,
                 by |-> Anon(0), gen |-> 1, first |-> TRUE, result |-> NoUser]
           l == [n |-> 2, kind |-> "list", jar |-> cookie, served |-> FALSE,
                 by |-> Anon(0), live |-> TRUE, result |-> Unknown]
<1>1. inflight = {m, l} /\ m.gen = 1 /\ m.first = TRUE /\ l.kind = "list"
  BY DEF Init
<1>2. auth.user = NoUser /\ auth.device = 0 /\ auth.generation = 1 /\ identity = Anon(0)
  BY DEF Init
<1> HIDE DEF m, l
<1> QED BY <1>1, <1>2 DEF ReadsInv, Sent, identityKey

LEMMA ReadsStep ==
    ASSUME Typed, ReadsInv, [Next]_vars
    PROVE  ReadsInv'
<1> USE DEF ReadsInv
<1>1. auth.generation \in Nat /\ auth.generation >= 1
  BY DEF Typed, AuthTyped
<1>2. CASE (\E u \in Users : Login(u)) \/ Logout \/ DeleteAccount
  <2>1. Sent("me")' = Sent("me")
    <3>1. /\ \A u \in Users : LoginRequest(u).kind = "login"
          /\ Request("logout").kind = "logout" /\ Request("delete").kind = "delete"
      BY DEF LoginRequest, Request
    <3>2. \E r : inflight' = inflight \cup {r} /\ r.kind # "me"
      BY <1>2, <3>1, AuthStepSends
    <3> QED BY <3>2 DEF Sent
  <2>2. \A r \in Sent("me") : r.gen \in Nat
    BY KindTyped DEF Sent, Typed, RequestsTyped, MeRequests
  <2> QED BY <1>1, <1>2, <2>1, <2>2, AuthStepChanges
<1>3. CASE RefreshUser
  <2>1. inflight' = inflight \cup {MeRequest} /\ MeRequest.gen = auth.generation + 1
        /\ MeRequest.first = FALSE
    BY <1>3, AuthStepSends DEF MeRequest
  <2>2. \A r \in Sent("me") : r.gen \in Nat
    BY KindTyped DEF Sent, Typed, RequestsTyped, MeRequests
  <2>3. \A r \in Sent("me")' : r \in Sent("me") \/ r = MeRequest
    BY <2>1 DEF Sent
  <2> QED BY <1>1, <1>3, <2>1, <2>2, <2>3, AuthStepChanges
<1>4. CASE WriteStep \/ ClearAll
  <2>1. Sent("me")' = Sent("me")
    BY <1>4, WriteStepOthers
  <2> QED BY <1>4, <2>1, WriteStepChanges
<1>5. ASSUME NEW r \in inflight, Serve(r) PROVE ReadsInv'
  <2>1. UNCHANGED <<auth, identity>> /\ inflight' = (inflight \ {r}) \cup {Served(r)}
    BY <1>5 DEF Serve
  <2>2. Served(r).kind = r.kind
        /\ (r.kind = "me" => Served(r).gen = r.gen /\ Served(r).first = r.first)
    BY ServedTyped
  <2>3. \A q \in Sent("me")' : \/ q \in Sent("me") /\ q # r
                               \/ q = Served(r) /\ r \in Sent("me")
    BY <2>1, <2>2 DEF Sent
  <2>4. \A q \in Sent("me")' : q.gen <= auth.generation /\ (q.first <=> q.gen = 1)
    BY <2>2, <2>3 DEF Sent
  <2>5. \A q, s \in Sent("me")' : q.first /\ s.first => q = s
    BY <2>2, <2>3 DEF Sent
  <2> QED BY <2>1, <2>4, <2>5
<1>6. ASSUME NEW r \in inflight, Answer(r) PROVE ReadsInv'
  <2>1. Sent("me")' \subseteq Sent("me")
    <3>1. Others(inflight') = Others(inflight) \ {r}
      BY <1>6, AnswerOthers DEF Typed
    <3> QED BY <3>1 DEF Others, Sent
  <2>2. auth'.generation = auth.generation
    BY <1>6 DEF Answer, AnswerMe, AnswerLogin, AnswerLogout, AnswerList, AnswerWrite,
                AnswerClear, LoggedIn, Typed, AuthTyped
  <2>3. identity' = identityKey(auth'.user, auth'.device)
    <3>1. Rest(r) \in SUBSET Requests /\ Numbered(Rest(r))
      BY RestIsTyped DEF Typed
    <3>2. ASSUME NEW u, NEW d, NEW jar, IdentityEffect(u, d, jar, Rest(r))
          PROVE  identity' = identityKey(u, d)
      BY <3>1, <3>2, EffectLists
    <3>3. ASSUME NEW o, AnswerMe(r, o) PROVE identity' = identityKey(auth'.user, auth'.device)
      <4> DEFINE u == IF o = "ok" THEN r.result ELSE NoUser
      <4>1. \/ auth' = auth /\ identity' = identity
            \/ /\ auth' = [auth EXCEPT !.user = u, !.loading = auth.loading /\ ~r.first]
               /\ IdentityEffect(u, auth.device, cookie, Rest(r))
        BY <3>3 DEF AnswerMe
      <4> HIDE DEF u
      <4>2. CASE /\ auth' = [auth EXCEPT !.user = u, !.loading = auth.loading /\ ~r.first]
                 /\ IdentityEffect(u, auth.device, cookie, Rest(r))
        <5>1. auth'.user = u /\ auth'.device = auth.device
          BY <4>2 DEF Typed, AuthTyped
        <5> QED BY <3>2, <4>2, <5>1
      <4> QED BY <4>1, <4>2
    <3>4. ASSUME NEW o, AnswerLogin(r, o) PROVE identity' = identityKey(auth'.user, auth'.device)
      <4>1. \/ auth' = auth /\ identity' = identity
            \/ auth' = LoggedIn(r.as) /\ IdentityEffect(r.as, auth.device, cookie', Rest(r))
        BY <3>4 DEF AnswerLogin
      <4>2. CASE auth' = LoggedIn(r.as) /\ IdentityEffect(r.as, auth.device, cookie', Rest(r))
        <5>1. auth'.user = r.as /\ auth'.device = auth.device
          BY <4>2 DEF LoggedIn, Typed, AuthTyped
        <5> QED BY <3>2, <4>2, <5>1
      <4> QED BY <4>1, <4>2
    <3>5. ASSUME NEW o, AnswerLogout(r, o) PROVE identity' = identityKey(auth'.user, auth'.device)
      <4>1. \/ auth' = auth /\ identity' = identity
            \/ /\ auth' = [auth EXCEPT !.user = NoUser, !.device = auth.device + 1]
               /\ IdentityEffect(NoUser, auth.device + 1, cookie', Rest(r))
        BY <3>5 DEF AnswerLogout
      <4>2. CASE /\ auth' = [auth EXCEPT !.user = NoUser, !.device = auth.device + 1]
                 /\ IdentityEffect(NoUser, auth.device + 1, cookie', Rest(r))
        <5>1. auth'.user = NoUser /\ auth'.device = auth.device + 1
          BY <4>2 DEF Typed, AuthTyped
        <5> QED BY <3>2, <4>2, <5>1
      <4> QED BY <4>1, <4>2
    <3>6. ASSUME NEW o, AnswerList(r, o) \/ AnswerWrite(r, o) \/ AnswerClear(r, o)
          PROVE  UNCHANGED <<auth, identity>>
      BY <3>6 DEF AnswerList, AnswerWrite, AnswerClear, SetView
    <3> QED BY <1>6, <3>3, <3>4, <3>5, <3>6 DEF Answer
  <2> QED BY <2>1, <2>2, <2>3
<1>7. CASE UNCHANGED vars
  BY <1>7 DEF vars, Sent
<1> QED BY <1>2, <1>3, <1>4, <1>5, <1>6, <1>7, Steps

\* While the page loads nobody is shown, only sign-ins have been started, and
\* either the mount's read or a sign-in is still going to end it.
LoadingInv ==
    auth.loading =>
        /\ auth.user = NoUser
        /\ \A r \in inflight : r.kind \notin {"logout", "delete"} /\ (r.kind = "me" => r.first)
        /\ "loadOvertaken" \in met \/ FirstRead # {} \/ Sent("login") # {}

LEMMA LoadingInit == Init => LoadingInv
<1> SUFFICES ASSUME Init PROVE LoadingInv
  OBVIOUS
<1> DEFINE m == [n |-> 1, kind |-> "me", jar |-> cookie, served |-> FALSE,
                 by |-> Anon(0), gen |-> 1, first |-> TRUE, result |-> NoUser]
           l == [n |-> 2, kind |-> "list", jar |-> cookie, served |-> FALSE,
                 by |-> Anon(0), live |-> TRUE, result |-> Unknown]
<1>1. /\ inflight = {m, l} /\ m.gen = 1 /\ m.first = TRUE /\ l.kind = "list"
      /\ m.kind = "me"
  BY DEF Init
<1>2. auth.user = NoUser /\ auth.generation = 1
  BY DEF Init
<1> HIDE DEF m, l
<1>3. m \in FirstRead
  BY <1>1, <1>2 DEF FirstRead, Sent
<1> QED BY <1>1, <1>2, <1>3 DEF LoadingInv

LEMMA LoadingStep ==
    ASSUME Typed, LoadingInv, [Next]_vars
    PROVE  LoadingInv'
<1> SUFFICES ASSUME auth'.loading
             PROVE  /\ auth'.user = NoUser
                    /\ \A r \in inflight' : /\ r.kind \notin {"logout", "delete"}
                                            /\ r.kind = "me" => r.first
                    /\ "loadOvertaken" \in met' \/ FirstRead' # {} \/ Sent("login")' # {}
  BY DEF LoadingInv
<1> USE DEF LoadingInv
<1>1. CASE \E u \in Users : Login(u)
  <2>1. PICK u \in Users : Login(u)
    BY <1>1
  <2>2. inflight' = inflight \cup {LoginRequest(u)} /\ LoginRequest(u).kind = "login"
    BY <2>1, AuthStepSends DEF LoginRequest
  <2>3. Sent("login")' # {}
    BY <2>2 DEF Sent
  <2> QED BY <1>1, <2>2, <2>3, AuthStepChanges
<1>2. CASE Logout \/ DeleteAccount \/ RefreshUser
  <2>1. auth.user # NoUser
    BY <1>2 DEF Logout, DeleteAccount, RefreshUser
  <2> QED BY <1>2, <2>1, AuthStepChanges
<1>3. CASE WriteStep \/ ClearAll
  <2>1. Sent("me")' = Sent("me") /\ Sent("login")' = Sent("login") /\ auth' = auth
    BY <1>3, WriteStepOthers, WriteStepChanges
  <2>2. FirstRead' = FirstRead
    BY <2>1 DEF FirstRead
  <2> QED BY <1>3, <2>1, <2>2, MetGrows, WriteStepOthers
<1>4. ASSUME NEW r \in inflight, Serve(r)
      PROVE  /\ auth'.user = NoUser
             /\ \A q \in inflight' : /\ q.kind \notin {"logout", "delete"}
                                     /\ q.kind = "me" => q.first
             /\ "loadOvertaken" \in met' \/ FirstRead' # {} \/ Sent("login")' # {}
  <2>1. UNCHANGED <<auth, met>> /\ inflight' = (inflight \ {r}) \cup {Served(r)}
    BY <1>4 DEF Serve
  <2>2. Served(r).kind = r.kind
        /\ (r.kind = "me" => Served(r).gen = r.gen /\ Served(r).first = r.first)
    BY ServedTyped
  <2>3. FirstRead # {} => FirstRead' # {}
    <3>1. \A q \in FirstRead : q \in FirstRead' \/ Served(r) \in FirstRead'
      BY <2>1, <2>2 DEF FirstRead, Sent
    <3> QED BY <3>1
  <2>4. Sent("login") # {} => Sent("login")' # {}
    <3>1. \A q \in Sent("login") : q \in Sent("login")' \/ Served(r) \in Sent("login")'
      BY <2>1, <2>2 DEF Sent
    <3> QED BY <3>1
  <2> QED BY <2>1, <2>2, <2>3, <2>4
<1>5. ASSUME NEW r \in inflight, Answer(r)
      PROVE  /\ auth'.user = NoUser
             /\ \A q \in inflight' : /\ q.kind \notin {"logout", "delete"}
                                     /\ q.kind = "me" => q.first
             /\ "loadOvertaken" \in met' \/ FirstRead' # {} \/ Sent("login")' # {}
  <2>1. Others(inflight') = Others(inflight) \ {r}
    BY <1>5, AnswerOthers DEF Typed
  <2>2. auth.loading
    BY <1>5 DEF Answer, AnswerMe, AnswerLogin, AnswerLogout, AnswerList, AnswerWrite,
                AnswerClear, LoggedIn, Typed, AuthTyped
  <2>3. \A q \in inflight' : /\ q.kind \notin {"logout", "delete"}
                             /\ q.kind = "me" => q.first
    BY <2>1, <2>2 DEF Others
  <2>4. CASE \E o : AnswerMe(r, o)
    <3>1. ~CurrentGeneration(r) /\ r.kind = "me" /\ auth' = auth
      <4>1. r.kind = "me" /\ r.first
        BY <2>2, <2>4 DEF AnswerMe
      <4>2. auth' = auth \/ auth'.loading = (auth.loading /\ ~r.first)
        BY <2>4 DEF AnswerMe, Typed, AuthTyped
      <4>3. CurrentGeneration(r) => auth'.loading = (auth.loading /\ ~r.first)
        BY <2>4, <4>1 DEF AnswerMe, Typed, AuthTyped
      <4> QED BY <2>4, <4>1, <4>3 DEF AnswerMe
    <3>2. FirstRead' = FirstRead
      BY <2>1, <3>1 DEF FirstRead, Sent, Others, CurrentGeneration
    <3>3. Sent("login")' = Sent("login")
      BY <2>1, <3>1 DEF Sent, Others
    <3> QED BY <1>5, <2>2, <2>3, <3>1, <3>2, <3>3, MetGrows
  <2>5. CASE \E o : AnswerLogin(r, o)
    <3>1. PICK o : AnswerLogin(r, o)
      BY <2>5
    <3>2. o # "ok" /\ auth' = auth
      BY <3>1 DEF AnswerLogin, LoggedIn, Typed, AuthTyped
    <3>3. "loadOvertaken" \in met'
      BY <2>2, <3>1, <3>2 DEF AnswerLogin, Met
    <3> QED BY <2>2, <2>3, <3>2, <3>3
  <2>6. CASE \E o : AnswerLogout(r, o)
    BY <2>2, <2>6 DEF AnswerLogout
  <2>7. CASE \E o : AnswerList(r, o) \/ AnswerWrite(r, o) \/ AnswerClear(r, o)
    <3>1. r.kind \in {"list", "write", "clear"} /\ auth' = auth
      BY <2>7 DEF AnswerList, AnswerWrite, AnswerClear
    <3>2. FirstRead' = FirstRead /\ Sent("login")' = Sent("login")
      BY <2>1, <3>1 DEF FirstRead, Sent, Others
    <3> QED BY <1>5, <2>2, <2>3, <3>1, <3>2, MetGrows
  <2> QED BY <1>5, <2>4, <2>5, <2>6, <2>7 DEF Answer
<1>6. CASE UNCHANGED vars
  BY <1>6 DEF vars, Sent, FirstRead
<1> QED BY <1>1, <1>2, <1>3, <1>4, <1>5, <1>6, Steps

\* As long as no operation overlapped another and none failed half way:
\* one operation at a time,
OneAtATime == \A r, s \in AuthOps : r = s

\* a read that will be applied reads the present session,
ReadsPresent ==
    \A r \in Sent("me") : r.gen = auth.generation =>
        /\ AuthOps = {} /\ r.jar.user = cookie.user
        /\ r.served => r.result = cookie.user

\* the user shown is the session's, but for the mount's read and operations,
Agreed == AuthOps = {} /\ FirstRead = {} => auth.user = cookie.user

\* which start from agreement or before the mount's read,
SignsInFromNobody ==
    \A r \in Sent("login") :
        /\ auth.user = NoUser /\ (auth.loading \/ cookie.user = NoUser)
        /\ r.served => r.as \notin deleted
FirstShowsNobody == FirstRead # {} => auth.user = NoUser /\ auth.loading
ShownIsSession == auth.user # NoUser => cookie.user = auth.user

\* and a session outlives its account only until the answer arrives.
SessionLives == cookie.user \in deleted => \E r \in Sent("delete") : r.served

SessionInv ==
    ~AuthTrouble =>
        /\ OneAtATime /\ ReadsPresent /\ Agreed /\ SignsInFromNobody
        /\ FirstShowsNobody /\ ShownIsSession /\ SessionLives

LEMMA SessionInit == Init => SessionInv
<1> SUFFICES ASSUME Init PROVE SessionInv
  OBVIOUS
<1> DEFINE m == [n |-> 1, kind |-> "me", jar |-> cookie, served |-> FALSE,
                 by |-> Anon(0), gen |-> 1, first |-> TRUE, result |-> NoUser]
           l == [n |-> 2, kind |-> "list", jar |-> cookie, served |-> FALSE,
                 by |-> Anon(0), live |-> TRUE, result |-> Unknown]
<1>1. /\ inflight = {m, l} /\ m.gen = 1 /\ m.first = TRUE /\ l.kind = "list"
      /\ m.kind = "me" /\ m.jar = cookie /\ m.served = FALSE
  BY DEF Init
<1>2. auth.user = NoUser /\ auth.generation = 1 /\ auth.loading = TRUE /\ deleted = {}
  BY DEF Init
<1> HIDE DEF m, l
<1>3. FirstRead = {m} /\ AuthOps = {} /\ Sent("login") = {} /\ Sent("me") = {m}
  BY <1>1, <1>2 DEF FirstRead, Sent, AuthOps
<1> QED BY <1>1, <1>2, <1>3 DEF SessionInv, OneAtATime, ReadsPresent, Agreed,
           SignsInFromNobody, FirstShowsNobody, ShownIsSession, SessionLives

\* An operation starts with none under way.
LEMMA SessionAuthStep ==
    ASSUME Typed, ReadsInv, SessionInv, ~AuthTrouble',
           (\E u \in Users : Login(u)) \/ Logout \/ DeleteAccount \/ RefreshUser
    PROVE  SessionInv'
<1>1. met' = met \cup Overlap /\ AuthOps = {} /\ ~AuthTrouble
  BY AuthStepChanges DEF AuthTrouble, Overlap
<1>2. /\ auth'.generation = auth.generation + 1 /\ auth'.user = auth.user
      /\ auth'.loading = auth.loading /\ cookie' = cookie /\ deleted' = deleted
  BY AuthStepChanges
<1>3. /\ Agreed /\ FirstShowsNobody /\ ShownIsSession /\ SessionLives
  BY <1>1 DEF SessionInv
<1>4. \A r \in Sent("me") : r.gen \in Nat /\ r.gen < auth.generation + 1
  BY KindTyped DEF Sent, Typed, RequestsTyped, MeRequests, AuthTyped, ReadsInv
<1>5. cookie.user \notin deleted
  BY <1>1, <1>3 DEF SessionLives, AuthOps, Sent
<1>6. CASE RefreshUser
  <2>1. /\ inflight' = inflight \cup {MeRequest} /\ MeRequest.kind = "me"
        /\ MeRequest.first = FALSE /\ MeRequest.jar = cookie /\ MeRequest.served = FALSE
    BY <1>6, AuthStepSends DEF MeRequest
  <2>2. Sent("me")' = Sent("me") \cup {MeRequest} /\ AuthOps' = {}
        /\ Sent("login")' = {}
    BY <1>1, <2>1 DEF Sent, AuthOps
  <2>3. FirstRead' = {}
    BY <1>2, <1>4, <2>1, <2>2 DEF FirstRead
  <2>4. auth.user # NoUser
    BY <1>6 DEF RefreshUser
  <2>5. auth.user = cookie.user
    BY <1>3, <2>4 DEF ShownIsSession
  <2>6. ReadsPresent'
    BY <1>2, <1>4, <2>1, <2>2 DEF ReadsPresent
  <2> QED BY <1>1, <1>2, <1>3, <1>5, <2>2, <2>3, <2>5, <2>6
          DEF SessionInv, OneAtATime, Agreed, SignsInFromNobody, FirstShowsNobody,
              ShownIsSession, SessionLives
<1>7. CASE (\E u \in Users : Login(u)) \/ Logout \/ DeleteAccount
  <2>5. \E r : /\ r.kind \in {"login", "logout", "delete"} /\ inflight' = inflight \cup {r}
               /\ r.kind = "login" => auth.user = NoUser /\ r.served = FALSE
    <3>1. CASE \E u \in Users : Login(u)
      <4>1. PICK u \in Users : Login(u)
        BY <3>1
      <4>2. /\ LoginRequest(u).kind = "login" /\ LoginRequest(u).served = FALSE
            /\ inflight' = inflight \cup {LoginRequest(u)} /\ auth.user = NoUser
        BY <4>1, AuthStepSends DEF LoginRequest, Login
      <4> QED BY <4>2
    <3>2. CASE Logout \/ DeleteAccount
      <4>1. Request("logout").kind = "logout" /\ Request("delete").kind = "delete"
        BY DEF Request
      <4> QED BY <3>2, <4>1, AuthStepSends
    <3> QED BY <1>7, <3>1, <3>2
  <2>6. PICK r : /\ r.kind \in {"login", "logout", "delete"} /\ inflight' = inflight \cup {r}
                 /\ r.kind = "login" => auth.user = NoUser /\ r.served = FALSE
    BY <2>5
  <2>1. Sent("me")' = Sent("me") /\ AuthOps' = {r} /\ Sent("login")' \subseteq {r}
    BY <1>1, <2>6 DEF Sent, AuthOps
  <2>2. FirstRead' = {}
    BY <1>2, <1>4, <2>1 DEF FirstRead
  <2>3. ReadsPresent'
    BY <1>2, <1>4, <2>1 DEF ReadsPresent
  <2>4. SignsInFromNobody'
    <3>1. auth.user = NoUser => auth.loading \/ cookie.user = NoUser
      BY <1>1, <1>3 DEF Agreed, FirstShowsNobody
    <3>2. \A q \in Sent("login")' : q = r /\ r.kind = "login"
      BY <2>1 DEF Sent
    <3> QED BY <1>2, <2>6, <3>1, <3>2 DEF SignsInFromNobody
  <2> QED BY <1>1, <1>2, <1>3, <1>5, <2>1, <2>2, <2>3, <2>4
          DEF SessionInv, OneAtATime, Agreed, FirstShowsNobody, ShownIsSession, SessionLives
<1> QED BY <1>6, <1>7

LEMMA SessionServe ==
    ASSUME Typed, ReadsInv, SessionInv, ~AuthTrouble', NEW r \in inflight, Serve(r)
    PROVE  SessionInv'
<1>1. UNCHANGED <<cookie, auth, met>> /\ inflight' = (inflight \ {r}) \cup {Served(r)}
  BY DEF Serve
<1>2. ~AuthTrouble /\ OneAtATime /\ ReadsPresent /\ Agreed /\ SignsInFromNobody
      /\ FirstShowsNobody /\ ShownIsSession /\ SessionLives
  BY <1>1 DEF SessionInv, AuthTrouble
<1>3. Served(r).kind = r.kind /\ Served(r).served = TRUE /\ Served(r).jar = r.jar
  BY ServedTyped
<1>4. r.kind = "me" =>
        /\ Served(r).gen = r.gen /\ Served(r).first = r.first
        /\ Served(r).result = IF r.jar.user \in deleted THEN NoUser ELSE r.jar.user
  BY ServedTyped
<1>5. /\ deleted' = deleted \/ r.kind \in {"delete", "login"}
      /\ r.kind = "login" => deleted' = deleted \ {r.as} /\ Served(r).as = r.as
  BY ServedTyped DEF Serve
<1>6. AuthOps = {} <=> AuthOps' = {}
  BY <1>1, <1>3 DEF AuthOps
<1>7. \A q \in inflight' : \/ q \in inflight /\ q # r
                           \/ q = Served(r)
  BY <1>1
<1>8. \A q \in inflight : q \in inflight' \/ q = r
  BY <1>1
<1>9. FirstRead = {} <=> FirstRead' = {}
  <2>1. \A q \in FirstRead : q \in FirstRead' \/ Served(r) \in FirstRead'
    BY <1>1, <1>3, <1>4 DEF FirstRead, Sent
  <2>2. \A q \in FirstRead' : q \in FirstRead \/ r \in FirstRead
    BY <1>1, <1>3, <1>4 DEF FirstRead, Sent
  <2> QED BY <2>1, <2>2
<1>10. OneAtATime'
  <2>1. \A q \in AuthOps' : (q \in AuthOps /\ q # r) \/ (q = Served(r) /\ r \in AuthOps)
    BY <1>1, <1>3 DEF AuthOps
  <2>2. \A q, s \in AuthOps' : q = s
    BY <1>2, <2>1 DEF OneAtATime
  <2> QED BY <2>2 DEF OneAtATime
<1>11. ReadsPresent'
  <2> SUFFICES ASSUME NEW q \in Sent("me")', q.gen = auth'.generation
               PROVE  /\ AuthOps' = {} /\ q.jar.user = cookie'.user
                      /\ q.served => q.result = cookie'.user
    BY DEF ReadsPresent
  <2>1. CASE q \in inflight /\ q # r
    BY <1>1, <1>2, <1>6, <2>1 DEF ReadsPresent, Sent
  <2>2. CASE q = Served(r)
    <3>1. r \in Sent("me") /\ r.gen = auth.generation
      BY <1>1, <1>3, <1>4, <2>2 DEF Sent
    <3>2. AuthOps = {} /\ r.jar.user = cookie.user
      BY <1>2, <3>1 DEF ReadsPresent
    <3>3. cookie.user \notin deleted
      BY <1>2, <3>2 DEF SessionLives, Sent, AuthOps
    <3>4. Served(r).result = cookie.user
      BY <1>4, <3>1, <3>2, <3>3 DEF Sent
    <3>5. cookie' = cookie /\ AuthOps' = {}
      BY <1>1, <1>6, <3>2
    <3>6. q.jar.user = cookie.user /\ q.result = cookie.user
      BY <1>3, <2>2, <3>2, <3>4
    <3> QED BY <3>5, <3>6
  <2> QED BY <1>7, <2>1, <2>2 DEF Sent
<1>12. Agreed' /\ FirstShowsNobody' /\ ShownIsSession'
  BY <1>1, <1>2, <1>6, <1>9 DEF Agreed, FirstShowsNobody, ShownIsSession
<1>13. SignsInFromNobody'
  <2> SUFFICES ASSUME NEW q \in Sent("login")'
               PROVE  /\ auth'.user = NoUser /\ (auth'.loading \/ cookie'.user = NoUser)
                      /\ q.served => q.as \notin deleted'
    BY DEF SignsInFromNobody
  <2>1. CASE q \in inflight /\ q # r
    <3>1. q \in Sent("login") /\ q \in AuthOps
      BY <2>1 DEF Sent, AuthOps
    <3>2. r \notin AuthOps
      BY <1>2, <2>1, <3>1 DEF OneAtATime
    <3>3. deleted' = deleted
      BY <1>5, <3>2 DEF AuthOps
    <3> QED BY <1>1, <1>2, <3>1, <3>3 DEF SignsInFromNobody
  <2>2. CASE q = Served(r)
    <3>1. r \in Sent("login")
      BY <1>3, <2>2 DEF Sent
    <3>2. r.kind = "login"
      BY <3>1 DEF Sent
    <3>3. q.as \notin deleted'
      BY <1>5, <2>2, <3>2
    <3>4. auth.user = NoUser /\ (auth.loading \/ cookie.user = NoUser)
      BY <1>2, <3>1 DEF SignsInFromNobody
    <3>5. auth' = auth /\ cookie' = cookie
      BY <1>1
    <3> QED BY <3>3, <3>4, <3>5
  <2> QED BY <1>7, <2>1, <2>2 DEF Sent
<1>14. SessionLives'
  <2> SUFFICES ASSUME cookie.user \in deleted'
               PROVE  \E q \in Sent("delete")' : q.served
    BY <1>1 DEF SessionLives
  <2>1. CASE r.kind = "delete"
    <3>1. Served(r) \in Sent("delete")' /\ Served(r).served
      BY <1>1, <1>3, <2>1 DEF Sent
    <3> QED BY <3>1
  <2>2. CASE r.kind # "delete"
    <3>1. cookie.user \in deleted
      BY <1>5, <2>2
    <3>2. PICK q \in Sent("delete") : q.served
      BY <1>2, <3>1 DEF SessionLives
    <3>3. q \in Sent("delete")'
      BY <1>1, <2>2, <3>2 DEF Sent
    <3> QED BY <3>2, <3>3
  <2> QED BY <2>1, <2>2
<1> QED BY <1>10, <1>11, <1>12, <1>13, <1>14 DEF SessionInv

\* What an answer leaves of the requests the session depends on.
LEMMA AnswerKinds ==
    ASSUME Typed, NEW r \in inflight, Answer(r)
    PROVE  /\ AuthOps' = AuthOps \ {r}
           /\ \A k : k # "list" => Sent(k)' = Sent(k) \ {r}
           /\ Writes' = Writes \ {r}
<1>1. Others(inflight') = Others(inflight) \ {r}
  BY AnswerOthers DEF Typed
<1>2. ASSUME NEW k, k # "list" PROVE Sent(k)' = Sent(k) \ {r}
  <2>1. Sent(k) = {q \in Others(inflight) : q.kind = k}
    BY <1>2 DEF Sent, Others
  <2>2. Sent(k)' = {q \in Others(inflight') : q.kind = k}
    BY <1>2 DEF Sent, Others
  <2> QED BY <1>1, <2>1, <2>2
<1>3. /\ Writes = {q \in Others(inflight) : q.kind \in {"write", "clear"}}
      /\ Writes' = {q \in Others(inflight') : q.kind \in {"write", "clear"}}
  BY DEF Writes, Others
<1> QED BY <1>1, <1>2, <1>3, AuthOpsStep DEF Next

LEMMA AnswerNext ==
    ASSUME NEW r \in inflight, Answer(r)
    PROVE  [Next]_vars
BY DEF Next

\* The answer to a read of the present session shows the session's user.
LEMMA SessionAnswerMe ==
    ASSUME Typed, ReadsInv, SessionInv, ~AuthTrouble', NEW r \in inflight, Answer(r),
           NEW o, AnswerMe(r, o)
    PROVE  SessionInv'
<1>1. ~AuthTrouble /\ OneAtATime /\ ReadsPresent /\ Agreed /\ SignsInFromNobody
      /\ FirstShowsNobody /\ ShownIsSession /\ SessionLives
  <2>1. met \subseteq met'
    BY AnswerNext, MetGrows
  <2> QED BY <2>1 DEF SessionInv, AuthTrouble
<1>2. /\ r.kind = "me" /\ UNCHANGED <<cookie, deleted>>
      /\ Outcome(r, o)
  BY DEF AnswerMe
<1>3. AuthOps' = AuthOps /\ Sent("login")' = Sent("login") /\ Sent("delete")' = Sent("delete")
      /\ Sent("me")' = Sent("me") \ {r}
  BY <1>2, AnswerKinds DEF AuthOps, Sent
<1>4. r \in Sent("me")
  BY <1>2 DEF Sent
<1>5. CASE CurrentGeneration(r) /\ (r.first \/ (o = "ok" /\ r.result # NoUser))
  <2>1. o = "ok"
    BY <1>5 DEF AnswerMe, Met, AuthTrouble
  <2>2. AuthOps = {} /\ r.result = cookie.user
    BY <1>1, <1>2, <1>4, <1>5, <2>1 DEF ReadsPresent, CurrentGeneration, Outcome
  <2>3. auth' = [auth EXCEPT !.user = r.result, !.loading = auth.loading /\ ~r.first]
    BY <1>5, <2>1 DEF AnswerMe
  <2>4. /\ auth'.user = cookie.user /\ auth'.generation = auth.generation
        /\ auth'.loading = (auth.loading /\ ~r.first)
    BY <2>2, <2>3 DEF Typed, AuthTyped
  <2>5. FirstRead' = {}
    <3>1. CASE r.first
      <4>1. \A q \in Sent("me") : q.first => q = r
        BY <1>4, <3>1 DEF ReadsInv
      <4> QED BY <1>3, <4>1 DEF FirstRead
    <3>2. CASE ~r.first
      <4>1. \A q \in Sent("me") : q.gen = auth.generation => ~q.first
        BY <1>4, <1>5, <3>2 DEF ReadsInv, CurrentGeneration
      <4> QED BY <1>3, <2>4, <4>1 DEF FirstRead
    <3> QED BY <3>1, <3>2
  <2>6. ReadsPresent'
    BY <1>1, <1>2, <1>3, <2>4 DEF ReadsPresent
  <2>7. SignsInFromNobody'
    <3>1. Sent("login") = {}
      BY <2>2 DEF Sent, AuthOps
    <3> QED BY <1>3, <3>1 DEF SignsInFromNobody
  <2> QED BY <1>1, <1>2, <1>3, <2>2, <2>4, <2>5, <2>6, <2>7
          DEF SessionInv, OneAtATime, Agreed, FirstShowsNobody, ShownIsSession, SessionLives
<1>6. CASE ~(CurrentGeneration(r) /\ (r.first \/ (o = "ok" /\ r.result # NoUser)))
  <2>1. auth' = auth
    BY <1>6 DEF AnswerMe
  <2>2. FirstRead' = FirstRead
    BY <1>3, <1>6, <2>1 DEF FirstRead, CurrentGeneration
  <2>3. ReadsPresent'
    BY <1>1, <1>2, <1>3, <2>1 DEF ReadsPresent
  <2>4. SignsInFromNobody'
    BY <1>1, <1>2, <1>3, <2>1 DEF SignsInFromNobody
  <2> QED BY <1>1, <1>2, <1>3, <2>1, <2>2, <2>3, <2>4
          DEF SessionInv, OneAtATime, Agreed, FirstShowsNobody, ShownIsSession, SessionLives
<1> QED BY <1>5, <1>6

LEMMA SessionAnswerOperation ==
    ASSUME Typed, ReadsInv, SessionInv, ~AuthTrouble', NEW r \in inflight, Answer(r),
           NEW o, AnswerLogin(r, o) \/ AnswerLogout(r, o)
    PROVE  SessionInv'
<1>1. ~AuthTrouble /\ OneAtATime /\ ReadsPresent /\ Agreed /\ SignsInFromNobody
      /\ FirstShowsNobody /\ ShownIsSession /\ SessionLives
  <2>1. met \subseteq met'
    BY AnswerNext, MetGrows
  <2> QED BY <2>1 DEF SessionInv, AuthTrouble
<1>2. r \in AuthOps /\ deleted' = deleted /\ Outcome(r, o)
  BY DEF AnswerLogin, AnswerLogout, AuthOps
<1>3. AuthOps = {r} /\ AuthOps' = {} /\ Sent("me")' = Sent("me")
      /\ Sent("login")' = {}
  BY <1>1, <1>2, AnswerKinds DEF OneAtATime, AuthOps, Sent
<1>4. auth'.generation = auth.generation
  BY DEF AnswerLogin, AnswerLogout, LoggedIn, Typed, AuthTyped
<1>5. \A q \in Sent("me")' : q.gen # auth'.generation
  BY <1>1, <1>3, <1>4 DEF ReadsPresent
<1>6. ReadsPresent' /\ FirstShowsNobody' /\ OneAtATime' /\ SignsInFromNobody'
  BY <1>3, <1>5 DEF ReadsPresent, FirstShowsNobody, FirstRead, OneAtATime, SignsInFromNobody
<1>7. auth'.user = cookie'.user /\ cookie'.user \notin deleted
  <2>1. CASE AnswerLogin(r, o) /\ o = "ok"
    <3>1. cookie' = [cookie EXCEPT !.user = r.as] /\ auth' = LoggedIn(r.as)
      BY <2>1 DEF AnswerLogin
    <3>2. cookie'.user = r.as /\ auth'.user = r.as
      BY <3>1 DEF LoggedIn, Typed, AuthTyped, Jars
    <3>3. r \in Sent("login") /\ r.served
      BY <1>2, <2>1 DEF AnswerLogin, Sent, Outcome
    <3>4. r.as \notin deleted
      BY <1>1, <3>3 DEF SignsInFromNobody
    <3> QED BY <3>2, <3>4
  <2>2. CASE AnswerLogin(r, o) /\ o # "ok"
    <3>1. UNCHANGED <<cookie, auth>> /\ r \in Sent("login") /\ r.kind = "login"
      BY <2>2 DEF AnswerLogin, Sent
    <3>2. ~auth.loading
      BY <2>2 DEF AnswerLogin, Met, AuthTrouble
    <3>3. auth.user = NoUser /\ cookie.user = NoUser
      BY <1>1, <3>1, <3>2 DEF SignsInFromNobody
    <3>4. cookie.user \notin deleted
      BY <3>3, ConstantsTyped DEF Typed, ServerTyped
    <3> QED BY <3>1, <3>3, <3>4
  <2>3. CASE AnswerLogout(r, o)
    <3>1. o = "ok"
      BY <2>3 DEF AnswerLogout, Met, AuthTrouble
    <3>2. /\ cookie' = [user |-> NoUser, aid |-> cookie.aid + 1]
          /\ auth' = [auth EXCEPT !.user = NoUser, !.device = auth.device + 1]
      BY <2>3, <3>1 DEF AnswerLogout
    <3>3. cookie'.user = NoUser /\ auth'.user = NoUser
      BY <3>2 DEF Typed, AuthTyped
    <3> QED BY <3>3, ConstantsTyped DEF Typed, ServerTyped
  <2> QED BY <2>1, <2>2, <2>3
<1> QED BY <1>2, <1>6, <1>7 DEF SessionInv, Agreed, ShownIsSession, SessionLives

LEMMA SessionStep ==
    ASSUME Typed, ReadsInv, SessionInv, [Next]_vars
    PROVE  SessionInv'
<1> SUFFICES ASSUME ~AuthTrouble' PROVE SessionInv'
  BY DEF SessionInv
<1>1. ~AuthTrouble /\ OneAtATime /\ ReadsPresent /\ Agreed /\ SignsInFromNobody
      /\ FirstShowsNobody /\ ShownIsSession /\ SessionLives
  <2>1. met \subseteq met'
    BY MetGrows
  <2> QED BY <2>1 DEF SessionInv, AuthTrouble
<1>2. ASSUME UNCHANGED <<auth, cookie, deleted>>, AuthOps' = AuthOps,
             \A k \in {"me", "login", "delete"} : Sent(k)' = Sent(k)
      PROVE  SessionInv'
  <2>1. FirstRead' = FirstRead
    BY <1>2 DEF FirstRead
  <2> QED BY <1>1, <1>2, <2>1
          DEF SessionInv, OneAtATime, ReadsPresent, Agreed, SignsInFromNobody,
              FirstShowsNobody, ShownIsSession, SessionLives
<1>3. CASE WriteStep \/ ClearAll
  BY <1>2, <1>3, WriteStepOthers, WriteStepChanges
<1>4. ASSUME NEW r \in inflight, Answer(r) PROVE SessionInv'
  <2>1. CASE \E o : AnswerList(r, o) \/ AnswerWrite(r, o) \/ AnswerClear(r, o)
    <3>1. r.kind \in {"list", "write", "clear"} /\ UNCHANGED <<auth, cookie, deleted>>
      BY <2>1 DEF AnswerList, AnswerWrite, AnswerClear
    <3> QED BY <1>2, <1>4, <3>1, AnswerKinds DEF AuthOps, Sent
  <2> QED BY <1>4, <2>1, SessionAnswerMe, SessionAnswerOperation DEF Answer
<1>5. CASE UNCHANGED vars
  BY <1>2, <1>5 DEF vars, AuthOps, Sent
<1> QED BY <1>3, <1>4, <1>5, Steps, SessionAuthStep, SessionServe

----------------------------------------------------------------------------
(* The lists of the identity shown *)

\* A list that is not cancelled is the only one and reads for the identity shown.
LiveInv ==
    /\ \A r \in Live : r.by = identity
    /\ \A r, s \in Live : r = s

LEMMA LiveInit == Init => LiveInv
<1> SUFFICES ASSUME Init PROVE LiveInv
  OBVIOUS
<1> DEFINE m == [n |-> 1, kind |-> "me", jar |-> cookie, served |-> FALSE,
                 by |-> Anon(0), gen |-> 1, first |-> TRUE, result |-> NoUser]
           l == [n |-> 2, kind |-> "list", jar |-> cookie, served |-> FALSE,
                 by |-> Anon(0), live |-> TRUE, result |-> Unknown]
<1>1. /\ inflight = {m, l} /\ m.kind = "me" /\ l.by = Anon(0) /\ identity = Anon(0)
  BY DEF Init
<1> HIDE DEF m, l
<1> QED BY <1>1 DEF LiveInv, Live, Sent

\* An answer either goes on with the identity, and only loses its request, or
\* with another one, and then the only live list is a new one sent for it.
LEMMA AnswerLists ==
    ASSUME Typed, NEW r \in inflight, Answer(r)
    PROVE  \/ identity' = identity /\ inflight' = Rest(r)
           \/ /\ identity' # identity
              /\ \E new \in inflight' : /\ Live' = {new} /\ new.by = identity'
                                       /\ new.jar = cookie' /\ ~new.served
<1>1. Rest(r) \in SUBSET Requests /\ Numbered(Rest(r))
  BY RestIsTyped DEF Typed
<1>2. ASSUME NEW u, NEW d, IdentityEffect(u, d, cookie', Rest(r))
      PROVE  \/ identity' = identity /\ inflight' = Rest(r)
             \/ /\ identity' # identity
                /\ \E new \in inflight' : /\ Live' = {new} /\ new.by = identity'
                                         /\ new.jar = cookie' /\ ~new.served
  <2>1. PICK jar : jar = cookie'
    OBVIOUS
  <2>2. IdentityEffect(u, d, jar, Rest(r))
    BY <1>2, <2>1
  <2>3. CASE identityKey(u, d) = identity
    BY <1>1, <2>2, <2>3, EffectLists
  <2>4. CASE identityKey(u, d) # identity
    BY <1>1, <2>1, <2>2, <2>4, EffectLists
  <2> QED BY <2>3, <2>4
<1>3. ASSUME NEW o, AnswerMe(r, o)
      PROVE  \/ identity' = identity /\ inflight' = Rest(r)
             \/ \E u : IdentityEffect(u, auth.device, cookie', Rest(r))
  BY <1>3 DEF AnswerMe
<1>4. ASSUME NEW o, AnswerLogin(r, o)
      PROVE  \/ identity' = identity /\ inflight' = Rest(r)
             \/ IdentityEffect(r.as, auth.device, cookie', Rest(r))
  BY <1>4 DEF AnswerLogin
<1>5. ASSUME NEW o, AnswerLogout(r, o)
      PROVE  \/ identity' = identity /\ inflight' = Rest(r)
             \/ IdentityEffect(NoUser, auth.device + 1, cookie', Rest(r))
  BY <1>5 DEF AnswerLogout
<1>6. ASSUME NEW o, AnswerList(r, o) \/ AnswerWrite(r, o) \/ AnswerClear(r, o)
      PROVE  identity' = identity /\ inflight' = Rest(r)
  BY <1>6 DEF AnswerList, AnswerWrite, AnswerClear, SetView
<1> QED BY <1>2, <1>3, <1>4, <1>5, <1>6 DEF Answer

LEMMA LiveStep ==
    ASSUME Typed, LiveInv, [Next]_vars
    PROVE  LiveInv'
<1> USE DEF LiveInv
<1>1. ASSUME identity' = identity,
             \A q \in inflight' : q \notin inflight => q.kind # "list"
      PROVE  LiveInv'
  <2>1. \A q \in Live' : q \in Live
    BY <1>1 DEF Live, Sent
  <2> QED BY <1>1, <2>1
<1>2. CASE (\E u \in Users : Login(u)) \/ Logout \/ DeleteAccount \/ RefreshUser
  <2>1. /\ \A u \in Users : LoginRequest(u).kind = "login"
        /\ Request("logout").kind = "logout" /\ Request("delete").kind = "delete"
        /\ MeRequest.kind = "me"
    BY DEF LoginRequest, Request, MeRequest
  <2>2. \E r : inflight' = inflight \cup {r} /\ r.kind # "list"
    BY <1>2, <2>1, AuthStepSends
  <2> QED BY <1>1, <1>2, <2>2, AuthStepChanges
<1>3. CASE WriteStep \/ ClearAll
  BY <1>1, <1>3, WriteStepOthers, WriteStepChanges
<1>4. ASSUME NEW r \in inflight, Serve(r) PROVE LiveInv'
  <2>1. identity' = identity /\ inflight' = (inflight \ {r}) \cup {Served(r)}
    BY <1>4 DEF Serve
  <2>2. /\ Served(r).kind = r.kind /\ Served(r).by = r.by
        /\ r.kind = "list" => Served(r).live = r.live
    BY ServedTyped
  <2>3. \A q \in Live' : \/ q \in Live /\ q # r
                         \/ q = Served(r) /\ r \in Live
    BY <2>1, <2>2 DEF Live, Sent
  <2>4. \A q \in Live' : q.by = identity
    BY <2>2, <2>3
  <2>5. \A q, s \in Live' : q = s
    BY <2>3
  <2> QED BY <2>1, <2>4, <2>5
<1>5. ASSUME NEW r \in inflight, Answer(r) PROVE LiveInv'
  <2>1. CASE identity' = identity /\ inflight' = Rest(r)
    BY <1>1, <2>1 DEF Rest
  <2>2. CASE \E new \in inflight' : Live' = {new} /\ new.by = identity'
    BY <2>2
  <2> QED BY <1>5, <2>1, <2>2, AnswerLists
<1>6. CASE UNCHANGED vars
  BY <1>1, <1>6 DEF vars
<1> QED BY <1>2, <1>3, <1>4, <1>5, <1>6, Steps

\* The copies of the other identities stay as they are.
LEMMA OthersUntouchedStep ==
    ASSUME Typed, [Next]_vars, NEW k \in Identities, k # identity'
    PROVE  storage'[k] = storage[k]
<1>1. storage \in [Identities -> Views]
  BY DEF Typed, ShownTyped
<1>2. ASSUME NEW v, SetView(v) PROVE storage'[k] = storage[k]
  BY <1>1, <1>2 DEF SetView, WriteThrough
<1>3. ASSUME NEW u, NEW d, NEW jar, NEW reqs, IdentityEffect(u, d, jar, reqs)
      PROVE  storage'[k] = storage[k]
  <2>1. CASE identityKey(u, d) = identity
    BY <1>3, <2>1 DEF IdentityEffect
  <2>2. CASE identityKey(u, d) # identity
    <3>1. /\ identity' = identityKey(u, d)
          /\ storage' = WriteThrough(identityKey(u, d), Hydrated(identityKey(u, d)))
      BY <1>3, <2>2 DEF IdentityEffect
    <3> QED BY <1>1, <3>1 DEF WriteThrough
  <2> QED BY <2>1, <2>2
<1>4. CASE (\E u \in Users : Login(u)) \/ Logout \/ DeleteAccount \/ RefreshUser
  BY <1>4, AuthStepChanges
<1>5. CASE WriteStep
  BY <1>2, <1>5 DEF WriteStep, ToggleSave, ToggleAttending, SetAudience
<1>6. CASE ClearAll
  BY <1>2, <1>6 DEF ClearAll
<1>7. ASSUME NEW r \in inflight, Serve(r) PROVE storage' = storage
  BY <1>7 DEF Serve
<1>8. ASSUME NEW r \in inflight, Answer(r) PROVE storage'[k] = storage[k]
  <2>1. ASSUME NEW o, AnswerMe(r, o) PROVE storage'[k] = storage[k]
    BY <1>3, <2>1 DEF AnswerMe
  <2>2. ASSUME NEW o, AnswerLogin(r, o) PROVE storage'[k] = storage[k]
    <3>1. \/ storage' = storage
          \/ IdentityEffect(r.as, auth.device, cookie', Rest(r))
      BY <2>2 DEF AnswerLogin
    <3>2. PICK jar : jar = cookie'
      OBVIOUS
    <3> QED BY <1>3, <3>1, <3>2
  <2>3. ASSUME NEW o, AnswerLogout(r, o) PROVE storage'[k] = storage[k]
    <3>1. \/ storage' = storage
          \/ IdentityEffect(NoUser, auth.device + 1, cookie', Rest(r))
      BY <2>3 DEF AnswerLogout
    <3>2. PICK jar : jar = cookie'
      OBVIOUS
    <3> QED BY <1>3, <3>1, <3>2
  <2>4. ASSUME NEW o, AnswerList(r, o) \/ AnswerWrite(r, o) \/ AnswerClear(r, o)
        PROVE  storage'[k] = storage[k]
    <3>1. storage' = storage \/ \E v : SetView(v)
      BY <2>4 DEF AnswerList, AnswerWrite, AnswerClear
    <3> QED BY <1>2, <3>1
  <2> QED BY <1>8, <2>1, <2>2, <2>3, <2>4 DEF Answer
<1>9. CASE UNCHANGED vars
  BY <1>9 DEF vars
<1> QED BY <1>4, <1>5, <1>6, <1>7, <1>8, <1>9, Steps

\* The answer to a read of another identity shows nothing.
LEMMA ForeignReadsStep ==
    ASSUME Typed, LiveInv, [Next]_vars, NEW r \in inflight, ForeignAnswer(r),
           r.kind \notin {"write", "clear"}
    PROVE  view' = view
<1>1. r.n \notin {q.n : q \in inflight'} /\ r.by # identity /\ identity' = identity
  BY DEF ForeignAnswer
<1>2. r \notin inflight'
  BY <1>1
<1>3. CASE (\E u \in Users : Login(u)) \/ Logout \/ DeleteAccount \/ RefreshUser
  BY <1>3, AuthStepChanges
<1>4. CASE WriteStep \/ ClearAll
  BY <1>2, <1>4, WriteStepOthers
<1>5. ASSUME NEW q \in inflight, Serve(q) PROVE view' = view
  BY <1>5 DEF Serve
<1>6. ASSUME NEW q \in inflight, Answer(q) PROVE view' = view
  <2>1. inflight' = Rest(q)
    BY <1>1, <1>6, AnswerLists
  <2>2. q = r
    BY <1>2, <2>1 DEF Rest
  <2>3. ASSUME NEW u, NEW d, NEW jar, IdentityEffect(u, d, jar, Rest(q)) PROVE view' = view
    BY <1>1, <2>3 DEF IdentityEffect
  <2>4. ASSUME NEW o, AnswerMe(q, o) PROVE view' = view
    BY <2>3, <2>4 DEF AnswerMe
  <2>5. ASSUME NEW o, AnswerLogin(q, o) \/ AnswerLogout(q, o) PROVE view' = view
    <3>1. \/ view' = view
          \/ IdentityEffect(q.as, auth.device, cookie', Rest(q))
          \/ IdentityEffect(NoUser, auth.device + 1, cookie', Rest(q))
      BY <2>5 DEF AnswerLogin, AnswerLogout
    <3>2. PICK jar : jar = cookie'
      OBVIOUS
    <3> QED BY <2>3, <3>1, <3>2
  <2>6. ASSUME NEW o, AnswerList(q, o) PROVE view' = view
    <3>1. ~q.live
      BY <1>1, <2>2, <2>6 DEF LiveInv, Live, Sent, AnswerList
    <3> QED BY <2>6, <3>1 DEF AnswerList
  <2>7. q.kind \notin {"write", "clear"}
    BY <2>2
  <2> QED BY <1>6, <2>4, <2>5, <2>6, <2>7 DEF Answer, AnswerWrite, AnswerClear
<1>7. CASE UNCHANGED vars
  BY <1>7 DEF vars
<1> QED BY <1>3, <1>4, <1>5, <1>6, <1>7, Steps

----------------------------------------------------------------------------
(* The session and the copies *)

SessionState ==
    Typed /\ Rotations /\ ReadsInv /\ LoadingInv /\ SessionInv /\ LiveInv

LEMMA SessionStateInit == Init => SessionState
<1> SUFFICES ASSUME Init PROVE SessionState
  OBVIOUS
<1>1. Rotations
  <2> DEFINE m == [n |-> 1, kind |-> "me", jar |-> cookie, served |-> FALSE,
                   by |-> Anon(0), gen |-> 1, first |-> TRUE, result |-> NoUser]
             l == [n |-> 2, kind |-> "list", jar |-> cookie, served |-> FALSE,
                   by |-> Anon(0), live |-> TRUE, result |-> Unknown]
  <2>1. inflight = {m, l} /\ m.kind = "me" /\ l.kind = "list"
    BY DEF Init
  <2> HIDE DEF m, l
  <2>2. Cardinality(AuthOps) = 0
    BY <2>1, FS_EmptySet DEF AuthOps
  <2>3. cookie.aid = 0 /\ auth.device = 0 /\ ops = 0
    BY DEF Init
  <2> QED BY <2>2, <2>3 DEF Rotations
<1> QED BY <1>1, InitTyped, ReadsInit, LoadingInit, SessionInit, LiveInit DEF SessionState

LEMMA SessionStateStep ==
    ASSUME SessionState, [Next]_vars
    PROVE  SessionState'
BY TypedStep, RotationsStep, ReadsStep, LoadingStep, SessionStep, LiveStep DEF SessionState

LEMMA SessionStateHolds == Spec => []SessionState
BY SessionStateInit, SessionStateStep, PTL DEF Spec

\* TypeOK, of which only MaxOps bounds the identities: every rotation of the
\* anonymous or the device id ends an operation the user has started.
THEOREM TypeCorrect == Spec => []TypeOK
<1>1. SessionState => TypeOK
  <2> SUFFICES ASSUME SessionState PROVE TypeOK
    OBVIOUS
  <2>1. Typed
    BY DEF SessionState
  <2>2. Cardinality(inflight) <= MaxRequests
    BY <2>1, AuthOpsFinite DEF Typed
  <2>3. auth.generation \in 1..(MaxOps + 1)
    BY <2>1, ConstantsTyped DEF Typed, AuthTyped
  <2>4. cookie \in Jars /\ auth.user \in Users \cup {NoUser} /\ auth.loading \in BOOLEAN
        /\ auth.device \in 0..MaxOps /\ view \in Views
    BY <2>1 DEF Typed, AuthTyped, ShownTyped
  <2>5. cookie.user \in Users \cup {NoUser} /\ cookie.aid \in 0..MaxOps
        /\ view.ids \subseteq Events
    BY <2>4 DEF Jars, Views
  <2> QED BY <2>1, <2>2, <2>3, <2>4, <2>5
          DEF TypeOK, Typed, ShownTyped, RequestsTyped, Numbered, ServerTyped, RestTyped
<1> QED BY <1>1, SessionStateHolds, PTL

\* AuthContext's generation counter: when every request has been answered the
\* user shown is the session's, in whatever order the answers of fetchMe,
\* login, logout and deleteAccount came, unless operations overlapped or one
\* failed half way.
THEOREM SessionAgreesHolds == Spec => []SessionAgrees
<1>1. SessionState => SessionAgrees
  <2> SUFFICES ASSUME SessionState, Quiet, ~AuthTrouble PROVE auth.user = cookie.user
    BY DEF SessionAgrees
  <2>1. AuthOps = {} /\ FirstRead = {}
    BY DEF Quiet, AuthOps, FirstRead, Sent
  <2> QED BY <2>1 DEF SessionState, SessionInv, Agreed
<1> QED BY <1>1, SessionStateHolds, PTL

\* The page never waits for ever: when every request has been answered
\* "loading" is over, except after a failed sign-in that overtook the mount's
\* fetchMe.
THEOREM LoadingEndsHolds == Spec => []LoadingEnds
<1>1. SessionState => LoadingEnds
  BY DEF LoadingEnds, SessionState, LoadingInv, Quiet, FirstRead, Sent
<1> QED BY <1>1, SessionStateHolds, PTL

\* The write-through effects copy a view under no key but the identity shown
\* after the step.
THEOREM OthersUntouchedHolds == Spec => OthersUntouched
<1>1. SessionState /\ [Next]_vars =>
        [\A k \in Identities : k # identity' => storage'[k] = storage[k]]_vars
  BY OthersUntouchedStep DEF SessionState
<1> QED BY <1>1, SessionStateHolds, PTL DEF Spec, OthersUntouched

\* The answer to fetchMe or to a reconciliation sent for an identity that is no
\* longer shown leaves the view alone: the cleanup has cancelled it.
THEOREM ForeignReadsIgnoredHolds == Spec => ForeignReadsIgnored
<1>1. SessionState /\ [Next]_vars =>
        [\A r \in inflight : ForeignAnswer(r) /\ r.kind \notin {"write", "clear"}
            => view' = view]_vars
  BY ForeignReadsStep DEF SessionState
<1> QED BY <1>1, SessionStateHolds, PTL DEF Spec, ForeignReadsIgnored

----------------------------------------------------------------------------
(* Whose writes are under way *)

\* No race and no fault that the properties of the view leave out.
Calm == met \subseteq {"audienceOmitted", "audiencesOverlap"}

\* The server has carried out an operation whose answer has not arrived.
ServerAhead == \E r \in AuthOps : r.served

\* The account or anonymous id the cookies stand for.
SameOwner(a, b) == a.user = b.user /\ (a.user = NoUser => a.aid = b.aid)
Viewer == Owner(cookie, {})

\* The writes sent for the identity shown.
Mine == {w \in Writes : w.by = identity}

\* Cookies and device ids only go forward; clearAll's requests are of one
\* identity, and keep what failed until the last of them settles.
WritesInv ==
    /\ \A w \in Writes : w.jar.aid <= cookie.aid
    /\ \A w \in Writes : \A k \in 0..MaxOps : w.by = Anon(k) => k <= auth.device
    /\ \A c, d \in Sent("clear") : c.by = d.by
    /\ unsaved # {} => Sent("clear") # {}
    /\ provider = "attending" => Sent("clear") = {}

\* A live list reads with the present cookies,
ListsPresent == \A r \in Live : r.jar = cookie

\* the writes of the identity shown are those the server counts as the viewer's,
MineIsOwners == \A w \in Writes : w.by = identity <=> SameOwner(w.jar, cookie)
UsersWrites == \A w \in Writes : \A u \in Users : w.by = <<"user", u>> => w.jar.user = u

\* the writes of a purged account are of an earlier session,
PurgedEarlier ==
    \A w \in Writes : w.jar.user \in deleted =>
        w.jar.aid < cookie.aid \/ \E r \in Sent("delete") : r.served

\* and no list of the viewer is read while the viewer writes.
NoCrossing == Live # {} => Mine = {}

OwnersInv ==
    Calm => ListsPresent /\ MineIsOwners /\ UsersWrites /\ PurgedEarlier /\ NoCrossing

LEMMA ViewerTyped ==
    ASSUME Typed
    PROVE  Viewer \in Identities
BY OwnerTyped DEF Typed, AuthTyped, Viewer

LEMMA SameOwners ==
    ASSUME NEW a \in Jars, NEW b \in Jars
    PROVE  SameOwner(a, b) <=> Owner(a, {}) = Owner(b, {})
BY ConstantsTyped DEF SameOwner, Owner, Jars, Anon

LEMMA OwnersOf ==
    ASSUME NEW jar \in Jars, NEW gone
    PROVE  Owner(jar, gone) = IF jar.user \in gone /\ jar.user # NoUser
                              THEN Anon(jar.aid) ELSE Owner(jar, {})
BY DEF Owner

LEMMA CalmBefore ==
    ASSUME [Next]_vars, Calm'
    PROVE  Calm /\ ~AuthTrouble /\ ~AuthTrouble'
BY MetGrows DEF Calm, AuthTrouble

LEMMA WriteFields ==
    ASSUME Typed
    PROVE  \A w \in Writes : /\ w \in Requests /\ w.jar \in Jars /\ w.by \in Identities
                             /\ w.event \in Events /\ w.served \in BOOLEAN
                             /\ w.kind = "write" => w \in WriteRequests
                             /\ w.kind = "clear" => w \in ClearRequests
<1> SUFFICES ASSUME NEW w \in Writes
             PROVE  /\ w \in Requests /\ w.jar \in Jars /\ w.by \in Identities
                    /\ w.event \in Events /\ w.served \in BOOLEAN
                    /\ w.kind = "write" => w \in WriteRequests
                    /\ w.kind = "clear" => w \in ClearRequests
  OBVIOUS
<1>1. w \in Requests /\ w.kind \in {"write", "clear"}
  BY DEF Writes, Typed, RequestsTyped
<1>2. w \in WriteRequests \/ w \in ClearRequests
  BY <1>1, KindTyped
<1>3. w.event \in Events
  BY <1>2 DEF WriteRequests, ClearRequests
<1> QED BY <1>1, <1>3, FieldsTyped, KindTyped

\* What the server takes the writes for, while it is not ahead.
LEMMA WritesOwner ==
    ASSUME Typed, SessionInv, ~AuthTrouble, ~ServerAhead, NEW w \in Writes,
           MineIsOwners, PurgedEarlier
    PROVE  /\ cookie.user \notin deleted /\ Owner(cookie, deleted) = Viewer
           /\ w \in Mine <=> Owner(w.jar, deleted) = Viewer
<1>1. w.jar \in Jars /\ cookie \in Jars
  BY WriteFields DEF Typed, AuthTyped
<1>2. ~\E r \in Sent("delete") : r.served
  BY DEF ServerAhead, AuthOps, Sent
<1>3. cookie.user \notin deleted
  BY <1>2 DEF SessionInv, SessionLives
<1>4. Owner(cookie, deleted) = Viewer
  BY <1>1, <1>3, OwnersOf DEF Viewer
<1>5. w \in Mine <=> SameOwner(w.jar, cookie)
  BY DEF Mine, MineIsOwners
<1>6. CASE w.jar.user \in deleted /\ w.jar.user # NoUser
  <2>1. Owner(w.jar, deleted) = Anon(w.jar.aid)
    BY <1>1, <1>6, OwnersOf
  <2>2. w.jar.aid < cookie.aid
    BY <1>2, <1>6 DEF PurgedEarlier
  <2>3. Anon(w.jar.aid) # Viewer
    BY <1>1, <2>2 DEF Viewer, Owner, Anon, Jars
  <2>4. ~SameOwner(w.jar, cookie)
    BY <1>3, <1>6 DEF SameOwner
  <2> QED BY <1>3, <1>4, <1>5, <2>1, <2>3, <2>4
<1>7. CASE ~(w.jar.user \in deleted /\ w.jar.user # NoUser)
  <2>1. Owner(w.jar, deleted) = Owner(w.jar, {})
    BY <1>1, <1>7, OwnersOf
  <2> QED BY <1>1, <1>3, <1>4, <1>5, <2>1, SameOwners DEF Viewer
<1> QED BY <1>6, <1>7

\* How a step changes the writes under way.
LEMMA AuthStepWrites ==
    ASSUME Typed, (\E u \in Users : Login(u)) \/ Logout \/ DeleteAccount \/ RefreshUser
    PROVE  /\ Writes' = Writes /\ Sent("clear")' = Sent("clear") /\ Sent("write")' = Sent("write")
           /\ Live' = Live
<1>1. /\ \A u \in Users : LoginRequest(u).kind = "login"
      /\ Request("logout").kind = "logout" /\ Request("delete").kind = "delete"
      /\ MeRequest.kind = "me"
  BY DEF LoginRequest, Request, MeRequest
<1>2. \E r : inflight' = inflight \cup {r} /\ r.kind \notin {"write", "clear", "list"}
  BY <1>1, AuthStepSends
<1> QED BY <1>2 DEF Writes, Sent, Live

LEMMA WriteStepWrites ==
    ASSUME Typed, WriteStep
    PROVE  \E w : /\ w \notin inflight /\ inflight' = inflight \cup {w}
                  /\ Writes' = Writes \cup {w} /\ Sent("clear")' = Sent("clear")
                  /\ Live' = Live
                  /\ w.kind = "write" /\ w.jar = cookie /\ w.by = identity /\ ~w.served
<1>1. PICK e \in Events, action \in {"add", "remove", "audience"},
           a \in Audiences \cup {NoAudience} :
             /\ WriteRequest(e, action, a) \notin inflight
             /\ inflight' = inflight \cup {WriteRequest(e, action, a)}
  BY WriteStepSends
<1> DEFINE w == WriteRequest(e, action, a)
<1>2. w.kind = "write" /\ w.jar = cookie /\ w.by = identity /\ w.served = FALSE
  BY DEF WriteRequest
<1>3. w \notin inflight /\ inflight' = inflight \cup {w}
  BY <1>1
<1> HIDE DEF w
<1> QED BY <1>2, <1>3 DEF Writes, Sent, Live

LEMMA ClearAllWrites ==
    ASSUME Typed, ClearAll
    PROVE  /\ inflight \subseteq inflight' /\ Writes \subseteq Writes' /\ Live' = Live
           /\ Sent("clear") = {} /\ provider = "saved"
           /\ \A w \in Writes' : w \notin Writes =>
                /\ w.kind = "clear" /\ w.jar = cookie /\ w.by = identity /\ ~w.served
                /\ w.event \in view.ids /\ w \in inflight' /\ w \notin inflight
           /\ \A e \in view.ids : \E w \in Writes' : w \notin Writes /\ w.event = e
           /\ \A w, x \in Writes' : w \notin Writes /\ x \notin Writes /\ w.event = x.event
                => w = x
<1>1. PICK slots \in [view.ids -> FreeSlots(inflight)] :
          inflight' = inflight \cup {ClearRequest(e, slots[e]) : e \in view.ids}
  BY DEF ClearAll
<1> DEFINE c(e) == ClearRequest(e, slots[e])
<1>2. ASSUME NEW e \in view.ids
      PROVE  /\ c(e).kind = "clear" /\ c(e).jar = cookie /\ c(e).by = identity
             /\ c(e).served = FALSE /\ c(e).event = e /\ c(e) \notin inflight
  <2>1. c(e).n = slots[e] /\ slots[e] \in FreeSlots(inflight)
    BY DEF ClearRequest
  <2> QED BY <2>1 DEF ClearRequest, FreeSlots
<1> HIDE DEF c
<1>3. inflight' = inflight \cup {c(e) : e \in view.ids}
  BY <1>1 DEF c
<1>4. \A w \in Writes' : w \notin Writes => \E e \in view.ids : w = c(e)
  BY <1>3 DEF Writes
<1>5. \A e \in view.ids : c(e) \in Writes' /\ c(e) \notin Writes /\ c(e) \in inflight'
  BY <1>2, <1>3 DEF Writes
<1>6. Writes \subseteq Writes' /\ inflight \subseteq inflight'
  BY <1>3 DEF Writes
<1>7. Live' = Live
  BY <1>2, <1>3 DEF Live, Sent
<1>8. Sent("clear") = {} /\ provider = "saved"
  BY DEF ClearAll
<1>9. \A w \in Writes' : w \notin Writes =>
         /\ w.kind = "clear" /\ w.jar = cookie /\ w.by = identity /\ ~w.served
         /\ w.event \in view.ids /\ w \in inflight' /\ w \notin inflight
         /\ w = c(w.event)
  <2> SUFFICES ASSUME NEW w \in Writes', w \notin Writes
               PROVE  /\ w.kind = "clear" /\ w.jar = cookie /\ w.by = identity /\ ~w.served
                      /\ w.event \in view.ids /\ w \in inflight' /\ w \notin inflight
                      /\ w = c(w.event)
    OBVIOUS
  <2>1. PICK e \in view.ids : w = c(e)
    BY <1>4
  <2>2. c(e).event = e
    BY <1>2
  <2> QED BY <1>2, <1>5, <2>1, <2>2
<1>10. \A e \in view.ids : \E w \in Writes' : w \notin Writes /\ w.event = e
  BY <1>2, <1>5
<1> QED BY <1>6, <1>7, <1>8, <1>9, <1>10

LEMMA ServeWrites ==
    ASSUME Typed, NEW r \in inflight, Serve(r)
    PROVE  /\ r \in Writes => Writes' = (Writes \ {r}) \cup {Served(r)}
           /\ r \notin Writes => Writes' = Writes
           /\ Served(r).kind = r.kind /\ Served(r).jar = r.jar /\ Served(r).by = r.by
           /\ r \in Writes => Served(r).event = r.event
           /\ \A k : \A q \in Sent(k)' : q \in Sent(k) \/ (q = Served(r) /\ r \in Sent(k))
           /\ \A k : \A q \in Sent(k) : q \in Sent(k)' \/ (q = r /\ Served(r) \in Sent(k)')
<1>1. inflight' = (inflight \ {r}) \cup {Served(r)}
  BY DEF Serve
<1>2. /\ Served(r).kind = r.kind /\ Served(r).jar = r.jar /\ Served(r).by = r.by
      /\ r.kind \in {"write", "clear"} => Served(r).event = r.event
  BY ServedTyped
<1> QED BY <1>1, <1>2 DEF Writes, Sent

\* The cookies' anonymous id and the device id only go forward.
LEMMA AnswerForward ==
    ASSUME Typed, NEW r \in inflight, Answer(r)
    PROVE  cookie.aid <= cookie'.aid /\ auth.device <= auth'.device
<1>1. cookie.aid \in Nat /\ auth.device \in Nat /\ cookie \in Jars
  BY DEF Typed, AuthTyped, Jars
<1>2. \A o : AnswerMe(r, o) => UNCHANGED cookie /\ auth'.device = auth.device
  BY DEF AnswerMe, Typed, AuthTyped
<1>3. \A o : AnswerLogin(r, o) => cookie'.aid = cookie.aid /\ auth'.device = auth.device
  BY <1>1 DEF AnswerLogin, LoggedIn, Typed, AuthTyped, Jars
<1>4. \A o : AnswerLogout(r, o) => /\ cookie'.aid \in {cookie.aid, cookie.aid + 1}
                                   /\ auth'.device \in {auth.device, auth.device + 1}
  <2> SUFFICES ASSUME NEW o, AnswerLogout(r, o)
               PROVE  /\ cookie'.aid \in {cookie.aid, cookie.aid + 1}
                      /\ auth'.device \in {auth.device, auth.device + 1}
    OBVIOUS
  <2>1. cookie' = cookie \/ cookie' = [user |-> NoUser, aid |-> cookie.aid + 1]
    BY DEF AnswerLogout
  <2>2. auth' = auth \/ auth' = [auth EXCEPT !.user = NoUser, !.device = auth.device + 1]
    BY DEF AnswerLogout
  <2>3. auth'.device = auth.device \/ auth'.device = auth.device + 1
    BY <2>2 DEF Typed, AuthTyped
  <2>4. cookie'.aid = cookie.aid \/ cookie'.aid = cookie.aid + 1
    BY <2>1
  <2> QED BY <2>3, <2>4
<1>5. \A o : AnswerList(r, o) \/ AnswerWrite(r, o) \/ AnswerClear(r, o) => UNCHANGED <<cookie, auth>>
  BY DEF AnswerList, AnswerWrite, AnswerClear
<1> QED BY <1>1, <1>2, <1>3, <1>4, <1>5 DEF Answer

LEMMA WritesInit == Init => WritesInv
<1> SUFFICES ASSUME Init PROVE WritesInv
  OBVIOUS
<1> DEFINE m == [n |-> 1, kind |-> "me", jar |-> cookie, served |-> FALSE,
                 by |-> Anon(0), gen |-> 1, first |-> TRUE, result |-> NoUser]
           l == [n |-> 2, kind |-> "list", jar |-> cookie, served |-> FALSE,
                 by |-> Anon(0), live |-> TRUE, result |-> Unknown]
<1>1. inflight = {m, l} /\ m.kind = "me" /\ l.kind = "list" /\ unsaved = {}
  BY DEF Init
<1> HIDE DEF m, l
<1>2. Writes = {} /\ Sent("clear") = {}
  BY <1>1 DEF Writes, Sent
<1> QED BY <1>1, <1>2 DEF WritesInv

LEMMA WritesStep ==
    ASSUME Typed, ReadsInv, WritesInv, [Next]_vars
    PROVE  WritesInv'
<1> USE DEF WritesInv
<1>1. cookie.aid \in Nat /\ auth.device \in Nat
  BY DEF Typed, AuthTyped, Jars
<1>2. identity = identityKey(auth.user, auth.device)
  BY DEF ReadsInv
<1>3. \A k \in 0..MaxOps : identity = Anon(k) => k <= auth.device
  BY <1>1, <1>2 DEF identityKey, Anon
<1>4. CASE (\E u \in Users : Login(u)) \/ Logout \/ DeleteAccount \/ RefreshUser
  BY <1>4, AuthStepWrites, AuthStepChanges
<1>5. CASE WriteStep
  <2>1. UNCHANGED <<cookie, auth, identity, unsaved, provider>>
    BY <1>5, WriteStepChanges
  <2> QED BY <1>1, <1>3, <1>5, <2>1, WriteStepWrites
<1>6. CASE ClearAll
  <2>1. UNCHANGED <<cookie, auth, identity, unsaved, provider>>
    BY <1>6, WriteStepChanges
  <2>2. \A w \in Writes' : w \in Writes \/ (w.jar = cookie /\ w.by = identity)
    BY <1>6, ClearAllWrites
  <2>3. \A c \in Sent("clear")' : c.by = identity
    BY <1>6, ClearAllWrites DEF Sent, Writes
  <2>4. unsaved = {} /\ provider = "saved"
    BY <1>6, ClearAllWrites
  <2> QED BY <1>1, <1>3, <2>1, <2>2, <2>3, <2>4
<1>7. ASSUME NEW r \in inflight, Serve(r) PROVE WritesInv'
  <2>1. UNCHANGED <<cookie, auth, unsaved, provider>>
    BY <1>7 DEF Serve
  <2>2. \A w \in Writes' : \E x \in Writes : w.jar = x.jar /\ w.by = x.by
    BY <1>7, ServeWrites
  <2>3. \A c \in Sent("clear")' : \E d \in Sent("clear") : c.by = d.by
    BY <1>7, ServeWrites
  <2>4. Sent("clear") = {} <=> Sent("clear")' = {}
    BY <1>7, ServeWrites
  <2> QED BY <2>1, <2>2, <2>3, <2>4
<1>8. ASSUME NEW r \in inflight, Answer(r) PROVE WritesInv'
  <2>1. Writes' = Writes \ {r} /\ Sent("clear")' = Sent("clear") \ {r}
    BY <1>8, AnswerKinds
  <2>2. \A w \in Writes' : w.jar.aid <= cookie'.aid
    <3>1. \A w \in Writes : w.jar.aid \in Nat
      BY WriteFields DEF Jars
    <3>2. cookie'.aid \in Nat
      <4>1. cookie'.aid = cookie.aid \/ cookie'.aid = cookie.aid + 1
        BY <1>8 DEF Answer, AnswerMe, AnswerLogin, AnswerLogout, AnswerList, AnswerWrite,
                    AnswerClear, Typed, AuthTyped, Jars
      <4> QED BY <1>1, <4>1
    <3> QED BY <1>1, <1>8, <2>1, <3>1, <3>2, AnswerForward
  <2>3. \A w \in Writes' : \A k \in 0..MaxOps : w.by = Anon(k) => k <= auth'.device
    <3>1. auth'.device = auth.device \/ auth'.device = auth.device + 1
      BY <1>8 DEF Answer, AnswerMe, AnswerLogin, AnswerLogout, AnswerList, AnswerWrite,
                  AnswerClear, LoggedIn, Typed, AuthTyped
    <3> QED BY <1>1, <2>1, <3>1
  <2>4. unsaved' # {} => Sent("clear")' # {}
    <3>1. CASE \E o : AnswerClear(r, o)
      <4>1. Sent("clear") # {r} \/ unsaved' = {}
        BY <3>1 DEF AnswerClear
      <4>2. r \in Sent("clear")
        BY <3>1 DEF AnswerClear, Sent
      <4> QED BY <2>1, <4>1, <4>2
    <3>2. CASE ~\E o : AnswerClear(r, o)
      <4>1. unsaved' = unsaved /\ r.kind # "clear"
        BY <1>8, <3>2 DEF Answer, AnswerMe, AnswerLogin, AnswerLogout, AnswerList, AnswerWrite
      <4> QED BY <2>1, <4>1 DEF Sent
    <3> QED BY <3>1, <3>2
  <2>5. provider' = provider
    BY <1>8 DEF Answer, AnswerMe, AnswerLogin, AnswerLogout, AnswerList, AnswerWrite, AnswerClear
  <2> QED BY <2>1, <2>2, <2>3, <2>4, <2>5
<1>9. CASE UNCHANGED vars
  BY <1>9 DEF vars, Writes, Sent
<1> QED BY <1>4, <1>5, <1>6, <1>7, <1>8, <1>9, Steps

LEMMA OwnersInit == Init => OwnersInv
<1> SUFFICES ASSUME Init PROVE OwnersInv
  OBVIOUS
<1> DEFINE m == [n |-> 1, kind |-> "me", jar |-> cookie, served |-> FALSE,
                 by |-> Anon(0), gen |-> 1, first |-> TRUE, result |-> NoUser]
           l == [n |-> 2, kind |-> "list", jar |-> cookie, served |-> FALSE,
                 by |-> Anon(0), live |-> TRUE, result |-> Unknown]
<1>1. inflight = {m, l} /\ m.kind = "me" /\ l.kind = "list" /\ l.jar = cookie
  BY DEF Init
<1> HIDE DEF m, l
<1>2. Writes = {}
  BY <1>1 DEF Writes
<1>3. \A r \in Live : r.jar = cookie
  BY <1>1 DEF Live, Sent
<1> QED BY <1>2, <1>3 DEF OwnersInv, ListsPresent, MineIsOwners, UsersWrites,
           PurgedEarlier, NoCrossing, Mine

\* An answer after which the same identity is shown changes no cookie, and is
\* not the answer to an operation the server has carried out.
LEMMA AnswerStays ==
    ASSUME SessionState, Calm', NEW r \in inflight, Answer(r), identity' = identity
    PROVE  /\ cookie' = cookie /\ deleted' = deleted /\ rows' = rows
           /\ inflight' = Rest(r) /\ Writes' = Writes \ {r} /\ Live' = Live \ {r}
           /\ r \in AuthOps => ~r.served
           /\ ServerAhead' = ServerAhead
<1>1. Typed /\ ReadsInv /\ SessionInv
  BY DEF SessionState
<1>2. Calm /\ ~AuthTrouble /\ ~AuthTrouble'
  BY CalmBefore, AnswerNext
<1>3. inflight' = Rest(r) /\ Writes' = Writes \ {r} /\ AuthOps' = AuthOps \ {r}
  BY <1>1, AnswerLists, AnswerKinds
<1>4. Live' = Live \ {r}
  BY <1>3 DEF Live, Sent, Rest
<1>5. deleted' = deleted /\ rows' = rows
  BY DEF Answer, AnswerMe, AnswerLogin, AnswerLogout, AnswerList, AnswerWrite, AnswerClear
<1>6. identity = identityKey(auth.user, auth.device)
  BY <1>1 DEF ReadsInv
<1>7. auth.device \in Nat
  BY <1>1 DEF Typed, AuthTyped
<1>8. cookie' = cookie /\ (r \in AuthOps => ~r.served)
  <2>1. ASSUME NEW o, AnswerMe(r, o) \/ AnswerList(r, o) \/ AnswerWrite(r, o) \/ AnswerClear(r, o)
        PROVE  cookie' = cookie /\ r \notin AuthOps
    BY <2>1 DEF AnswerMe, AnswerList, AnswerWrite, AnswerClear, AuthOps
  <2>2. ASSUME NEW o \in {"ok", "http", "lost"}, AnswerLogin(r, o)
        PROVE  cookie' = cookie /\ ~r.served
    <3>1. r.as \in Users /\ r \in Sent("login")
      BY <1>1, <2>2, KindTyped DEF AnswerLogin, Typed, RequestsTyped, LoginRequests, Sent
    <3>2. auth.user = NoUser
      BY <1>1, <1>2, <3>1 DEF SessionInv, SignsInFromNobody
    <3>3. identityKey(r.as, auth.device) # identity
      BY <1>6, <3>1, <3>2, ConstantsTyped DEF identityKey, Anon
    <3>4. IdentityEffect(r.as, auth.device, cookie', Rest(r)) => identity' = identityKey(r.as, auth.device)
      <4>1. PICK jar : jar = cookie'
        OBVIOUS
      <4> QED BY <1>1, <4>1, RestIsTyped, EffectLists DEF Typed
    <3>5. o # "ok"
      BY <2>2, <3>3, <3>4 DEF AnswerLogin
    <3>6. o # "lost"
      BY <1>2, <2>2 DEF AnswerLogin, AuthTrouble
    <3> QED BY <2>2, <3>5, <3>6 DEF AnswerLogin, Outcome
  <2>3. ASSUME NEW o \in {"ok", "http", "lost"}, AnswerLogout(r, o)
        PROVE  cookie' = cookie /\ ~r.served
    <3>1. identityKey(NoUser, auth.device + 1) # identity
      BY <1>6, <1>7 DEF identityKey, Anon
    <3>2. IdentityEffect(NoUser, auth.device + 1, cookie', Rest(r))
             => identity' = identityKey(NoUser, auth.device + 1)
      <4>1. PICK jar : jar = cookie'
        OBVIOUS
      <4> QED BY <1>1, <4>1, RestIsTyped, EffectLists DEF Typed
    <3>3. o # "ok"
      <4>1. o = "ok" => IdentityEffect(NoUser, auth.device + 1, cookie', Rest(r))
        BY <2>3 DEF AnswerLogout
      <4> QED BY <3>1, <3>2, <4>1
    <3>4. o # "lost"
      BY <1>2, <2>3 DEF AnswerLogout, AuthTrouble, Met
    <3> QED BY <2>3, <3>3, <3>4 DEF AnswerLogout, Outcome
  <2> QED BY <2>1, <2>2, <2>3 DEF Answer
<1>9. ServerAhead' = ServerAhead
  BY <1>3, <1>8 DEF ServerAhead
<1> QED BY <1>3, <1>4, <1>5, <1>8, <1>9

\* An answer that shows another identity ends the operation under way and finds
\* no write of that identity's owner under way.
LEMMA AnswerMoves ==
    ASSUME SessionState, Calm', NEW r \in inflight, Answer(r), identity' # identity
    PROVE  /\ deleted' = deleted /\ rows' = rows /\ AuthOps' = {}
           /\ Writes' = Writes
           /\ \E new \in inflight' : /\ Live' = {new} /\ new.by = identity'
                                    /\ new.jar = cookie' /\ ~new.served
           /\ \A w \in Writes : Owner(w.jar, deleted) # Owner(cookie', deleted)
           /\ auth'.user # NoUser \/ auth'.device > auth.device
           /\ (r \in Sent("delete") /\ r.served) => cookie'.aid > cookie.aid
<1>1. Typed /\ ReadsInv /\ SessionInv
  BY DEF SessionState
<1>2. Calm /\ ~AuthTrouble /\ ~AuthTrouble'
  BY CalmBefore, AnswerNext
<1>3. AuthOps' = AuthOps \ {r} /\ Writes' = Writes \ {r}
  BY <1>1, AnswerKinds
<1>4. \E new \in inflight' : /\ Live' = {new} /\ new.by = identity'
                             /\ new.jar = cookie' /\ ~new.served
  BY <1>1, AnswerLists
<1>5. deleted' = deleted /\ rows' = rows
  BY DEF Answer, AnswerMe, AnswerLogin, AnswerLogout, AnswerList, AnswerWrite, AnswerClear
<1>6. identity = identityKey(auth.user, auth.device) /\ auth.device \in Nat /\ cookie.aid \in Nat
  BY <1>1 DEF ReadsInv, Typed, AuthTyped, Jars
<1>7. \A o : ~(AnswerList(r, o) \/ AnswerWrite(r, o) \/ AnswerClear(r, o))
  BY DEF AnswerList, AnswerWrite, AnswerClear, SetView
<1>8. "readCrossesWrite" \in met'
        <=> "readCrossesWrite" \in met
             \/ \E w \in Writes : Owner(w.jar, deleted) = Owner(cookie', deleted)
  <2>1. ASSUME NEW o, AnswerMe(r, o)
        PROVE  met' = Crossing(cookie') \cup IF r.first THEN Met(o, "authFault") ELSE met
    BY <2>1 DEF AnswerMe
  <2>2. ASSUME NEW o, AnswerLogin(r, o)
        PROVE  met' = Crossing(cookie')
              \cup (IF auth.loading THEN Met(o, "loadOvertaken") ELSE met)
              \cup (IF o = "lost" THEN {"authFault"} ELSE {})
    BY <2>2 DEF AnswerLogin
  <2>3. ASSUME NEW o, AnswerLogout(r, o)
        PROVE  met' = Crossing(cookie') \cup Met(o, "authFault")
    BY <2>3 DEF AnswerLogout
  <2>4. Crossing(cookie') = IF \E w \in Writes : Owner(w.jar, deleted) = Owner(cookie', deleted)
                            THEN {"readCrossesWrite"} ELSE {}
    BY DEF Crossing
  <2>5. \E o : AnswerMe(r, o) \/ AnswerLogin(r, o) \/ AnswerLogout(r, o)
    BY <1>7 DEF Answer
  <2> HIDE DEF Crossing
  <2> QED BY <2>1, <2>2, <2>3, <2>4, <2>5 DEF Met
<1>9. \A w \in Writes : Owner(w.jar, deleted) # Owner(cookie', deleted)
  BY <1>8 DEF Calm
<1>10. ASSUME NEW o \in {"ok", "http", "lost"}, AnswerMe(r, o)
       PROVE  /\ AuthOps' = {} /\ r \notin Writes /\ r \notin Sent("delete")
              /\ auth'.user # NoUser
  <2> DEFINE u == IF o = "ok" THEN r.result ELSE NoUser
  <2>1. r \in Sent("me") /\ r.gen = auth.generation /\ (r.first \/ u # NoUser)
        /\ auth' = [auth EXCEPT !.user = u, !.loading = @ /\ ~r.first]
    BY <1>10 DEF AnswerMe, CurrentGeneration, Sent
  <2>2. IdentityEffect(u, auth.device, cookie, Rest(r))
    BY <1>10 DEF AnswerMe
  <2> HIDE DEF u
  <2>3. AuthOps = {}
    BY <1>1, <1>2, <2>1 DEF SessionInv, ReadsPresent
  <2>4. identity' = identityKey(u, auth.device)
    BY <1>1, <2>2, RestIsTyped, EffectLists DEF Typed
  <2>5. r.first => auth.user = NoUser
    BY <1>1, <1>2, <2>1 DEF SessionInv, FirstShowsNobody, FirstRead
  <2>6. u # NoUser
    BY <1>6, <2>1, <2>4, <2>5 DEF identityKey
  <2>7. auth'.user = u
    BY <1>1, <2>1 DEF Typed, AuthTyped
  <2> QED BY <1>3, <2>1, <2>3, <2>6, <2>7 DEF Sent, Writes
<1>11. ASSUME NEW o \in {"ok", "http", "lost"}, AnswerLogin(r, o)
       PROVE  /\ AuthOps' = {} /\ r \notin Writes /\ r \notin Sent("delete")
              /\ auth'.user # NoUser
  <2>1. r \in AuthOps /\ r.kind = "login"
    BY <1>11 DEF AnswerLogin, AuthOps
  <2>2. AuthOps' = {}
    BY <1>1, <1>2, <1>3, <2>1 DEF SessionInv, OneAtATime
  <2>3. r.as \in Users
    BY <1>1, <2>1, KindTyped DEF Typed, RequestsTyped, LoginRequests
  <2>4. auth' = LoggedIn(r.as)
    BY <1>11 DEF AnswerLogin
  <2>5. auth'.user = r.as
    BY <1>1, <2>4 DEF LoggedIn, Typed, AuthTyped
  <2> QED BY <2>1, <2>2, <2>3, <2>5, ConstantsTyped DEF Sent, Writes
<1>12. ASSUME NEW o \in {"ok", "http", "lost"}, AnswerLogout(r, o)
       PROVE  /\ AuthOps' = {} /\ r \notin Writes
              /\ auth'.device > auth.device
              /\ (r \in Sent("delete") /\ r.served) => cookie'.aid > cookie.aid
  <2>1. r \in AuthOps /\ r.kind \in {"logout", "delete"}
    BY <1>12 DEF AnswerLogout, AuthOps
  <2>2. AuthOps' = {}
    BY <1>1, <1>2, <1>3, <2>1 DEF SessionInv, OneAtATime
  <2>3. auth' = [auth EXCEPT !.user = NoUser, !.device = auth.device + 1]
    BY <1>12 DEF AnswerLogout
  <2>4. auth'.device = auth.device + 1
    BY <1>1, <2>3 DEF Typed, AuthTyped
  <2>5. o # "lost"
    BY <1>2, <1>12 DEF AnswerLogout, AuthTrouble, Met
  <2>6. r.served => o = "ok"
    BY <1>12, <2>5 DEF AnswerLogout, Outcome
  <2>7. o = "ok" => cookie' = [user |-> NoUser, aid |-> cookie.aid + 1]
    BY <1>12 DEF AnswerLogout
  <2>8. o = "ok" => cookie'.aid = cookie.aid + 1
    BY <2>7
  <2> QED BY <1>6, <2>1, <2>2, <2>4, <2>6, <2>8 DEF Writes
<1>13. AuthOps' = {} /\ r \notin Writes /\ (auth'.user # NoUser \/ auth'.device > auth.device)
       /\ ((r \in Sent("delete") /\ r.served) => cookie'.aid > cookie.aid)
  BY <1>7, <1>10, <1>11, <1>12 DEF Answer
<1> QED BY <1>3, <1>4, <1>5, <1>9, <1>13

\* A new write of the viewer is the viewer's, and crosses no live list.
LEMMA NewWrites ==
    ASSUME SessionState, Calm', WriteStep \/ ClearAll
    PROVE  /\ Live' = {} /\ Live = {}
           /\ \A w \in Writes' : w \notin Writes =>
                w.jar = cookie /\ w.by = identity /\ ~w.served /\ w \notin inflight
           /\ Writes \subseteq Writes'
<1>1. Typed
  BY DEF SessionState
<1>2. ASSUME NEW e, "readCrossesWrite" \notin WriteRaces(e) PROVE Live = {}
  BY <1>2 DEF WriteRaces, Live
<1>3. "readCrossesWrite" \notin met'
  BY DEF Calm
<1>4. CASE WriteStep
  <2>1. \E e \in Events : WriteRaces(e) \subseteq met'
    BY <1>4 DEF WriteStep, ToggleSave, ToggleAttending, SetAudience
  <2>2. Live = {}
    BY <1>2, <1>3, <2>1
  <2> QED BY <1>1, <1>4, <2>2, WriteStepWrites
<1>5. CASE ClearAll
  <2>1. view.ids # {} /\ \A e \in view.ids : WriteRaces(e) \subseteq met'
    BY <1>5 DEF ClearAll
  <2>2. Live = {}
    BY <1>2, <1>3, <2>1
  <2> QED BY <1>1, <1>5, <2>2, ClearAllWrites
<1> QED BY <1>4, <1>5

LEMMA OwnersStep ==
    ASSUME SessionState, WritesInv, OwnersInv, [Next]_vars
    PROVE  OwnersInv'
<1> SUFFICES ASSUME Calm'
             PROVE  ListsPresent' /\ MineIsOwners' /\ UsersWrites' /\ PurgedEarlier' /\ NoCrossing'
  BY DEF OwnersInv
<1>1. Typed /\ ReadsInv /\ SessionInv
  BY DEF SessionState
<1>2. Calm /\ ~AuthTrouble /\ ~AuthTrouble'
  BY CalmBefore
<1>3. ListsPresent /\ MineIsOwners /\ UsersWrites /\ PurgedEarlier /\ NoCrossing
  BY <1>2 DEF OwnersInv
<1>4. SessionInv' /\ Typed'
  BY SessionStateStep DEF SessionState
<1> USE DEF ListsPresent, MineIsOwners, UsersWrites, PurgedEarlier, NoCrossing, Mine
<1>5. CASE (\E u \in Users : Login(u)) \/ Logout \/ DeleteAccount \/ RefreshUser
  <2>1. Writes' = Writes /\ Live' = Live /\ UNCHANGED <<cookie, identity, deleted>>
    BY <1>1, <1>5, AuthStepWrites, AuthStepChanges
  <2>2. inflight \subseteq inflight'
    BY <1>1, <1>5, AuthStepSends
  <2>3. Sent("delete") \subseteq Sent("delete")'
    BY <2>2 DEF Sent
  <2> QED BY <1>3, <2>1, <2>3
<1>6. CASE WriteStep \/ ClearAll
  <2>1. Live' = {} /\ \A w \in Writes' : w \in Writes \/ (w.jar = cookie /\ w.by = identity)
    BY <1>6, NewWrites
  <2>2. UNCHANGED <<cookie, identity, auth, deleted>> /\ Sent("delete")' = Sent("delete")
    BY <1>1, <1>6, WriteStepChanges, WriteStepOthers
  <2>3. \A u \in Users : identity = <<"user", u>> => cookie.user = u
    <3>1. \A u \in Users : identity = <<"user", u>> => auth.user = u /\ u # NoUser
      BY <1>1, ConstantsTyped DEF ReadsInv, identityKey, Anon
    <3> QED BY <1>1, <1>2, <3>1 DEF SessionInv, ShownIsSession
  <2>4. cookie.user \in deleted => \E r \in Sent("delete") : r.served
    BY <1>1, <1>2 DEF SessionInv, SessionLives
  <2>5. MineIsOwners'
    BY <1>3, <2>1, <2>2 DEF SameOwner
  <2>6. UsersWrites'
    BY <1>3, <2>1, <2>2, <2>3
  <2>7. PurgedEarlier'
    BY <1>3, <2>1, <2>2, <2>4
  <2> QED BY <2>1, <2>5, <2>6, <2>7
<1>7. ASSUME NEW r \in inflight, Serve(r)
      PROVE  ListsPresent' /\ MineIsOwners' /\ UsersWrites' /\ PurgedEarlier' /\ NoCrossing'
  <2>1. UNCHANGED <<cookie, identity>> /\ ~r.served /\ inflight' = (inflight \ {r}) \cup {Served(r)}
    BY <1>7 DEF Serve
  <2>2. Served(r).kind = r.kind /\ Served(r).jar = r.jar /\ Served(r).by = r.by
        /\ Served(r).served = TRUE /\ (r.kind = "list" => Served(r).live = r.live)
    BY <1>1, ServedTyped
  <2>3. \A w \in Writes' : \E x \in Writes : w.jar = x.jar /\ w.by = x.by
    BY <1>1, <1>7, ServeWrites
  <2>4. \A q \in Live' : \E p \in Live : p.jar = q.jar
    BY <2>1, <2>2 DEF Live, Sent
  <2>5. (\E q \in Sent("delete") : q.served) => \E q \in Sent("delete")' : q.served
    BY <2>1 DEF Sent
  <2>6. deleted' \subseteq deleted \/ \E q \in Sent("delete")' : q.served
    <3>1. r.kind = "delete" => Served(r) \in Sent("delete")' /\ Served(r).served
      BY <2>1, <2>2 DEF Sent
    <3>2. r.kind # "delete" => deleted' \subseteq deleted
      BY <1>7 DEF Serve
    <3> QED BY <3>1, <3>2
  <2>7. MineIsOwners' /\ UsersWrites'
    BY <1>3, <2>1, <2>3 DEF SameOwner
  <2>8. PurgedEarlier'
    BY <1>3, <2>1, <2>3, <2>5, <2>6
  <2> QED BY <1>3, <2>1, <2>3, <2>4, <2>7, <2>8
<1>8. ASSUME NEW r \in inflight, Answer(r), identity' = identity
      PROVE  ListsPresent' /\ MineIsOwners' /\ UsersWrites' /\ PurgedEarlier' /\ NoCrossing'
  <2>1. /\ cookie' = cookie /\ deleted' = deleted /\ Writes' = Writes \ {r} /\ Live' = Live \ {r}
        /\ inflight' = Rest(r) /\ (r \in AuthOps => ~r.served)
    BY <1>8, AnswerStays
  <2>2. \A q \in Sent("delete") : q.served => q \in Sent("delete")'
    BY <2>1 DEF Sent, Rest, AuthOps
  <2>3. ListsPresent' /\ NoCrossing'
    BY <1>3, <1>8, <2>1
  <2>4. MineIsOwners' /\ UsersWrites' /\ PurgedEarlier'
    BY <1>3, <1>8, <2>1, <2>2
  <2> QED BY <2>3, <2>4
<1>9. ASSUME NEW r \in inflight, Answer(r), identity' # identity
      PROVE  ListsPresent' /\ MineIsOwners' /\ UsersWrites' /\ PurgedEarlier' /\ NoCrossing'
  <2>1. /\ deleted' = deleted /\ AuthOps' = {} /\ Writes' = Writes
        /\ \E new \in inflight' : /\ Live' = {new} /\ new.by = identity'
                                 /\ new.jar = cookie' /\ ~new.served
        /\ \A w \in Writes : Owner(w.jar, deleted) # Owner(cookie', deleted)
        /\ auth'.user # NoUser \/ auth'.device > auth.device
        /\ (r \in Sent("delete") /\ r.served) => cookie'.aid > cookie.aid
    BY <1>9, AnswerMoves
  <2>2. cookie'.user \notin deleted
    BY <1>2, <1>4, <2>1 DEF SessionInv, SessionLives, AuthOps, Sent
  <2>3. \A w \in Writes : ~SameOwner(w.jar, cookie')
    BY <2>1, <2>2 DEF SameOwner, Owner
  <2>4. ASSUME NEW w \in Writes, w.by = identity' PROVE FALSE
    <3>1. identity' = identityKey(auth'.user, auth'.device)
      BY SessionStateStep DEF SessionState, ReadsInv
    <3>2. auth'.user \in Users \cup {NoUser} /\ auth'.device \in 0..MaxOps /\ auth.device \in Nat
      BY <1>1, <1>4 DEF Typed, AuthTyped
    <3>3. CASE auth'.user # NoUser
      <4>1. auth'.user \in Users /\ w.by = <<"user", auth'.user>>
        BY <2>4, <3>1, <3>2, <3>3 DEF identityKey
      <4>2. w.jar.user = auth'.user
        BY <1>3, <4>1
      <4>3. cookie'.user = auth'.user
        BY <1>2, <1>4, <3>3 DEF SessionInv, ShownIsSession
      <4> QED BY <2>3, <3>3, <4>2, <4>3 DEF SameOwner
    <3>4. CASE auth'.user = NoUser
      <4>1. w.by = Anon(auth'.device)
        BY <2>4, <3>1, <3>4 DEF identityKey
      <4>2. auth'.device <= auth.device
        BY <3>2, <4>1 DEF WritesInv
      <4> QED BY <2>1, <3>2, <3>4, <4>2
    <3> QED BY <3>3, <3>4
  <2>5. PurgedEarlier'
    <3> SUFFICES ASSUME NEW w \in Writes, w.jar.user \in deleted PROVE w.jar.aid < cookie'.aid
      BY <2>1
    <3>1. w.jar.aid \in Nat /\ cookie.aid \in Nat /\ cookie'.aid \in Nat /\ w.jar.aid <= cookie.aid
      BY <1>1, <1>4, WriteFields DEF Typed, AuthTyped, Jars, WritesInv
    <3>2. cookie.aid <= cookie'.aid
      BY <1>1, <1>9, AnswerForward
    <3>3. CASE w.jar.aid < cookie.aid
      BY <3>1, <3>2, <3>3
    <3>4. CASE \E q \in Sent("delete") : q.served
      <4>1. PICK q \in Sent("delete") : q.served
        BY <3>4
      <4>2. q = r
        <5>1. q \in AuthOps /\ AuthOps' = AuthOps \ {r}
          BY <1>1, <1>9, AnswerKinds DEF AuthOps, Sent
        <5> QED BY <2>1, <5>1
      <4> QED BY <2>1, <3>1, <4>1, <4>2
    <3> QED BY <1>3, <3>3, <3>4
  <2>6. ListsPresent' /\ NoCrossing'
    BY <2>1, <2>4
  <2>7. MineIsOwners'
    BY <2>1, <2>3, <2>4 DEF SameOwner
  <2>8. UsersWrites'
    BY <1>3, <2>1
  <2> QED BY <2>5, <2>6, <2>7, <2>8
<1>10. CASE UNCHANGED vars
  <2>1. UNCHANGED <<cookie, identity, deleted, inflight>>
    BY <1>10 DEF vars
  <2> QED BY <1>3, <2>1 DEF Writes, Sent, Live
<1> QED BY <1>5, <1>6, <1>7, <1>8, <1>9, <1>10, Steps

----------------------------------------------------------------------------
(* What the view shows of the server's rows *)

\* What the server keeps for the viewer.
Kept == {e \in Events : rows[Viewer][e] # Absent}

LEMMA ViewerOwner ==
    ASSUME SessionState, ~AuthTrouble, ~ServerAhead
    PROVE  Owner(cookie, deleted) = Viewer /\ Viewer \in Identities
<1>1. cookie \in Jars /\ SessionInv
  BY DEF SessionState, Typed, AuthTyped
<1>2. cookie.user \notin deleted
  BY <1>1 DEF ServerAhead, AuthOps, Sent, SessionInv, SessionLives
<1> QED BY <1>1, <1>2, OwnersOf, OwnerTyped DEF Viewer

\* While the server is not ahead it changes the viewer's rows only for the
\* writes of the identity shown, and then the row of the written event.
LEMMA ServeRows ==
    ASSUME SessionState, OwnersInv, Calm, NEW r \in inflight, Serve(r), ~ServerAhead'
    PROVE  /\ r \notin AuthOps /\ ~ServerAhead /\ Viewer' = Viewer
           /\ r \notin Mine => rows'[Viewer] = rows[Viewer]
           /\ r \in Mine =>
                rows'[Viewer] = [rows[Viewer] EXCEPT ![r.event] =
                    IF r.kind = "clear" THEN Absent ELSE WrittenRow(r, Viewer)]
<1>1. Typed /\ SessionInv /\ MineIsOwners /\ PurgedEarlier /\ ~AuthTrouble
  BY DEF SessionState, OwnersInv, Calm, AuthTrouble
<1>2. inflight' = (inflight \ {r}) \cup {Served(r)} /\ cookie' = cookie
  BY DEF Serve
<1>3. Served(r).kind = r.kind /\ Served(r).served = TRUE
  BY <1>1, ServedTyped
<1>4. r \notin AuthOps
  BY <1>2, <1>3 DEF ServerAhead, AuthOps
<1>5. ~ServerAhead
  BY <1>2, <1>4 DEF ServerAhead, AuthOps
<1>6. Viewer' = Viewer
  BY <1>2 DEF Viewer
<1>7. Viewer \in Identities /\ rows \in [Identities -> [Events -> Held]]
  BY <1>1, <1>5, ViewerOwner DEF Typed, ServerTyped
<1>8. CASE r \in Writes
  <2>1. r \in Mine <=> Owner(r.jar, deleted) = Viewer
    BY <1>1, <1>5, <1>8, WritesOwner
  <2>2. r.kind \in {"write", "clear"} /\ r.jar \in Jars /\ r.event \in Events
    BY <1>1, <1>8, WriteFields DEF Writes
  <2>3. rows' = SetRow(Owner(r.jar, deleted), r.event,
                  IF r.kind = "clear" THEN Absent ELSE WrittenRow(r, Owner(r.jar, deleted)))
    BY <2>2 DEF Serve
  <2>4. Owner(r.jar, deleted) \in Identities
    BY <2>2, OwnerTyped
  <2>5. \A o \in Identities : \A x : SetRow(o, r.event, x)[Viewer] =
            IF o = Viewer THEN [rows[Viewer] EXCEPT ![r.event] = x] ELSE rows[Viewer]
    BY <1>7 DEF SetRow
  <2> HIDE DEF Mine
  <2>6. CASE r \in Mine
    BY <1>4, <1>5, <1>6, <2>1, <2>3, <2>4, <2>5, <2>6
  <2>7. CASE r \notin Mine
    BY <1>4, <1>5, <1>6, <2>1, <2>3, <2>4, <2>5, <2>7
  <2> QED BY <2>6, <2>7
<1>9. CASE r \notin Writes
  <2>1. r.kind \notin {"write", "clear", "login", "delete"}
    BY <1>4, <1>9 DEF Writes, AuthOps
  <2>2. rows' = rows
    BY <2>1 DEF Serve
  <2> QED BY <1>4, <1>5, <1>6, <1>9, <2>2 DEF Mine
<1> QED BY <1>8, <1>9

\* A live list that has been served still tells what the server keeps.
ListFresh ==
    Calm /\ ~ServerAhead => \A r \in Live : r.served => r.result = rows[Viewer]

LEMMA ListFreshStep ==
    ASSUME SessionState, WritesInv, OwnersInv, ListFresh, [Next]_vars
    PROVE  ListFresh'
<1> SUFFICES ASSUME Calm', ~ServerAhead', NEW q \in Live', q.served
             PROVE  q.result = rows'[Viewer']
  BY DEF ListFresh
<1>1. Typed /\ Calm /\ ~AuthTrouble /\ ListsPresent /\ NoCrossing
  BY CalmBefore DEF SessionState, OwnersInv
<1>2. CASE (\E u \in Users : Login(u)) \/ Logout \/ DeleteAccount \/ RefreshUser
  <2>1. Live' = Live /\ UNCHANGED <<cookie, rows>>
    BY <1>1, <1>2, AuthStepWrites, AuthStepChanges
  <2>2. inflight \subseteq inflight'
    BY <1>1, <1>2, AuthStepSends
  <2>3. ~ServerAhead
    BY <2>2 DEF ServerAhead, AuthOps
  <2>4. Viewer' = Viewer
    BY <2>1 DEF Viewer
  <2> QED BY <1>1, <2>1, <2>3, <2>4 DEF ListFresh
<1>3. CASE WriteStep \/ ClearAll
  BY <1>3, NewWrites
<1>4. ASSUME NEW r \in inflight, Serve(r) PROVE q.result = rows'[Viewer']
  <2>1. ~ServerAhead /\ Viewer' = Viewer /\ (r \notin Mine => rows'[Viewer] = rows[Viewer])
    BY <1>1, <1>4, ServeRows
  <2>2. inflight' = (inflight \ {r}) \cup {Served(r)}
    BY <1>4 DEF Serve
  <2>3. /\ Served(r).kind = r.kind
        /\ r.kind = "list" => Served(r).live = r.live
             /\ Served(r).result = rows[Owner(r.jar, deleted)]
    BY <1>1, ServedTyped
  <2>4. (q \in Live /\ q # r) \/ (q = Served(r) /\ r \in Live)
    BY <2>2, <2>3 DEF Live, Sent
  <2>5. Mine = {}
    BY <1>1, <2>4 DEF NoCrossing
  <2>6. rows'[Viewer'] = rows[Viewer]
    BY <2>1, <2>5
  <2>7. CASE q \in Live /\ q # r
    BY <1>1, <2>1, <2>6, <2>7 DEF ListFresh
  <2>8. CASE q = Served(r) /\ r \in Live
    <3>1. Owner(r.jar, deleted) = Viewer
      BY <1>1, <2>1, <2>8, ViewerOwner DEF ListsPresent
    <3> QED BY <2>3, <2>6, <2>8, <3>1 DEF Live, Sent
  <2> QED BY <2>4, <2>7, <2>8
<1>5. ASSUME NEW r \in inflight, Answer(r) PROVE q.result = rows'[Viewer']
  <2>1. CASE identity' = identity
    <3>1. cookie' = cookie /\ rows' = rows /\ Live' = Live \ {r} /\ ServerAhead' = ServerAhead
      BY <1>5, <2>1, AnswerStays
    <3>2. Viewer' = Viewer
      BY <3>1 DEF Viewer
    <3> QED BY <1>1, <3>1, <3>2 DEF ListFresh
  <2>2. CASE identity' # identity
    BY <1>5, <2>2, AnswerMoves
  <2> QED BY <2>1, <2>2
<1>6. CASE UNCHANGED vars
  <2>1. UNCHANGED <<cookie, rows, inflight>>
    BY <1>6 DEF vars
  <2> QED BY <1>1, <2>1 DEF ListFresh, Live, Sent, ServerAhead, AuthOps, Viewer
<1> QED BY <1>2, <1>3, <1>4, <1>5, <1>6, Steps

\* What one write of the user does to the view and which races it marks.
Writing(e, w) ==
    /\ w \in WriteRequests /\ w \notin inflight /\ inflight' = inflight \cup {w}
    /\ w.by = identity /\ ~w.served /\ w.event = e /\ w.before = view
    /\ WriteRaces(e) \subseteq met' /\ (provider = "saved" => AudienceRaces \subseteq met')
    /\ \/ /\ w.action = "add" /\ e \notin view.ids /\ view'.ids = view.ids \cup {e}
          /\ w.audience = NoAudience => "audienceOmitted" \in met'
          /\ w.audience # NoAudience =>
               view'.audience = [view.audience EXCEPT ![e] = w.audience]
       \/ /\ w.action = "remove" /\ e \in view.ids /\ view'.ids = view.ids \ {e}
          /\ provider = "saved" => view'.audience = view.audience
          /\ provider = "attending" =>
               view'.audience = [view.audience EXCEPT ![e] = NoAudience]
       \/ /\ w.action = "audience" /\ e \in view.ids /\ view'.ids = view.ids
          /\ w.audience \in Audiences
          /\ view'.audience = [view.audience EXCEPT ![e] = w.audience]

LEMMA WriteStepView ==
    ASSUME Typed, WriteStep
    PROVE  \E e \in Events : \E w : Writing(e, w)
<1>1. FreeSlots(inflight) # {}
  BY DEF WriteStep, ToggleSave, ToggleAttending, SetAudience, Operation
<1>2. view \in Views /\ provider \in {"saved", "attending"}
  BY DEF Typed, ShownTyped, RestTyped
<1>3. ASSUME NEW e \in Events, NEW action \in {"add", "remove", "audience"},
             NEW a \in Audiences \cup {NoAudience}, Operation(WriteRequest(e, action, a))
      PROVE  LET w == WriteRequest(e, action, a)
             IN  /\ w \in WriteRequests /\ w \notin inflight /\ inflight' = inflight \cup {w}
                 /\ w.by = identity /\ ~w.served /\ w.event = e /\ w.before = view
                 /\ w.action = action /\ w.audience = a
  <2> DEFINE w == WriteRequest(e, action, a)
  <2>1. w \in Requests /\ w.n = Slot(inflight)
    BY <1>1, <1>3, WriteRequestTyped
  <2>2. w.kind = "write" /\ w.by = identity /\ w.served = FALSE /\ w.event = e
        /\ w.before = view /\ w.action = action /\ w.audience = a
    BY DEF WriteRequest
  <2> HIDE DEF w
  <2>3. w \in WriteRequests
    BY <2>1, <2>2, KindTyped
  <2>4. w \notin inflight /\ inflight' = inflight \cup {w}
    BY <1>3, <2>1, Sends DEF Typed, w
  <2>5. /\ w \in WriteRequests /\ w \notin inflight /\ inflight' = inflight \cup {w}
        /\ w.by = identity /\ ~w.served /\ w.event = e /\ w.before = view
        /\ w.action = action /\ w.audience = a
    BY <2>2, <2>3, <2>4
  <2> QED BY <2>5 DEF w
<1>4. ASSUME NEW e \in Events, NEW a \in Audiences \cup {NoAudience}, ToggleSave(e, a)
      PROVE  \E w : Writing(e, w)
  <2> DEFINE action == IF e \in view.ids THEN "remove" ELSE "add"
             given == IF e \in view.ids THEN NoAudience ELSE a
             w == WriteRequest(e, action, given)
  <2>1. Operation(w) /\ provider = "saved"
        /\ met' = met \cup WriteRaces(e) \cup AudienceRaces \cup Omitted(e, a)
    BY <1>4 DEF ToggleSave
  <2>2. view' = [ids |-> Flipped(e),
                 audience |-> IF e \notin view.ids /\ a # NoAudience
                              THEN [view.audience EXCEPT ![e] = a] ELSE view.audience]
    BY <1>4 DEF ToggleSave, SetView
  <2>3. /\ w \in WriteRequests /\ w \notin inflight /\ inflight' = inflight \cup {w}
        /\ w.by = identity /\ ~w.served /\ w.event = e /\ w.before = view
        /\ w.action = action /\ w.audience = given
    BY <1>3, <2>1
  <2> HIDE DEF w
  <2>4. Writing(e, w)
    BY <2>1, <2>2, <2>3 DEF Writing, Flipped, Omitted
  <2> QED BY <2>4
<1>5. ASSUME NEW e \in Events, NEW a \in Audiences \cup {NoAudience}, ToggleAttending(e, a)
      PROVE  \E w : Writing(e, w)
  <2> DEFINE action == IF e \in view.ids THEN "remove" ELSE "add"
             given == IF e \in view.ids THEN NoAudience ELSE a
             w == WriteRequest(e, action, given)
  <2>1. Operation(w) /\ provider = "attending"
        /\ met' = met \cup WriteRaces(e) \cup Omitted(e, a)
    BY <1>5 DEF ToggleAttending
  <2>2. view' = [ids |-> Flipped(e),
                 audience |-> IF e \in view.ids THEN [view.audience EXCEPT ![e] = NoAudience]
                              ELSE IF a # NoAudience
                              THEN [view.audience EXCEPT ![e] = a] ELSE view.audience]
    BY <1>5 DEF ToggleAttending, SetView
  <2>3. /\ w \in WriteRequests /\ w \notin inflight /\ inflight' = inflight \cup {w}
        /\ w.by = identity /\ ~w.served /\ w.event = e /\ w.before = view
        /\ w.action = action /\ w.audience = given
    BY <1>3, <2>1
  <2> HIDE DEF w
  <2>4. Writing(e, w)
    BY <2>1, <2>2, <2>3 DEF Writing, Flipped, Omitted
  <2> QED BY <2>4
<1>6. ASSUME NEW e \in Events, NEW a \in Audiences, SetAudience(e, a)
      PROVE  \E w : Writing(e, w)
  <2> DEFINE w == WriteRequest(e, "audience", a)
  <2>1. Operation(w) /\ e \in view.ids
        /\ met' = met \cup WriteRaces(e) \cup AudienceRaces
    BY <1>6 DEF SetAudience
  <2>2. view' = [view EXCEPT !.audience[e] = a]
    BY <1>6 DEF SetAudience, SetView
  <2>3. view'.ids = view.ids /\ view'.audience = [view.audience EXCEPT ![e] = a]
    BY <1>2, <2>2 DEF Views
  <2>4. /\ w \in WriteRequests /\ w \notin inflight /\ inflight' = inflight \cup {w}
        /\ w.by = identity /\ ~w.served /\ w.event = e /\ w.before = view
        /\ w.action = "audience" /\ w.audience = a
    BY <1>3, <2>1
  <2> HIDE DEF w
  <2>5. Writing(e, w)
    BY <2>1, <2>3, <2>4 DEF Writing
  <2> QED BY <2>5
<1> QED BY <1>4, <1>5, <1>6 DEF WriteStep

\* Two writes of one event, or of an attending list, are not under way at once,
OneWriteEach ==
    \A w, x \in Mine : w.event = x.event \/ provider = "attending" => w = x

\* nor is one of an event that clearAll is going to show again.
Returning == IF \E c \in Sent("clear") : c.by = identity THEN unsaved ELSE {}
NoneReturning == \A w \in Mine : w.event \notin Returning

\* An event nothing is under way for is shown as the server keeps it,
SettledShown ==
    \A e \in Events : e \notin Returning /\ (\A w \in Mine : w.event # e)
        => (e \in view.ids <=> e \in Kept)

\* one written is shown as it will be kept if the server accepts,
Flight(w) ==
    /\ w.kind = "clear" \/ w.action = "remove" =>
         w.event \notin view.ids /\ (w.event \in Kept <=> ~w.served)
    /\ w.kind = "write" /\ w.action = "add" =>
         w.event \in view.ids /\ (w.event \in Kept <=> w.served)
    /\ w.kind = "write" /\ w.action = "audience" =>
         w.event \in view.ids /\ w.event \in Kept

\* one that failed to clear is kept and not shown yet,
ReturningKept == \A e \in Returning : e \notin view.ids /\ e \in Kept

\* and an attending list goes back to what the server keeps.
SnapshotKept ==
    provider = "attending" => \A w \in Mine : ~w.served => w.before.ids = Kept

ViewShown == SettledShown /\ (\A w \in Mine : Flight(w)) /\ ReturningKept /\ SnapshotKept

ViewInv ==
    Calm => OneWriteEach /\ NoneReturning /\ (~ServerAhead /\ Live = {} => ViewShown)

LEMMA ViewInit == Init => ViewInv
<1> SUFFICES ASSUME Init PROVE ViewInv
  OBVIOUS
<1> DEFINE m == [n |-> 1, kind |-> "me", jar |-> cookie, served |-> FALSE,
                 by |-> Anon(0), gen |-> 1, first |-> TRUE, result |-> NoUser]
           l == [n |-> 2, kind |-> "list", jar |-> cookie, served |-> FALSE,
                 by |-> Anon(0), live |-> TRUE, result |-> Unknown]
<1>1. inflight = {m, l} /\ m.kind = "me" /\ l.kind = "list" /\ l.live = TRUE
  BY DEF Init
<1> HIDE DEF m, l
<1>2. Writes = {} /\ Live # {}
  BY <1>1 DEF Writes, Live, Sent
<1> QED BY <1>2 DEF ViewInv, OneWriteEach, NoneReturning, Mine

\* A step that changes neither the view nor what it is compared with.
LEMMA ViewFrame ==
    ASSUME ViewInv, Calm, provider' = provider, view' = view, Mine' = Mine,
           Returning' = Returning, Live' = {} => Live = {},
           ~ServerAhead' => ~ServerAhead /\ Kept' = Kept
    PROVE  ViewInv'
<1> SUFFICES OneWriteEach' /\ NoneReturning' /\ (~ServerAhead' /\ Live' = {} => ViewShown')
  BY DEF ViewInv
<1>1. OneWriteEach' /\ NoneReturning'
  BY DEF ViewInv, OneWriteEach, NoneReturning
<1>2. ASSUME ~ServerAhead', Live' = {} PROVE ViewShown'
  <2>1. Kept' = Kept /\ ViewShown
    BY <1>2 DEF ViewInv
  <2>2. SettledShown' /\ ReturningKept'
    BY <2>1 DEF ViewShown, SettledShown, ReturningKept
  <2>3. \A w \in Mine : Flight(w)'
    BY <2>1 DEF ViewShown, Flight
  <2>4. SnapshotKept'
    BY <2>1 DEF ViewShown, SnapshotKept
  <2> QED BY <2>2, <2>3, <2>4 DEF ViewShown
<1> QED BY <1>1, <1>2

\* What every write under way says.
LEMMA MineFields ==
    ASSUME Typed
    PROVE  \A w \in Mine : /\ w.event \in Events /\ w.served \in BOOLEAN
                           /\ w.kind \in {"write", "clear"}
                           /\ w.kind = "write" => w.action \in {"add", "remove", "audience"}
                                /\ w.before \in Views /\ w \in WriteRequests
                           /\ w \in inflight
BY WriteFields DEF Mine, Writes, WriteRequests

LEMMA ViewWriteStep ==
    ASSUME SessionState, WritesInv, OwnersInv, ViewInv, Calm, Calm', WriteStep
    PROVE  ViewInv'
<1>1. Typed
  BY DEF SessionState
<1>2. PICK e \in Events : \E w : Writing(e, w)
  BY <1>1, WriteStepView
<1>3. PICK w : Writing(e, w)
  BY <1>2
<1>4. /\ w \in WriteRequests /\ w.kind = "write" /\ w.by = identity /\ ~w.served
      /\ w.event = e /\ w.before = view /\ w \notin inflight
      /\ inflight' = inflight \cup {w}
  BY <1>3 DEF Writing, WriteRequests
<1>5. UNCHANGED <<provider, cookie, identity, rows, unsaved>> /\ AuthOps' = AuthOps
  BY <1>1, WriteStepChanges, WriteStepOthers
<1>6. Live = {} /\ Live' = {}
  BY NewWrites
<1>7. Mine' = Mine \cup {w} /\ w \notin Mine /\ Sent("clear")' = Sent("clear")
  BY <1>4, <1>5 DEF Mine, Writes, Sent
<1>8. Returning' = Returning /\ Kept' = Kept /\ ServerAhead' = ServerAhead
  BY <1>5, <1>7 DEF Returning, Kept, Viewer, ServerAhead
<1>9. e \notin unsaved /\ \A x \in Writes : x.event # e /\ provider # "attending"
  <2>1. "writesOverlap" \notin WriteRaces(e)
    BY <1>3 DEF Writing, Calm
  <2> QED BY <2>1 DEF WriteRaces
<1>10. Mine \subseteq Writes /\ e \notin Returning
  BY <1>9 DEF Mine, Returning
<1>11. OneWriteEach /\ NoneReturning /\ (~ServerAhead => ViewShown)
  BY <1>6 DEF ViewInv
<1>12. OneWriteEach'
  <2> SUFFICES ASSUME NEW x \in Mine', NEW y \in Mine',
                      x.event = y.event \/ provider = "attending"
               PROVE  x = y
    BY <1>5 DEF OneWriteEach
  <2> QED BY <1>4, <1>7, <1>9, <1>10, <1>11 DEF OneWriteEach
<1>13. NoneReturning'
  BY <1>4, <1>7, <1>8, <1>10, <1>11 DEF NoneReturning
<1>14. ASSUME ~ServerAhead' PROVE ViewShown'
  <2>1. SettledShown /\ (\A x \in Mine : Flight(x)) /\ ReturningKept /\ SnapshotKept
    BY <1>8, <1>11, <1>14 DEF ViewShown
  <2>2. view.ids \subseteq Events /\ Kept \subseteq Events /\ \A x \in Mine : x.event \in Events
    BY <1>1, MineFields DEF Typed, ShownTyped, Views, Kept
  <2>3. \A d \in Events : d # e => (d \in view'.ids <=> d \in view.ids)
    BY <1>3 DEF Writing
  <2>4. e \in view.ids <=> e \in Kept
    BY <1>9, <1>10, <2>1 DEF SettledShown
  <2>5. SettledShown'
    <3> SUFFICES ASSUME NEW d \in Events, d \notin Returning, \A x \in Mine' : x.event # d
                 PROVE  d \in view'.ids <=> d \in Kept
      BY <1>8 DEF SettledShown
    <3>1. d # e /\ \A x \in Mine : x.event # d
      BY <1>4, <1>7
    <3> QED BY <2>1, <2>3, <3>1 DEF SettledShown
  <2>6. ASSUME NEW x \in Mine PROVE Flight(x)'
    <3>1. x.event # e /\ x.event \in Events
      BY <1>9, <1>10, <2>2
    <3> QED BY <1>8, <2>1, <2>3, <3>1 DEF Flight
  <2>7. Flight(w)'
    BY <1>3, <1>4, <1>8, <2>4 DEF Flight, Writing
  <2>8. ReturningKept'
    BY <1>8, <1>10, <2>1, <2>3 DEF ReturningKept, Kept
  <2>9. SnapshotKept'
    <3> SUFFICES ASSUME provider = "attending", NEW x \in Mine', ~x.served
                 PROVE  x.before.ids = Kept
      BY <1>5, <1>8 DEF SnapshotKept
    <3>1. Mine = {} /\ x = w
      BY <1>7, <1>9, <1>10
    <3>2. Returning = {}
      BY DEF Returning, WritesInv
    <3>3. view.ids = Kept
      BY <2>1, <2>2, <3>1, <3>2 DEF SettledShown
    <3> QED BY <1>4, <3>1, <3>3
  <2> QED BY <1>7, <2>5, <2>6, <2>7, <2>8, <2>9 DEF ViewShown
<1> QED BY <1>12, <1>13, <1>14 DEF ViewInv

LEMMA ViewClearAll ==
    ASSUME SessionState, WritesInv, OwnersInv, ViewInv, Calm, Calm', ClearAll
    PROVE  ViewInv'
<1>1. Typed
  BY DEF SessionState
<1>2. UNCHANGED <<provider, cookie, identity, rows, unsaved>> /\ AuthOps' = AuthOps
  BY <1>1, WriteStepChanges, WriteStepOthers
<1>3. Live = {} /\ Live' = {}
  BY NewWrites
<1>4. provider = "saved" /\ Sent("clear") = {} /\ unsaved = {} /\ Returning = {} /\ Returning' = {}
  BY <1>1, <1>2, ClearAllWrites DEF WritesInv, Returning
<1>5. Kept' = Kept /\ ServerAhead' = ServerAhead
  BY <1>2 DEF Kept, Viewer, ServerAhead
<1>6. /\ Mine \subseteq Mine'
      /\ \A w \in Mine' : w \notin Mine =>
            w.kind = "clear" /\ ~w.served /\ w.event \in view.ids
      /\ \A e \in view.ids : \E w \in Mine' : w \notin Mine /\ w.event = e
      /\ \A w, x \in Mine' : w \notin Mine /\ x \notin Mine /\ w.event = x.event => w = x
  BY <1>1, <1>2, ClearAllWrites DEF Mine
<1>7. \A x \in Mine : x.event \notin view.ids
  <2> SUFFICES ASSUME NEW x \in Mine, x.event \in view.ids PROVE FALSE
    OBVIOUS
  <2>1. WriteRaces(x.event) \subseteq met'
    BY DEF ClearAll
  <2>2. "writesOverlap" \in WriteRaces(x.event)
    BY DEF WriteRaces, Mine
  <2> QED BY <2>1, <2>2 DEF Calm
<1>8. view'.ids = {}
  BY <1>1 DEF ClearAll, SetView, Typed, ShownTyped, Views
<1>9. OneWriteEach /\ (~ServerAhead => ViewShown)
  BY <1>3 DEF ViewInv
<1>10. OneWriteEach'
  <2> SUFFICES ASSUME NEW x \in Mine', NEW y \in Mine', x.event = y.event PROVE x = y
    BY <1>2, <1>4 DEF OneWriteEach
  <2>1. CASE x \in Mine /\ y \in Mine
    BY <1>9, <2>1 DEF OneWriteEach
  <2> QED BY <1>6, <1>7, <2>1
<1>11. NoneReturning' /\ ReturningKept'
  BY <1>4 DEF NoneReturning, ReturningKept
<1>12. ASSUME ~ServerAhead' PROVE ViewShown'
  <2>1. SettledShown /\ (\A x \in Mine : Flight(x))
    BY <1>5, <1>9, <1>12 DEF ViewShown
  <2>2. view.ids \subseteq Events
    BY <1>1 DEF Typed, ShownTyped, Views
  <2>3. SettledShown'
    <3> SUFFICES ASSUME NEW d \in Events, \A x \in Mine' : x.event # d
                 PROVE  d \notin Kept
      BY <1>5, <1>8 DEF SettledShown
    <3> QED BY <1>4, <1>6, <2>1 DEF SettledShown
  <2>4. ASSUME NEW x \in Mine PROVE Flight(x)'
    <3>1. Flight(x) /\ x.event \notin view.ids
      BY <1>7, <2>1
    <3> QED BY <1>5, <1>8, <3>1 DEF Flight
  <2>5. ASSUME NEW x \in Mine', x \notin Mine PROVE Flight(x)'
    <3>1. x.kind = "clear" /\ ~x.served /\ x.event \in view.ids
      BY <1>6, <2>5
    <3>2. \A y \in Mine : y.event # x.event
      BY <1>7, <3>1
    <3>3. x.event \in Kept
      BY <1>4, <2>1, <2>2, <3>1, <3>2 DEF SettledShown
    <3> QED BY <1>5, <1>8, <3>1, <3>3 DEF Flight
  <2>6. SnapshotKept'
    BY <1>2, <1>4 DEF SnapshotKept
  <2> QED BY <1>11, <2>3, <2>4, <2>5, <2>6 DEF ViewShown
<1> QED BY <1>10, <1>11, <1>12 DEF ViewInv

\* What the server keeps of an event after it has served a write of it.
LEMMA WrittenKept ==
    ASSUME Typed, NEW o \in Identities, NEW r \in WriteRequests
    PROVE  WrittenRow(r, o) # Absent <=> r.action # "remove"
<1>1. r.event \in Events /\ r.audience \in Audiences \cup {NoAudience}
  BY DEF WriteRequests
<1>2. RowAudience(o, r.audience) # Absent
  BY <1>1, ConstantsTyped DEF RowAudience, Absent
<1> QED BY <1>2 DEF WrittenRow

LEMMA ViewServe ==
    ASSUME SessionState, WritesInv, OwnersInv, ViewInv, Calm, Calm',
           NEW r \in inflight, Serve(r)
    PROVE  ViewInv'
<1>1. Typed
  BY DEF SessionState
<1>2. UNCHANGED <<provider, cookie, identity, view, unsaved>> /\ ~r.served
      /\ inflight' = (inflight \ {r}) \cup {Served(r)}
  BY DEF Serve
<1>3. /\ Served(r).kind = r.kind /\ Served(r).by = r.by /\ Served(r).served = TRUE
      /\ r.kind = "list" => Served(r).live = r.live
      /\ r.kind \in {"write", "clear"} => Served(r).event = r.event
      /\ r.kind = "write" => Served(r).action = r.action
  BY <1>1, ServedTyped
<1>4. Live' = {} => Live = {}
  <2>1. \A q \in Live : q \in Live' \/ (q = r /\ Served(r) \in Live')
    BY <1>2, <1>3 DEF Live, Sent
  <2> QED BY <2>1
<1>5. Returning' = Returning
  <2>1. \A q \in Sent("clear")' : \E p \in Sent("clear") : p.by = q.by
    BY <1>1, ServeWrites
  <2>2. \A q \in Sent("clear") : \E p \in Sent("clear")' : p.by = q.by
    BY <1>1, ServeWrites
  <2> QED BY <1>2, <2>1, <2>2 DEF Returning
<1>6. CASE r \notin Mine
  <2>1. Mine' = Mine
    <3>1. \A w : w \in Mine' <=> w \in Mine
      BY <1>2, <1>3, <1>6 DEF Mine, Writes
    <3> QED BY <3>1
  <2>2. ~ServerAhead' => ~ServerAhead /\ Kept' = Kept
    BY <1>6, ServeRows DEF Kept
  <2> QED BY <1>2, <1>4, <1>5, <2>1, <2>2, ViewFrame
<1>7. CASE r \in Mine
  <2>0. PICK s : s = Served(r)
    OBVIOUS
  <2>1. Mine' = (Mine \ {r}) \cup {s} /\ s.event = r.event /\ s.kind = r.kind /\ s.served = TRUE
        /\ (r.kind = "write" => s.action = r.action) /\ r.kind \in {"write", "clear"}
    BY <1>2, <1>3, <1>7, <2>0 DEF Mine, Writes
  <2>2. OneWriteEach /\ NoneReturning
    BY DEF ViewInv
  <2>3. \A x \in Mine \ {r} : x.event # r.event /\ provider # "attending"
    BY <1>7, <2>2 DEF OneWriteEach
  <2>4. OneWriteEach'
    <3> SUFFICES ASSUME NEW x \in Mine', NEW y \in Mine',
                        x.event = y.event \/ provider = "attending"
                 PROVE  x = y
      BY <1>2 DEF OneWriteEach
    <3> QED BY <2>1, <2>2, <2>3 DEF OneWriteEach
  <2>5. NoneReturning'
    BY <1>5, <1>7, <2>1, <2>2 DEF NoneReturning
  <2>6. ASSUME ~ServerAhead', Live' = {} PROVE ViewShown'
    <3>1. /\ ~ServerAhead /\ Viewer' = Viewer
          /\ rows'[Viewer] = [rows[Viewer] EXCEPT ![r.event] =
                                IF r.kind = "clear" THEN Absent ELSE WrittenRow(r, Viewer)]
      BY <1>7, <2>6, ServeRows
    <3>2. SettledShown /\ (\A x \in Mine : Flight(x)) /\ ReturningKept
      BY <1>4, <2>6, <3>1 DEF ViewInv, ViewShown
    <3>3. r.event \in Events /\ (r.kind = "write" => r \in WriteRequests)
          /\ \A x \in Mine : x.event \in Events
      BY <1>1, <1>7, MineFields
    <3>4. rows[Viewer] \in [Events -> Held] /\ Viewer \in Identities
      BY <1>1, ViewerTyped DEF Typed, ServerTyped
    <3>5. \A e \in Events : e # r.event => (e \in Kept' <=> e \in Kept)
      BY <3>1, <3>4 DEF Kept
    <3>6. r.event \in Kept' <=> r.kind = "write" /\ r.action # "remove"
      BY <1>1, <2>1, <3>1, <3>3, <3>4, WrittenKept DEF Kept
    <3>7. SettledShown'
      <4> SUFFICES ASSUME NEW e \in Events, e \notin Returning, \A x \in Mine' : x.event # e
                   PROVE  e \in view.ids <=> e \in Kept'
        BY <1>2, <1>5 DEF SettledShown
      <4>1. e # r.event /\ \A x \in Mine : x.event # e
        BY <2>1
      <4> QED BY <3>2, <3>5, <4>1 DEF SettledShown
    <3>8. ASSUME NEW x \in Mine \ {r} PROVE Flight(x)'
      <4>1. x.event # r.event /\ x.event \in Events
        BY <2>3, <3>3
      <4> QED BY <1>2, <3>2, <3>5, <4>1 DEF Flight
    <3>9. Flight(s)'
      <4>1. Flight(r)
        BY <1>7, <3>2
      <4>2. r.kind = "write" => r.action \in {"add", "remove", "audience"}
        BY <3>3 DEF WriteRequests
      <4> QED BY <1>2, <2>1, <3>6, <4>1, <4>2 DEF Flight
    <3>10. ReturningKept'
      <4>1. \A e \in Returning : e # r.event /\ e \in Events
        BY <1>1, <1>7, <2>2 DEF NoneReturning, Returning, Typed, RestTyped
      <4> QED BY <1>2, <1>5, <3>2, <3>5, <4>1 DEF ReturningKept
    <3>11. SnapshotKept'
      BY <1>2, <2>1, <2>3 DEF SnapshotKept
    <3> QED BY <2>1, <3>7, <3>8, <3>9, <3>10, <3>11 DEF ViewShown
  <2> QED BY <2>4, <2>5, <2>6 DEF ViewInv
<1> QED BY <1>6, <1>7

\* What every answer keeps when it shows no other identity.
LEMMA AnswerKeeps ==
    ASSUME SessionState, Calm', NEW r \in inflight, Answer(r), identity' = identity
    PROVE  /\ provider' = provider /\ Kept' = Kept /\ ServerAhead' = ServerAhead
           /\ Mine' = Mine \ {r} /\ Sent("clear")' = Sent("clear") \ {r}
           /\ Live' = Live \ {r} /\ Viewer' = Viewer /\ rows' = rows
<1>1. cookie' = cookie /\ rows' = rows /\ Writes' = Writes \ {r} /\ Live' = Live \ {r}
      /\ ServerAhead' = ServerAhead
  BY AnswerStays
<1>2. provider' = provider
  BY DEF Answer, AnswerMe, AnswerLogin, AnswerLogout, AnswerList, AnswerWrite, AnswerClear
<1>3. Sent("clear")' = Sent("clear") \ {r}
  BY AnswerKinds DEF SessionState
<1>4. Viewer' = Viewer
  BY <1>1 DEF Viewer
<1>5. Kept' = Kept /\ Mine' = Mine \ {r}
  BY <1>1, <1>4 DEF Kept, Mine
<1> QED BY <1>1, <1>2, <1>3, <1>4, <1>5

LEMMA SameIdentityView ==
    ASSUME identity' = identity, NEW r,
           NEW o, AnswerMe(r, o) \/ AnswerLogin(r, o) \/ AnswerLogout(r, o)
    PROVE  view' = view /\ unsaved' = unsaved
           /\ r \notin Mine /\ r \notin Live /\ r \notin Sent("clear")
<1>1. ASSUME NEW u, NEW d, NEW jar, IdentityEffect(u, d, jar, Rest(r)) PROVE view' = view
  BY <1>1 DEF IdentityEffect
<1>2. \/ view' = view
      \/ \E u : IdentityEffect(u, auth.device, cookie', Rest(r))
      \/ IdentityEffect(NoUser, auth.device + 1, cookie', Rest(r))
  BY DEF AnswerMe, AnswerLogin, AnswerLogout
<1>3. PICK jar : jar = cookie'
  OBVIOUS
<1>4. unsaved' = unsaved /\ r \notin Mine /\ r \notin Live /\ r \notin Sent("clear")
  BY DEF AnswerMe, AnswerLogin, AnswerLogout, Mine, Writes, Live, Sent
<1> QED BY <1>1, <1>2, <1>3, <1>4

LEMMA ViewAnswerSession ==
    ASSUME SessionState, ViewInv, Calm, Calm', NEW r \in inflight, Answer(r),
           identity' = identity,
           NEW o, AnswerMe(r, o) \/ AnswerLogin(r, o) \/ AnswerLogout(r, o)
    PROVE  ViewInv'
<1>1. view' = view /\ unsaved' = unsaved
      /\ r \notin Mine /\ r \notin Live /\ r \notin Sent("clear")
  BY SameIdentityView
<1>2. provider' = provider /\ Kept' = Kept /\ ServerAhead' = ServerAhead
      /\ Mine' = Mine /\ Sent("clear")' = Sent("clear") /\ Live' = Live
  BY <1>1, AnswerKeeps
<1>3. Returning' = Returning
  BY <1>1, <1>2 DEF Returning
<1> QED BY <1>1, <1>2, <1>3, ViewFrame

LEMMA ViewAnswerList ==
    ASSUME SessionState, OwnersInv, ListFresh, ViewInv, Calm, Calm',
           NEW r \in inflight, Answer(r), identity' = identity,
           NEW o \in {"ok", "http", "lost"}, AnswerList(r, o)
    PROVE  ViewInv'
<1>1. Typed /\ NoCrossing /\ LiveInv
  BY DEF SessionState, OwnersInv
<1>2. r.kind = "list" /\ unsaved' = unsaved /\ r \notin Mine /\ r \notin Sent("clear")
  BY DEF AnswerList, Mine, Writes, Sent
<1>3. provider' = provider /\ Kept' = Kept /\ ServerAhead' = ServerAhead
      /\ Mine' = Mine /\ Sent("clear")' = Sent("clear") /\ Live' = Live \ {r}
  BY <1>2, AnswerKeeps
<1>4. Returning' = Returning
  BY <1>2, <1>3 DEF Returning
<1>5. CASE r \notin Live
  <2>1. view' = view
    BY <1>2, <1>5 DEF AnswerList, Live, Sent
  <2> QED BY <1>3, <1>4, <1>5, <2>1, ViewFrame
<1>6. CASE r \in Live
  <2>1. Mine = {} /\ Returning = {}
    BY <1>1, <1>6 DEF NoCrossing, Returning, Mine, Writes, Sent
  <2>2. o = "ok" /\ r.served
    BY DEF AnswerList, Calm, Met, Outcome
  <2>3. r.live
    BY <1>6 DEF Live, Sent
  <2>4. view' = Listed(r.result)
    BY <2>2, <2>3 DEF AnswerList, SetView
  <2>5. ASSUME ~ServerAhead' PROVE ViewShown'
    <3>1. r.result = rows[Viewer]
      BY <1>3, <1>6, <2>2, <2>5 DEF ListFresh
    <3>2. view'.ids = Kept'
      BY <1>3, <2>4, <3>1 DEF Listed, Kept
    <3>3. Mine' = {} /\ Returning' = {}
      BY <1>3, <1>4, <2>1
    <3> QED BY <3>2, <3>3 DEF ViewShown, SettledShown, ReturningKept, SnapshotKept
  <2>6. Mine' = {}
    BY <1>3, <2>1
  <2> QED BY <2>5, <2>6 DEF ViewInv, OneWriteEach, NoneReturning
<1> QED BY <1>5, <1>6

LEMMA ViewAnswerWrite ==
    ASSUME SessionState, WritesInv, OwnersInv, ViewInv, Calm, Calm',
           NEW r \in inflight, Answer(r), identity' = identity,
           NEW o \in {"ok", "http", "lost"}, AnswerWrite(r, o)
    PROVE  ViewInv'
<1>1. Typed
  BY DEF SessionState
<1>2. r.kind = "write" /\ unsaved' = unsaved /\ r \in Writes
      /\ r \notin Live /\ r \notin Sent("clear")
  BY DEF AnswerWrite, Writes, Sent, Live
<1>3. provider' = provider /\ Kept' = Kept /\ ServerAhead' = ServerAhead
      /\ Mine' = Mine \ {r} /\ Sent("clear")' = Sent("clear") /\ Live' = Live
  BY <1>2, AnswerKeeps
<1>4. Returning' = Returning
  BY <1>2, <1>3 DEF Returning
<1>5. o # "lost" /\ (o = "ok" => r.served /\ view' = view)
      /\ (o = "http" => ~r.served /\ r \in Mine /\ view' = RolledBack(r))
  BY <1>2 DEF AnswerWrite, Calm, Outcome, SetView, Mine
<1>6. CASE r \notin Mine
  <2>1. view' = view /\ Mine' = Mine
    BY <1>3, <1>5, <1>6
  <2> QED BY <1>3, <1>4, <2>1, ViewFrame
<1>7. CASE r \in Mine
  <2>1. OneWriteEach /\ NoneReturning
    BY DEF ViewInv
  <2>2. OneWriteEach' /\ NoneReturning'
    BY <1>3, <1>4, <2>1 DEF OneWriteEach, NoneReturning
  <2>3. \A x \in Mine' : x.event # r.event /\ provider # "attending"
    BY <1>3, <1>7, <2>1 DEF OneWriteEach
  <2>4. ASSUME ~ServerAhead', Live' = {} PROVE ViewShown'
    <3>1. SettledShown /\ (\A x \in Mine : Flight(x)) /\ ReturningKept /\ SnapshotKept
      BY <1>3, <2>4 DEF ViewInv, ViewShown
    <3>2. r.event \in Events /\ r.action \in {"add", "remove", "audience"}
          /\ \A x \in Mine : x.event \in Events
      BY <1>1, <1>2, <1>7, MineFields
    <3>3. Flight(r)
      BY <1>7, <3>1
    <3>4. view \in Views /\ Kept \subseteq Events
      BY <1>1 DEF Typed, ShownTyped, Kept
    <3>5. CASE view'.ids = view.ids \/ view'.ids = view.ids \cup {r.event}
               \/ view'.ids = view.ids \ {r.event}
      <4> SUFFICES ASSUME r.event \in view'.ids <=> r.event \in Kept PROVE ViewShown'
        <5>1. r.event \in view'.ids <=> r.event \in Kept
          <6>1. CASE o = "ok"
            BY <1>2, <1>5, <3>2, <3>3, <6>1 DEF Flight
          <6>2. CASE o = "http" /\ r.action = "audience"
            <7>1. view'.ids = view.ids
              BY <1>5, <3>4, <6>2 DEF RolledBack, Views
            <7> QED BY <1>2, <3>3, <6>2, <7>1 DEF Flight
          <6>3. CASE o = "http" /\ r.action # "audience" /\ provider = "attending"
            <7>1. view' = r.before
              BY <1>5, <6>3 DEF RolledBack
            <7> QED BY <1>5, <1>7, <3>1, <6>3, <7>1 DEF SnapshotKept
          <6>4. CASE o = "http" /\ r.action # "audience" /\ provider = "saved"
            <7>1. view'.ids = IF r.action = "remove" THEN view.ids \cup {r.event}
                              ELSE view.ids \ {r.event}
              BY <1>5, <3>4, <6>4 DEF RolledBack, Views
            <7> QED BY <1>2, <1>5, <3>2, <3>3, <6>4, <7>1 DEF Flight
          <6> QED BY <1>1, <1>5, <6>1, <6>2, <6>3, <6>4 DEF Typed, RestTyped
        <5> QED BY <5>1
      <4>1. \A e \in Events : e # r.event => (e \in view'.ids <=> e \in view.ids)
        BY <3>5
      <4>2. SettledShown'
        <5> SUFFICES ASSUME NEW e \in Events, e \notin Returning, \A x \in Mine' : x.event # e
                     PROVE  e \in view'.ids <=> e \in Kept
          BY <1>3, <1>4 DEF SettledShown
        <5>1. CASE e = r.event
          BY <5>1
        <5>2. CASE e # r.event
          <6>1. \A x \in Mine : x.event # e
            BY <1>3, <5>2
          <6> QED BY <3>1, <4>1, <5>2, <6>1 DEF SettledShown
        <5> QED BY <5>1, <5>2
      <4>3. ASSUME NEW x \in Mine' PROVE Flight(x)'
        <5>1. x.event # r.event /\ x \in Mine /\ x.event \in Events
          BY <1>3, <2>3, <3>2
        <5> QED BY <1>3, <3>1, <4>1, <5>1 DEF Flight
      <4>4. ReturningKept'
        <5>1. \A e \in Returning : e # r.event /\ e \in Events
          BY <1>1, <1>7, <2>1 DEF NoneReturning, Returning, Typed, RestTyped
        <5> QED BY <1>3, <1>4, <3>1, <4>1, <5>1 DEF ReturningKept
      <4>5. SnapshotKept'
        BY <1>3, <2>3 DEF SnapshotKept
      <4> QED BY <4>2, <4>3, <4>4, <4>5 DEF ViewShown
    <3>6. CASE o = "http" /\ r.action # "audience" /\ provider = "attending"
      <4>1. view' = r.before /\ view'.ids = Kept
        BY <1>5, <1>7, <3>1, <3>6 DEF RolledBack, SnapshotKept
      <4>2. Mine' = {} /\ Returning' = {}
        <5>1. Sent("clear") = {}
          BY <3>6 DEF WritesInv
        <5> QED BY <1>4, <2>3, <3>6, <5>1 DEF Returning
      <4> QED BY <1>3, <4>1, <4>2 DEF ViewShown, SettledShown, ReturningKept, SnapshotKept
    <3>7. CASE o = "ok" \/ r.action = "audience" \/ provider = "saved"
      <4>1. view'.ids = view.ids \/ view'.ids = view.ids \cup {r.event}
               \/ view'.ids = view.ids \ {r.event}
        <5>1. CASE o = "ok"
          BY <1>5, <5>1
        <5>2. CASE o = "http"
          BY <1>5, <3>4, <3>7, <5>2 DEF RolledBack, Views
        <5> QED BY <1>5, <5>1, <5>2
      <4> QED BY <3>5, <4>1
    <3> QED BY <1>1, <1>5, <3>6, <3>7 DEF Typed, RestTyped
  <2> QED BY <2>2, <2>4 DEF ViewInv
<1> QED BY <1>6, <1>7

LEMMA ViewAnswerClear ==
    ASSUME SessionState, WritesInv, OwnersInv, ViewInv, Calm, Calm',
           NEW r \in inflight, Answer(r), identity' = identity,
           NEW o \in {"ok", "http", "lost"}, AnswerClear(r, o)
    PROVE  ViewInv'
<1> DEFINE failed == unsaved \cup (IF o = "ok" THEN {} ELSE {r.event})
           last == Sent("clear") = {r}
<1>1. Typed
  BY DEF SessionState
<1>2. r.kind = "clear" /\ r \in Writes /\ r \notin Live /\ r \in Sent("clear")
  BY DEF AnswerClear, Writes, Sent, Live
<1>3. provider' = provider /\ Kept' = Kept /\ ServerAhead' = ServerAhead
      /\ Mine' = Mine \ {r} /\ Sent("clear")' = Sent("clear") \ {r} /\ Live' = Live
  BY <1>2, AnswerKeeps
<1>4. o # "lost" /\ (o = "ok" => r.served) /\ (o = "http" => ~r.served)
  BY DEF AnswerClear, Calm, Outcome
<1>5. unsaved' = IF last THEN {} ELSE failed
  BY DEF AnswerClear
<1>6. /\ last /\ failed # {} => view' = [view EXCEPT !.ids = @ \cup failed] /\ r \in Mine
      /\ ~(last /\ failed # {}) => view' = view
  <2>1. last /\ failed # {} => r.by = identity
    BY DEF AnswerClear, Calm
  <2> QED BY <1>2, <2>1 DEF AnswerClear, SetView, Mine
<1>7. view'.ids = IF last THEN view.ids \cup failed ELSE view.ids
  <2>1. view \in Views
    BY <1>1 DEF Typed, ShownTyped
  <2>2. CASE last /\ failed # {}
    <3> HIDE DEF failed
    <3> QED BY <1>6, <2>1, <2>2 DEF Views
  <2>3. CASE ~(last /\ failed # {})
    <3> HIDE DEF failed
    <3> QED BY <1>6, <2>3
  <2> QED BY <2>2, <2>3
<1> HIDE DEF last, failed
<1>8. provider # "attending" /\ \A c \in Sent("clear") : c.by = r.by
  BY <1>2 DEF WritesInv
<1>9. CASE r \notin Mine
  <2>1. view' = view /\ Mine' = Mine
    BY <1>3, <1>6, <1>9
  <2>2. r.by # identity
    BY <1>2, <1>9 DEF Mine
  <2>3. Returning' = {} /\ Returning = {}
    BY <1>3, <1>8, <2>2 DEF Returning
  <2> QED BY <1>3, <2>1, <2>3, ViewFrame
<1>10. CASE r \in Mine
  <2>1. r.by = identity /\ Returning = unsaved
    BY <1>2, <1>10 DEF Mine, Returning
  <2>2. Returning' = IF last THEN {} ELSE failed
    <3>1. last => Returning' = {}
      BY <1>3 DEF Returning, last
    <3>2. ~last => \E c \in Sent("clear")' : c.by = identity
      BY <1>2, <1>3, <1>8, <2>1 DEF last
    <3> QED BY <1>5, <3>1, <3>2 DEF Returning
  <2>3. OneWriteEach /\ NoneReturning
    BY DEF ViewInv
  <2>4. r.event \in Events /\ r.event \notin unsaved /\ unsaved \subseteq Events
        /\ \A x \in Mine : x.event \in Events
    BY <1>1, <1>10, <2>1, <2>3, MineFields DEF NoneReturning, Typed, RestTyped
  <2>5. \A e : e \in failed <=> e \in unsaved \/ (o # "ok" /\ e = r.event)
    BY DEF failed
  <2>6. \A x \in Mine' : x \in Mine /\ x.event # r.event /\ x.event \notin failed
    BY <1>3, <1>10, <2>1, <2>3, <2>5 DEF OneWriteEach, NoneReturning
  <2>7. OneWriteEach'
    BY <1>3, <2>3 DEF OneWriteEach
  <2>8. NoneReturning'
    BY <2>2, <2>6 DEF NoneReturning
  <2>9. ASSUME ~ServerAhead', Live' = {} PROVE ViewShown'
    <3>1. SettledShown /\ (\A x \in Mine : Flight(x)) /\ ReturningKept
      BY <1>3, <2>9 DEF ViewInv, ViewShown
    <3>2. r.event \notin view.ids /\ (r.event \in Kept <=> ~r.served)
      BY <1>2, <1>10, <3>1 DEF Flight
    <3>3. \A e \in Events : e \in failed => e \notin view.ids /\ e \in Kept
      BY <1>4, <2>1, <2>5, <3>1, <3>2 DEF ReturningKept
    <3>4. SettledShown'
      <4> SUFFICES ASSUME NEW e \in Events, e \notin Returning', \A x \in Mine' : x.event # e
                   PROVE  e \in view'.ids <=> e \in Kept
        BY <1>3 DEF SettledShown
      <4>1. CASE e \in failed
        BY <1>7, <2>2, <3>3, <4>1
      <4>2. CASE e \notin failed /\ e = r.event
        BY <1>4, <1>7, <2>5, <3>2, <4>2
      <4>3. CASE e \notin failed /\ e # r.event
        <5>1. \A x \in Mine : x.event # e
          BY <1>3, <4>3
        <5> QED BY <1>7, <2>1, <2>5, <3>1, <4>3, <5>1 DEF SettledShown
      <4> QED BY <4>1, <4>2, <4>3
    <3>5. ASSUME NEW x \in Mine' PROVE Flight(x)'
      <4>1. x \in Mine /\ x.event \notin failed
        BY <2>6
      <4> QED BY <1>3, <1>7, <3>1, <4>1 DEF Flight
    <3>6. ReturningKept'
      <4>1. \A e \in failed : e \in Events
        BY <2>4, <2>5
      <4> QED BY <1>3, <1>7, <2>2, <3>3, <4>1 DEF ReturningKept
    <3>7. SnapshotKept'
      BY <1>3, <1>8 DEF SnapshotKept
    <3> QED BY <3>4, <3>5, <3>6, <3>7 DEF ViewShown
  <2> QED BY <2>7, <2>8, <2>9 DEF ViewInv
<1> QED BY <1>9, <1>10

LEMMA ViewStep ==
    ASSUME SessionState, WritesInv, OwnersInv, ListFresh, ViewInv, [Next]_vars
    PROVE  ViewInv'
<1> SUFFICES ASSUME Calm' PROVE ViewInv'
  BY DEF ViewInv
<1>1. Calm /\ Typed
  BY CalmBefore DEF SessionState
<1>2. CASE (\E u \in Users : Login(u)) \/ Logout \/ DeleteAccount \/ RefreshUser
  <2>1. Writes' = Writes /\ Sent("clear")' = Sent("clear") /\ Live' = Live
        /\ UNCHANGED <<provider, cookie, identity, view, rows, unsaved>>
    BY <1>1, <1>2, AuthStepWrites, AuthStepChanges
  <2>2. inflight \subseteq inflight'
    BY <1>1, <1>2, AuthStepSends
  <2>3. ~ServerAhead' => ~ServerAhead
    BY <2>2 DEF ServerAhead, AuthOps
  <2>4. Mine' = Mine /\ Returning' = Returning /\ Kept' = Kept
    BY <2>1 DEF Mine, Returning, Kept, Viewer
  <2> QED BY <1>1, <2>1, <2>3, <2>4, ViewFrame
<1>3. ASSUME NEW r \in inflight, Answer(r) PROVE ViewInv'
  <2>1. CASE identity' = identity
    BY <1>1, <1>3, <2>1, ViewAnswerSession, ViewAnswerList, ViewAnswerWrite, ViewAnswerClear
       DEF Answer
  <2>2. CASE identity' # identity
    <3>1. Live' # {} /\ NoCrossing'
      BY <1>3, <2>2, AnswerMoves, OwnersStep DEF OwnersInv
    <3>2. Mine' = {}
      BY <3>1 DEF NoCrossing
    <3> QED BY <3>1, <3>2 DEF ViewInv, OneWriteEach, NoneReturning
  <2> QED BY <2>1, <2>2
<1>4. CASE UNCHANGED vars
  <2>1. UNCHANGED <<provider, cookie, identity, view, rows, unsaved, inflight>>
    BY <1>4 DEF vars
  <2>2. Mine' = Mine /\ Returning' = Returning /\ Kept' = Kept /\ Live' = Live
        /\ ServerAhead' = ServerAhead
    BY <2>1 DEF Mine, Writes, Sent, Returning, Kept, Viewer, Live, ServerAhead, AuthOps
  <2> QED BY <1>1, <2>1, <2>2, ViewFrame
<1> QED BY <1>1, <1>2, <1>3, <1>4, Steps, ViewWriteStep, ViewClearAll, ViewServe

----------------------------------------------------------------------------
(* The audiences shown to a signed-in viewer *)

\* An event kept and not being shared anew is shown with the audience it has:
\* one being removed keeps it, except from an attending list;
Removing(w) == w.kind = "clear" \/ (w.action = "remove" /\ provider = "saved")
AudienceSettled ==
    \A e \in Kept : (\A w \in Mine : w.event = e => Removing(w))
        => view.audience[e] = rows[Viewer][e]

\* one being shared anew is shown with the audience it is going to have;
AudienceFlight ==
    \A w \in Mine : w.kind = "write" /\ w.action # "remove" =>
        /\ w.audience # NoAudience /\ view.audience[w.event] = w.audience
        /\ w.served => rows[Viewer][w.event] = w.audience

\* an attending list goes back to the audiences the events have,
AudienceBack ==
    \A w \in Mine : w.kind = "write" /\ provider = "attending" /\ ~w.served =>
        \A e \in Kept : w.before.audience[e] = rows[Viewer][e]

\* and so does a saved list, which changes one audience at a time.
AudienceUndo ==
    \A w \in Mine :
        w.kind = "write" /\ provider = "saved" /\ w.action = "audience" /\ ~w.served =>
            /\ \A e \in Events \ {w.event} : w.before.audience[e] = view.audience[e]
            /\ w.before.audience[w.event] = rows[Viewer][w.event]
OneAudience ==
    \A w, x \in Mine : /\ w.kind = "write" /\ w.action = "audience"
                       /\ x.kind = "write" /\ x.action = "audience"
                       => w = x

AudiencesShown ==
    AudienceSettled /\ AudienceFlight /\ AudienceBack /\ AudienceUndo /\ OneAudience

Undisturbed == met = {} /\ cookie.user # NoUser /\ ~ServerAhead /\ Live = {}
AudienceInv == Undisturbed => AudiencesShown

LEMMA AudienceInit == Init => AudienceInv
<1> SUFFICES ASSUME Init PROVE AudienceInv
  OBVIOUS
<1> DEFINE m == [n |-> 1, kind |-> "me", jar |-> cookie, served |-> FALSE,
                 by |-> Anon(0), gen |-> 1, first |-> TRUE, result |-> NoUser]
           l == [n |-> 2, kind |-> "list", jar |-> cookie, served |-> FALSE,
                 by |-> Anon(0), live |-> TRUE, result |-> Unknown]
<1>1. inflight = {m, l} /\ l.kind = "list" /\ l.live = TRUE
  BY DEF Init
<1> HIDE DEF m, l
<1>2. Live # {}
  BY <1>1 DEF Live, Sent
<1> QED BY <1>2 DEF AudienceInv, Undisturbed

\* Fewer writes under way, one of which was only removing, disturb nothing.
LEMMA AudienceFrame ==
    ASSUME AudiencesShown, provider' = provider, view'.audience = view.audience,
           Mine' \subseteq Mine, Kept' = Kept, rows' = rows, Viewer' = Viewer,
           \A w \in Mine : w \notin Mine' => Removing(w)
    PROVE  AudiencesShown'
<1> USE DEF AudiencesShown
<1>1. AudienceSettled'
  <2> SUFFICES ASSUME NEW e \in Kept,
                      \A w \in Mine' : w.event = e => Removing(w)'
               PROVE  view.audience[e] = rows[Viewer][e]
    BY DEF AudienceSettled
  <2>1. \A w \in Mine' : w.event = e => Removing(w)
    BY DEF Removing
  <2> QED BY <2>1 DEF AudienceSettled
<1>2. AudienceFlight' /\ AudienceBack' /\ AudienceUndo' /\ OneAudience'
  BY DEF AudienceFlight, AudienceBack, AudienceUndo, OneAudience
<1> QED BY <1>1, <1>2

LEMMA UndisturbedCalm ==
    ASSUME [Next]_vars, Undisturbed'
    PROVE  met = {} /\ Calm /\ Calm'
BY MetGrows DEF Undisturbed, Calm

LEMMA AudienceWriteStep ==
    ASSUME SessionState, WritesInv, OwnersInv, ViewInv, AudienceInv, [Next]_vars, WriteStep
    PROVE  AudienceInv'
<1> SUFFICES ASSUME Undisturbed' PROVE AudiencesShown'
  BY DEF AudienceInv
<1>1. Typed /\ met = {} /\ Calm /\ Calm' /\ met' = {}
  BY UndisturbedCalm DEF SessionState, Undisturbed
<1>2. PICK e \in Events : \E w : Writing(e, w)
  BY <1>1, WriteStepView
<1>3. PICK w : Writing(e, w)
  BY <1>2
<1>4. /\ w \in WriteRequests /\ w.kind = "write" /\ w.by = identity /\ ~w.served
      /\ w.event = e /\ w.before = view /\ w \notin inflight
      /\ inflight' = inflight \cup {w} /\ w.action \in {"add", "remove", "audience"}
  BY <1>3 DEF Writing, WriteRequests
<1>5. UNCHANGED <<provider, cookie, identity, rows, unsaved>> /\ AuthOps' = AuthOps
  BY <1>1, WriteStepChanges, WriteStepOthers
<1>6. Live = {} /\ Live' = {}
  BY <1>1, NewWrites
<1>7. Mine' = Mine \cup {w} /\ w \notin Mine
  BY <1>4, <1>5 DEF Mine, Writes
<1>8. Viewer' = Viewer /\ Kept' = Kept /\ ServerAhead' = ServerAhead
  BY <1>5 DEF Kept, Viewer, ServerAhead
<1>9. e \notin unsaved /\ \A x \in Mine : x.event # e /\ provider # "attending"
  <2>1. "writesOverlap" \notin WriteRaces(e)
    BY <1>1, <1>3 DEF Writing
  <2> QED BY <2>1 DEF WriteRaces, Mine
<1>10. provider = "saved" =>
          \A x \in Mine : ~(x.kind = "write" /\ x.action = "audience")
  <2>1. provider = "saved" => "audiencesOverlap" \notin AudienceRaces
    BY <1>1, <1>3 DEF Writing
  <2> QED BY <2>1 DEF AudienceRaces, Mine, Writes, Sent
<1>11. Undisturbed
  BY <1>1, <1>5, <1>6, <1>8 DEF Undisturbed
<1>12. AudienceSettled /\ AudienceFlight /\ SettledShown
  BY <1>1, <1>11 DEF AudienceInv, AudiencesShown, ViewInv, ViewShown, Undisturbed
<1>13. view.audience \in [Events -> Shown] /\ (\A x \in Mine : x.event \in Events)
       /\ Kept \subseteq Events
  BY <1>1, MineFields DEF Typed, ShownTyped, Views, Kept
<1>14. \A d \in Events : d # e => view'.audience[d] = view.audience[d]
  <2>1. \/ \E a : view'.audience = [view.audience EXCEPT ![e] = a]
        \/ view'.audience = view.audience
    BY <1>1, <1>3 DEF Writing, Typed, RestTyped
  <2> QED BY <1>13, <2>1
<1>15. w.action # "remove" => w.audience # NoAudience /\ view'.audience[e] = w.audience
  BY <1>1, <1>3, <1>13, ConstantsTyped DEF Writing
<1>16. w.action = "remove" /\ provider = "saved" => view'.audience = view.audience
  BY <1>3 DEF Writing
<1>17. \A d \in Kept : (d = e \/ \A x \in Mine : x.event # d) => view.audience[d] = rows[Viewer][d]
  BY <1>9, <1>12 DEF AudienceSettled
<1>18. AudienceSettled'
  <2> SUFFICES ASSUME NEW d \in Kept, \A x \in Mine' : x.event = d => Removing(x)'
               PROVE  view'.audience[d] = rows[Viewer][d]
    BY <1>5, <1>8 DEF AudienceSettled
  <2>1. \A x \in Mine' : x.event = d => Removing(x)
    BY <1>5 DEF Removing
  <2>2. CASE d = e
    <3>1. w.action = "remove" /\ provider = "saved"
      BY <1>4, <1>7, <2>1, <2>2 DEF Removing
    <3> QED BY <1>16, <1>17, <2>2, <3>1
  <2>3. CASE d # e
    <3>1. view.audience[d] = rows[Viewer][d]
      BY <1>7, <1>12, <2>1 DEF AudienceSettled
    <3> QED BY <1>13, <1>14, <2>3, <3>1
  <2> QED BY <2>2, <2>3
<1>19. AudienceFlight'
  <2> SUFFICES ASSUME NEW x \in Mine', x.kind = "write", x.action # "remove"
               PROVE  /\ x.audience # NoAudience /\ view'.audience[x.event] = x.audience
                      /\ x.served => rows[Viewer][x.event] = x.audience
    BY <1>5, <1>8 DEF AudienceFlight
  <2> QED BY <1>4, <1>7, <1>9, <1>12, <1>13, <1>14, <1>15 DEF AudienceFlight
<1>20. AudienceBack'
  <2> SUFFICES ASSUME NEW x \in Mine', provider = "attending", NEW d \in Kept
               PROVE  x.before.audience[d] = rows[Viewer][d]
    BY <1>5, <1>8 DEF AudienceBack
  <2>1. Mine = {} /\ x = w
    BY <1>7, <1>9
  <2> QED BY <1>4, <1>17, <2>1
<1>21. AudienceUndo'
  <2> SUFFICES ASSUME provider = "saved", NEW x \in Mine', x.kind = "write",
                      x.action = "audience"
               PROVE  /\ \A d \in Events \ {x.event} : x.before.audience[d] = view'.audience[d]
                      /\ x.before.audience[x.event] = rows[Viewer][x.event]
    BY <1>5, <1>8 DEF AudienceUndo
  <2>1. x = w
    BY <1>7, <1>10
  <2>2. e \in view.ids /\ e \notin Returning
    BY <1>3, <1>9, <2>1 DEF Writing, Returning
  <2>3. e \in Kept
    BY <1>9, <1>12, <2>2 DEF SettledShown
  <2> QED BY <1>4, <1>14, <1>17, <2>1, <2>3
<1>22. OneAudience'
  <2>1. CASE provider = "saved"
    BY <1>7, <1>10, <2>1 DEF OneAudience
  <2>2. CASE provider = "attending"
    <3>1. Mine = {}
      BY <1>9, <2>2
    <3> QED BY <1>7, <3>1 DEF OneAudience
  <2> QED BY <1>1, <2>1, <2>2 DEF Typed, RestTyped
<1> QED BY <1>18, <1>19, <1>20, <1>21, <1>22 DEF AudiencesShown

LEMMA AudienceClearAll ==
    ASSUME SessionState, OwnersInv, AudienceInv, [Next]_vars, ClearAll
    PROVE  AudienceInv'
<1> SUFFICES ASSUME Undisturbed' PROVE AudiencesShown'
  BY DEF AudienceInv
<1>1. Typed /\ met = {} /\ Calm'
  BY UndisturbedCalm DEF SessionState
<1>2. UNCHANGED <<provider, cookie, identity, rows>> /\ AuthOps' = AuthOps
  BY <1>1, WriteStepChanges, WriteStepOthers
<1>3. Live = {}
  BY <1>1, NewWrites
<1>4. Viewer' = Viewer /\ Kept' = Kept /\ ServerAhead' = ServerAhead
  BY <1>2 DEF Kept, Viewer, ServerAhead
<1>5. AudiencesShown
  BY <1>1, <1>2, <1>3, <1>4 DEF AudienceInv, Undisturbed
<1>6. provider = "saved" /\ Mine \subseteq Mine'
      /\ \A w \in Mine' : w \in Mine \/ w.kind = "clear"
  BY <1>1, <1>2, ClearAllWrites DEF Mine
<1>7. view'.audience = view.audience
  BY <1>1 DEF ClearAll, SetView, Typed, ShownTyped, Views
<1> USE DEF AudiencesShown
<1>8. AudienceSettled'
  <2> SUFFICES ASSUME NEW e \in Kept,
                      \A w \in Mine' : w.event = e => Removing(w)'
               PROVE  view.audience[e] = rows[Viewer][e]
    BY <1>2, <1>4, <1>7 DEF AudienceSettled
  <2>1. \A w \in Mine : w.event = e => Removing(w)
    BY <1>2, <1>6 DEF Removing
  <2> QED BY <1>5, <2>1 DEF AudienceSettled
<1>9. AudienceFlight' /\ OneAudience'
  BY <1>2, <1>4, <1>5, <1>6, <1>7 DEF AudienceFlight, OneAudience
<1>10. AudienceBack' /\ AudienceUndo'
  BY <1>2, <1>4, <1>5, <1>6, <1>7 DEF AudienceBack, AudienceUndo
<1> QED BY <1>8, <1>9, <1>10

LEMMA AudienceServe ==
    ASSUME SessionState, WritesInv, OwnersInv, ViewInv, AudienceInv, [Next]_vars,
           NEW r \in inflight, Serve(r)
    PROVE  AudienceInv'
<1> SUFFICES ASSUME Undisturbed' PROVE AudiencesShown'
  BY DEF AudienceInv
<1>1. Typed /\ met = {} /\ Calm /\ Calm' /\ ~ServerAhead'
  BY UndisturbedCalm DEF SessionState, Undisturbed
<1>2. UNCHANGED <<provider, cookie, identity, view>> /\ ~r.served
      /\ inflight' = (inflight \ {r}) \cup {Served(r)}
  BY DEF Serve
<1>3. /\ Served(r).kind = r.kind /\ Served(r).by = r.by /\ Served(r).served = TRUE
      /\ r.kind = "list" => Served(r).live = r.live
      /\ r.kind \in {"write", "clear"} => Served(r).event = r.event
      /\ r.kind = "write" => Served(r).action = r.action /\ Served(r).audience = r.audience
  BY <1>1, ServedTyped
<1>4. Live = {}
  <2>1. \A q \in Live : q \in Live' \/ (q = r /\ Served(r) \in Live')
    BY <1>2, <1>3 DEF Live, Sent
  <2> QED BY <2>1 DEF Undisturbed
<1>5. ~ServerAhead /\ Viewer' = Viewer
  BY <1>1, ServeRows
<1>6. AudiencesShown /\ OneWriteEach
  BY <1>1, <1>2, <1>4, <1>5 DEF AudienceInv, Undisturbed, ViewInv
<1>7. CASE r \notin Mine
  <2>1. \A w : w \in Mine' <=> w \in Mine
    BY <1>2, <1>3, <1>7 DEF Mine, Writes
  <2>2. rows'[Viewer] = rows[Viewer] /\ Kept' = Kept /\ Mine' = Mine
    BY <1>1, <1>5, <1>7, <2>1, ServeRows DEF Kept
  <2>3. AudienceSettled'
    <3> SUFFICES ASSUME NEW e \in Kept,
                        \A w \in Mine : w.event = e => Removing(w)'
                 PROVE  view.audience[e] = rows[Viewer][e]
      BY <1>2, <1>5, <2>2 DEF AudienceSettled
    <3>1. \A w \in Mine : w.event = e => Removing(w)
      BY <1>2 DEF Removing
    <3> QED BY <1>6, <3>1 DEF AudiencesShown, AudienceSettled
  <2>4. AudienceFlight' /\ AudienceBack' /\ AudienceUndo' /\ OneAudience'
    BY <1>2, <1>5, <1>6, <2>2
       DEF AudiencesShown, AudienceFlight, AudienceBack, AudienceUndo, OneAudience
  <2> QED BY <2>3, <2>4 DEF AudiencesShown
<1>8. CASE r \in Mine
  <2>0. PICK s : s = Served(r)
    OBVIOUS
  <2>1. Mine' = (Mine \ {r}) \cup {s} /\ s.event = r.event /\ s.kind = r.kind /\ s.served = TRUE
        /\ (r.kind = "write" => s.action = r.action /\ s.audience = r.audience)
        /\ r.kind \in {"write", "clear"}
    BY <1>2, <1>3, <1>8, <2>0 DEF Mine, Writes
  <2>2. \A x \in Mine \ {r} : x.event # r.event /\ provider # "attending"
    BY <1>6, <1>8 DEF OneWriteEach
  <2>3. rows'[Viewer] = [rows[Viewer] EXCEPT ![r.event] =
                           IF r.kind = "clear" THEN Absent ELSE WrittenRow(r, Viewer)]
    BY <1>1, <1>8, ServeRows
  <2>4. r.event \in Events /\ (r.kind = "write" => r \in WriteRequests)
        /\ \A x \in Mine : x.event \in Events
    BY <1>1, <1>8, MineFields
  <2>5. rows[Viewer] \in [Events -> Held] /\ Viewer \in Identities
    BY <1>1, ViewerTyped DEF Typed, ServerTyped
  <2>6. \A e \in Events : e # r.event => /\ rows'[Viewer][e] = rows[Viewer][e]
                                         /\ e \in Kept' <=> e \in Kept
    BY <1>5, <2>3, <2>5 DEF Kept
  <2>7. r.event \in Kept' => r.kind = "write" /\ r.action # "remove"
    BY <1>1, <1>5, <2>1, <2>3, <2>4, <2>5, WrittenKept DEF Kept
  <2>8. r.kind = "write" /\ r.action # "remove" => rows'[Viewer][r.event] = r.audience
    <3> SUFFICES ASSUME r.kind = "write", r.action # "remove"
                 PROVE  rows'[Viewer][r.event] = r.audience
      OBVIOUS
    <3>1. r.audience # NoAudience
      BY <1>6, <1>8 DEF AudiencesShown, AudienceFlight
    <3>2. Viewer[1] = "user"
      BY <1>2 DEF Viewer, Owner, Undisturbed
    <3>3. WrittenRow(r, Viewer) = r.audience
      BY <3>1, <3>2 DEF WrittenRow, RowAudience
    <3> QED BY <2>3, <2>4, <2>5, <3>3
  <2>9. Kept' \subseteq Events
    BY DEF Kept
  <2>10. AudienceSettled'
    <3> SUFFICES ASSUME NEW e \in Kept',
                        \A w \in Mine' : w.event = e => Removing(w)'
                 PROVE  view.audience[e] = rows'[Viewer][e]
      BY <1>2, <1>5 DEF AudienceSettled
    <3>1. \A w \in Mine' : w.event = e => Removing(w)
      BY <1>2 DEF Removing
    <3>2. e # r.event
      BY <2>1, <2>7, <3>1 DEF Removing
    <3>3. \A w \in Mine : w.event = e => Removing(w)
      BY <2>1, <3>1, <3>2
    <3>4. e \in Kept /\ rows'[Viewer][e] = rows[Viewer][e]
      BY <2>6, <2>9, <3>2
    <3> QED BY <1>6, <3>3, <3>4 DEF AudiencesShown, AudienceSettled
  <2>11. AudienceFlight'
    <3> SUFFICES ASSUME NEW x \in Mine', x.kind = "write", x.action # "remove"
                 PROVE  /\ x.audience # NoAudience /\ view.audience[x.event] = x.audience
                        /\ x.served => rows'[Viewer][x.event] = x.audience
      BY <1>2, <1>5 DEF AudienceFlight
    <3>1. CASE x = s
      BY <1>6, <1>8, <2>1, <2>8, <3>1 DEF AudiencesShown, AudienceFlight
    <3>2. CASE x \in Mine \ {r}
      <4>1. rows'[Viewer][x.event] = rows[Viewer][x.event]
        BY <2>2, <2>4, <2>6, <3>2
      <4> QED BY <1>6, <3>2, <4>1 DEF AudiencesShown, AudienceFlight
    <3> QED BY <2>1, <3>1, <3>2
  <2>12. AudienceBack'
    <3>1. \A x \in Mine' : provider = "attending" => x.served
      BY <2>1, <2>2
    <3> QED BY <1>2, <3>1 DEF AudienceBack
  <2>13. AudienceUndo'
    <3> SUFFICES ASSUME provider = "saved", NEW x \in Mine', x.kind = "write",
                        x.action = "audience", ~x.served
                 PROVE  /\ \A e \in Events \ {x.event} : x.before.audience[e] = view.audience[e]
                        /\ x.before.audience[x.event] = rows'[Viewer][x.event]
      BY <1>2, <1>5 DEF AudienceUndo
    <3>1. x \in Mine \ {r}
      BY <2>1
    <3>2. rows'[Viewer][x.event] = rows[Viewer][x.event]
      BY <2>2, <2>4, <2>6, <3>1
    <3> QED BY <1>6, <3>1, <3>2 DEF AudiencesShown, AudienceUndo
  <2>14. OneAudience'
    <3> SUFFICES ASSUME NEW x \in Mine', NEW y \in Mine',
                        x.kind = "write", x.action = "audience",
                        y.kind = "write", y.action = "audience"
                 PROVE  x = y
      BY DEF OneAudience
    <3>1. \A z \in Mine' : z.kind = "write" /\ z.action = "audience" =>
             IF z = s THEN r.kind = "write" /\ r.action = "audience"
             ELSE z \in Mine /\ z # r
      BY <2>1
    <3> QED BY <1>6, <1>8, <3>1 DEF AudiencesShown, OneAudience
  <2> QED BY <2>10, <2>11, <2>12, <2>13, <2>14 DEF AudiencesShown
<1> QED BY <1>7, <1>8

LEMMA AudienceAnswerList ==
    ASSUME SessionState, OwnersInv, ListFresh, AudienceInv, Calm, Calm', Undisturbed',
           NEW r \in inflight, Answer(r), identity' = identity, met = {},
           cookie.user # NoUser, NEW o \in {"ok", "http", "lost"}, AnswerList(r, o)
    PROVE  AudiencesShown'
<1>1. NoCrossing /\ r \notin Mine /\ r.kind = "list"
  BY DEF OwnersInv, AnswerList, Mine, Writes
<1>2. provider' = provider /\ Kept' = Kept /\ ServerAhead' = ServerAhead
      /\ Mine' = Mine /\ Live' = Live \ {r} /\ Viewer' = Viewer /\ rows' = rows
  BY <1>1, AnswerKeeps
<1>3. CASE r \notin Live
  <2>1. view' = view
    BY <1>1, <1>3 DEF AnswerList, Live, Sent
  <2>2. AudiencesShown
    BY <1>2, <1>3 DEF Undisturbed, AudienceInv
  <2> QED BY <1>2, <2>1, <2>2, AudienceFrame
<1>4. CASE r \in Live
  <2>1. Mine' = {}
    BY <1>1, <1>2, <1>4 DEF NoCrossing
  <2>2. o = "ok" /\ r.served /\ r.live
    BY <1>4 DEF AnswerList, Calm, Met, Outcome, Live, Sent
  <2>3. view' = Listed(rows[Viewer])
    <3>1. r.result = rows[Viewer]
      BY <1>2, <1>4, <2>2 DEF ListFresh, Undisturbed
    <3> QED BY <2>2, <3>1 DEF AnswerList, SetView
  <2>4. \A e \in Kept : view'.audience[e] = rows[Viewer][e]
    BY <2>3 DEF Listed, Kept
  <2> QED BY <1>2, <2>1, <2>4 DEF AudiencesShown, AudienceSettled, AudienceFlight,
             AudienceBack, AudienceUndo, OneAudience
<1> QED BY <1>3, <1>4

LEMMA AudienceAnswerWrite ==
    ASSUME SessionState, ViewInv, AudiencesShown, Undisturbed', Calm, Calm',
           ~ServerAhead, Live = {}, met' = {},
           NEW r \in inflight, Answer(r), identity' = identity,
           NEW o \in {"ok", "http", "lost"}, AnswerWrite(r, o)
    PROVE  AudiencesShown'
<1>1. Typed /\ OneWriteEach /\ (\A x \in Mine : Flight(x)) /\ SnapshotKept
  BY DEF SessionState, ViewInv, ViewShown
<1>2. r.kind = "write" /\ provider' = provider /\ Kept' = Kept /\ Mine' = Mine \ {r}
      /\ Viewer' = Viewer /\ rows' = rows
  BY AnswerKeeps DEF AnswerWrite
<1>3. o # "lost" /\ (o = "ok" => r.served /\ view' = view)
      /\ (o = "http" => ~r.served /\ r \in Mine /\ view' = RolledBack(r))
  BY <1>2 DEF AnswerWrite, Calm, Outcome, SetView, Mine, Writes
<1>4. CASE r \notin Mine
  <2>1. view' = view /\ Mine' = Mine
    BY <1>2, <1>3, <1>4
  <2> QED BY <1>2, <2>1, AudienceFrame
<1>5. CASE r \in Mine
  <2>1. \A x \in Mine' : x \in Mine /\ x # r /\ x.event # r.event /\ provider # "attending"
    BY <1>1, <1>2, <1>5 DEF OneWriteEach
  <2>2. r.action \in {"add", "remove", "audience"} /\ r.event \in Events /\ view \in Views
        /\ provider \in {"saved", "attending"} /\ Kept \subseteq Events
        /\ \A x \in Mine : x.event \in Events
    BY <1>1, <1>2, <1>5, MineFields DEF Typed, ShownTyped, RestTyped, Kept
  <2>3. AudienceSettled /\ AudienceFlight /\ AudienceBack /\ AudienceUndo /\ OneAudience
    BY DEF AudiencesShown
  \* A saved list keeps what else is shown, an attending one takes everything back.
  <2>4. /\ provider = "saved" => \A e \in Events \ {r.event} : view'.audience[e] = view.audience[e]
        /\ provider = "attending" /\ o = "http" =>
             \A e \in Kept : view'.audience[e] = rows[Viewer][e]
    <3>1. CASE o = "ok"
      BY <1>3, <3>1
    <3>2. CASE o = "http" /\ r.action = "audience"
      <4>1. view'.audience = r.before.audience
        BY <1>3, <2>2, <3>2 DEF RolledBack, Views
      <4> QED BY <1>2, <1>3, <1>5, <2>3, <3>2, <4>1 DEF AudienceUndo, AudienceBack
    <3>3. CASE o = "http" /\ r.action # "audience" /\ provider = "attending"
      <4>1. view' = r.before
        BY <1>3, <3>3 DEF RolledBack
      <4> QED BY <1>2, <1>3, <1>5, <2>3, <3>3, <4>1 DEF AudienceBack
    <3>4. CASE o = "http" /\ r.action # "audience" /\ provider = "saved"
      <4>1. view'.audience = view.audience
        BY <1>3, <2>2, <3>4 DEF RolledBack, Views
      <4> QED BY <3>4, <4>1
    <3> QED BY <1>3, <2>2, <3>1, <3>2, <3>3, <3>4
  <2>5. r.event \in Kept => view'.audience[r.event] = rows[Viewer][r.event]
    <3> SUFFICES ASSUME r.event \in Kept PROVE view'.audience[r.event] = rows[Viewer][r.event]
      OBVIOUS
    <3>1. Flight(r)
      BY <1>1, <1>5
    <3>2. CASE o = "ok"
      <4>1. r.action # "remove" /\ view' = view
        BY <1>2, <1>3, <3>1, <3>2 DEF Flight
      <4> QED BY <1>2, <1>3, <1>5, <2>3, <3>2, <4>1 DEF AudienceFlight
    <3>3. CASE o = "http" /\ provider = "attending"
      BY <2>4, <3>3
    <3>4. CASE o = "http" /\ provider = "saved" /\ r.action = "audience"
      <4>1. view'.audience = r.before.audience
        BY <1>3, <2>2, <3>4 DEF RolledBack, Views
      <4> QED BY <1>2, <1>3, <1>5, <2>3, <3>4, <4>1 DEF AudienceUndo
    <3>5. CASE o = "http" /\ provider = "saved" /\ r.action # "audience"
      <4>1. r.action = "remove" /\ view'.audience = view.audience
        BY <1>2, <1>3, <2>2, <3>1, <3>5 DEF Flight, RolledBack, Views
      <4>2. \A w \in Mine : w.event = r.event => Removing(w)
        BY <1>1, <1>5, <3>5, <4>1 DEF OneWriteEach, Removing
      <4> QED BY <2>3, <4>1, <4>2 DEF AudienceSettled
    <3> QED BY <1>3, <2>2, <3>2, <3>3, <3>4, <3>5
  <2>6. AudienceSettled'
    <3> SUFFICES ASSUME NEW e \in Kept,
                        \A w \in Mine' : w.event = e => Removing(w)'
                 PROVE  view'.audience[e] = rows[Viewer][e]
      BY <1>2 DEF AudienceSettled
    <3>1. CASE e = r.event
      BY <2>5, <3>1
    <3>2. CASE e # r.event
      <4>1. \A w \in Mine : w.event = e => Removing(w)
        BY <1>2, <3>2 DEF Removing
      <4>2. view.audience[e] = rows[Viewer][e]
        BY <2>3, <4>1 DEF AudienceSettled
      <4>3. CASE provider = "saved"
        BY <2>2, <2>4, <3>2, <4>2, <4>3
      <4>4. CASE provider = "attending" /\ o = "http"
        BY <2>4, <4>4
      <4>5. CASE o = "ok"
        BY <1>3, <4>2, <4>5
      <4> QED BY <1>3, <2>2, <4>3, <4>4, <4>5
    <3> QED BY <3>1, <3>2
  <2>7. AudienceFlight'
    <3> SUFFICES ASSUME NEW x \in Mine', x.kind = "write", x.action # "remove"
                 PROVE  /\ x.audience # NoAudience /\ view'.audience[x.event] = x.audience
                        /\ x.served => rows[Viewer][x.event] = x.audience
      BY <1>2 DEF AudienceFlight
    <3>1. view'.audience[x.event] = view.audience[x.event]
      BY <2>1, <2>2, <2>4
    <3> QED BY <2>1, <2>3, <3>1 DEF AudienceFlight
  <2>8. AudienceBack'
    BY <1>2, <2>1 DEF AudienceBack
  <2>9. OneAudience'
    BY <2>1, <2>3 DEF OneAudience
  <2>10. AudienceUndo'
    <3> SUFFICES ASSUME provider = "saved", NEW x \in Mine', x.kind = "write",
                        x.action = "audience", ~x.served
                 PROVE  /\ \A e \in Events \ {x.event} : x.before.audience[e] = view'.audience[e]
                        /\ x.before.audience[x.event] = rows[Viewer][x.event]
      BY <1>2 DEF AudienceUndo
    <3>1. r.action # "audience"
      BY <1>2, <1>5, <2>1, <2>3 DEF OneAudience
    <3>2. view'.audience = view.audience
      BY <1>3, <2>2, <3>1 DEF RolledBack, Views
    <3> QED BY <2>1, <2>3, <3>2 DEF AudienceUndo
  <2> QED BY <2>6, <2>7, <2>8, <2>9, <2>10 DEF AudiencesShown
<1> QED BY <1>4, <1>5

LEMMA AudienceStep ==
    ASSUME SessionState, WritesInv, OwnersInv, ListFresh, ViewInv, AudienceInv, [Next]_vars
    PROVE  AudienceInv'
<1> SUFFICES ASSUME Undisturbed' PROVE AudiencesShown'
  BY DEF AudienceInv
<1>1. Typed /\ met = {} /\ Calm /\ Calm' /\ met' = {}
  BY UndisturbedCalm DEF SessionState, Undisturbed
<1>2. CASE (\E u \in Users : Login(u)) \/ Logout \/ DeleteAccount \/ RefreshUser
  <2>1. Writes' = Writes /\ Live' = Live
        /\ UNCHANGED <<provider, cookie, identity, view, rows>>
    BY <1>1, <1>2, AuthStepWrites, AuthStepChanges
  <2>2. inflight \subseteq inflight'
    BY <1>1, <1>2, AuthStepSends
  <2>3. ~ServerAhead' => ~ServerAhead
    BY <2>2 DEF ServerAhead, AuthOps
  <2>4. Mine' = Mine /\ Kept' = Kept /\ Viewer' = Viewer
    BY <2>1 DEF Mine, Kept, Viewer
  <2>5. AudiencesShown
    BY <1>1, <2>1, <2>3 DEF AudienceInv, Undisturbed
  <2> QED BY <2>1, <2>4, <2>5, AudienceFrame
<1>3. ASSUME NEW r \in inflight, Answer(r) PROVE AudiencesShown'
  <2>1. CASE identity' # identity
    <3>1. Live' # {}
      BY <1>1, <1>3, <2>1, AnswerMoves
    <3> QED BY <3>1 DEF Undisturbed
  <2>2. CASE identity' = identity
    <3>1. cookie' = cookie
      BY <1>1, <1>3, <2>2, AnswerStays
    <3>2. provider' = provider /\ Kept' = Kept /\ ServerAhead' = ServerAhead
          /\ Mine' = Mine \ {r} /\ Live' = Live \ {r} /\ Viewer' = Viewer /\ rows' = rows
      BY <1>1, <1>3, <2>2, AnswerKeeps
    <3>3. cookie.user # NoUser /\ ~ServerAhead
      BY <3>1, <3>2 DEF Undisturbed
    <3>4. r \notin Live => Live = {} /\ AudiencesShown
      BY <1>1, <3>2, <3>3 DEF Undisturbed, AudienceInv
    <3>5. ASSUME NEW o, AnswerMe(r, o) \/ AnswerLogin(r, o) \/ AnswerLogout(r, o)
          PROVE  AudiencesShown'
      <4>1. view' = view /\ r \notin Mine /\ r \notin Live
        BY <2>2, <3>5, SameIdentityView
      <4> QED BY <3>2, <3>4, <4>1, AudienceFrame
    <3>6. ASSUME NEW o, AnswerClear(r, o) PROVE AudiencesShown'
      <4>1. view'.audience = view.audience
        <5>1. view' = view \/ \E f : view' = [view EXCEPT !.ids = @ \cup f]
          BY <3>6 DEF AnswerClear, SetView
        <5> QED BY <1>1, <5>1 DEF Typed, ShownTyped, Views
      <4>2. r.kind = "clear" /\ r \notin Live /\ Removing(r)
        BY <3>6 DEF AnswerClear, Live, Sent, Removing
      <4> QED BY <3>2, <3>4, <4>1, <4>2, AudienceFrame
    <3>7. ASSUME NEW o \in {"ok", "http", "lost"}, AnswerWrite(r, o) PROVE AudiencesShown'
      <4>1. r \notin Live
        BY <3>7 DEF AnswerWrite, Live, Sent
      <4> QED BY <1>1, <1>3, <2>2, <3>3, <3>4, <3>7, <4>1, AudienceAnswerWrite
    <3>8. ASSUME NEW o \in {"ok", "http", "lost"}, AnswerList(r, o) PROVE AudiencesShown'
      BY <1>1, <1>3, <2>2, <3>3, <3>8, AudienceAnswerList
    <3> QED BY <1>3, <3>5, <3>6, <3>7, <3>8 DEF Answer
  <2> QED BY <2>1, <2>2
<1>4. CASE UNCHANGED vars
  <2>1. UNCHANGED <<provider, cookie, identity, view, rows, inflight, met>>
    BY <1>4 DEF vars
  <2>2. Mine' = Mine /\ Kept' = Kept /\ Live' = Live /\ ServerAhead' = ServerAhead
        /\ Viewer' = Viewer
    BY <2>1 DEF Mine, Writes, Sent, Kept, Viewer, Live, ServerAhead, AuthOps
  <2>3. AudiencesShown
    BY <2>1, <2>2 DEF AudienceInv, Undisturbed
  <2> QED BY <2>1, <2>2, <2>3, AudienceFrame
<1>5. CASE WriteStep
  BY <1>5, AudienceWriteStep DEF AudienceInv
<1>6. CASE ClearAll
  BY <1>6, AudienceClearAll DEF AudienceInv
<1>7. ASSUME NEW r \in inflight, Serve(r) PROVE AudiencesShown'
  BY <1>7, AudienceServe DEF AudienceInv
<1> QED BY <1>2, <1>3, <1>4, <1>5, <1>6, <1>7, Steps

----------------------------------------------------------------------------
(* The whole invariant *)

SessionInvariant ==
    SessionState /\ WritesInv /\ OwnersInv /\ ListFresh /\ ViewInv /\ AudienceInv

LEMMA InvariantInit == Init => SessionInvariant
<1> SUFFICES ASSUME Init PROVE SessionInvariant
  OBVIOUS
<1> DEFINE m == [n |-> 1, kind |-> "me", jar |-> cookie, served |-> FALSE,
                 by |-> Anon(0), gen |-> 1, first |-> TRUE, result |-> NoUser]
           l == [n |-> 2, kind |-> "list", jar |-> cookie, served |-> FALSE,
                 by |-> Anon(0), live |-> TRUE, result |-> Unknown]
<1>1. inflight = {m, l} /\ m.served = FALSE /\ l.served = FALSE
  BY DEF Init
<1> HIDE DEF m, l
<1>2. ListFresh
  BY <1>1 DEF ListFresh, Live, Sent
<1> QED BY <1>2, SessionStateInit, WritesInit, OwnersInit, ViewInit, AudienceInit
        DEF SessionInvariant

LEMMA InvariantStep ==
    ASSUME SessionInvariant, [Next]_vars
    PROVE  SessionInvariant'
<1> USE DEF SessionInvariant
<1>1. SessionState'
  BY SessionStateStep
<1>2. WritesInv'
  BY WritesStep DEF SessionState
<1>3. OwnersInv' /\ ListFresh' /\ ViewInv' /\ AudienceInv'
  BY OwnersStep, ListFreshStep, ViewStep, AudienceStep
<1> QED BY <1>1, <1>2, <1>3

\* Optimistic updates with rollback: when every request has been answered the
\* provider shows exactly the events the server keeps for the viewer, rejected
\* writes included, and a signed-in viewer the audiences it shares them with,
\* unless one of the races or faults that "met" names was met on the way.
THEOREM ViewsAgreeHolds == Spec => []ViewsAgree
<1>1. SessionInvariant => ViewAgrees /\ AudienceAgrees
  <2> SUFFICES ASSUME SessionInvariant, Quiet PROVE ViewAgrees /\ AudienceAgrees
    BY DEF ViewAgrees, AudienceAgrees
  <2> USE DEF SessionInvariant
  <2>1. Live = {} /\ Mine = {} /\ ~ServerAhead /\ Returning = {}
    BY DEF Quiet, Live, Sent, Mine, Writes, ServerAhead, AuthOps, Returning
  <2>2. view.ids \subseteq Events /\ Kept \subseteq Events
    BY DEF SessionState, Typed, ShownTyped, Views, Kept
  <2>3. ~AuthTrouble => Shared = Kept /\ Owner(cookie, deleted) = Viewer
    BY <2>1, ViewerOwner DEF Shared, Kept
  <2>4. ViewAgrees
    <3> SUFFICES ASSUME Calm PROVE view.ids = Shared
      BY DEF ViewAgrees, Calm
    <3>1. SettledShown /\ ~AuthTrouble
      BY <2>1 DEF ViewInv, ViewShown, Calm, AuthTrouble
    <3>2. \A e \in Events : e \in view.ids <=> e \in Kept
      BY <2>1, <3>1 DEF SettledShown
    <3> QED BY <2>2, <2>3, <3>1, <3>2
  <2>5. AudienceAgrees
    <3> SUFFICES ASSUME met = {}, cookie.user # NoUser, NEW e \in Shared
                 PROVE  view.audience[e] = rows[Owner(cookie, deleted)][e]
      BY DEF AudienceAgrees
    <3>1. AudienceSettled /\ ~AuthTrouble
      BY <2>1 DEF AudienceInv, Undisturbed, AudiencesShown, AuthTrouble
    <3> QED BY <2>1, <2>3, <3>1 DEF AudienceSettled
  <2> QED BY <2>4, <2>5
<1>2. Spec => []SessionInvariant
  BY InvariantInit, InvariantStep, PTL DEF Spec
<1>3. ViewAgrees /\ AudienceAgrees /\ TypeOK /\ LoadingEnds => ViewsAgree
  BY DEF ViewsAgree
<1> QED BY <1>1, <1>2, <1>3, TypeCorrect, LoadingEndsHolds, PTL

=============================================================================
