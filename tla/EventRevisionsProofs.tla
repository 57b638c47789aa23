------------------------ MODULE EventRevisionsProofs ------------------------
(***************************************************************************)
(* What the review pages rely on, for every set of fields, values and      *)
(* users and every bound: no change of the source is lost or invented, a   *)
(* suggestion is compared with what attendees see, and the two writers of  *)
(* the status agree, with each other, the review queue and the blocks.     *)
(***************************************************************************)
EXTENDS EventRevisions, TLAPS

EventRecord == [status : Statuses, reason : Reasons, hidden : BOOLEAN,
                cancelled : BOOLEAN, deleted : BOOLEAN, reviewed : BOOLEAN]

OpenRecord == [proposal : Edits, removal : BOOLEAN, draft : Edits,
               suggestion : [Proposers -> Suggestions], creation : BOOLEAN]

Decided == {a \in [new : Edits, old : Edits,
                   status : {"none", "cancel", "restore", "removed"}] :
              DOMAIN a.new = DOMAIN a.old}

Typed ==
  /\ event \in EventRecord
  /\ live \in [Fields -> Values] /\ source \in [Fields -> Values]
  /\ pulled \in [Fields -> Values] /\ applied \in [Extracted -> Values]
  /\ open \in OpenRecord
  /\ rejected \subseteq Edits \ {NoEdit}
  /\ accepted \subseteq Decided
  /\ inFlight \in [Fields -> Values] \union {NoPull}
  /\ blocked \in BOOLEAN /\ late \in BOOLEAN
  /\ due \in [Fields -> BOOLEAN]
  /\ pulls \in 0 .. MaxPulls /\ writes \in 0 .. MaxWrites

\* The status says what the legacy columns say; it is cleared only together
\* with them.
Agrees(e) ==
  \/ e.status = "null" /\ ~e.hidden /\ ~e.deleted
  \/ e.status = LegacyStatus(e).status
  \/ e.status = "removed" /\ e.hidden

\* A removed event is either deleted at the source or hidden and blocked.
Gone(e, b) ==
  e.status = "removed" =>
    \/ e.deleted /\ ~e.hidden /\ e.reason = "google_calendar"
    \/ ~e.deleted /\ e.hidden /\ b

\* A change of the source that is due waits, whether or not the event has been
\* reviewed in the meantime, for copied and extracted fields alike.
DueWaits == \A f \in Fields : due[f] => Waits(f)

ReviewInv ==
  /\ Typed /\ DueWaits /\ ComparedWithLive /\ Agrees(event)
  /\ NewIsQueued /\ GoneIsSettled /\ Gone(event, blocked)

\* A step adds nothing to the pending change of the source.
ProposalKept ==
  \A f \in DOMAIN open'.proposal :
    f \in DOMAIN open.proposal /\ open'.proposal[f] = open.proposal[f]

\* What OnlyMovedIsProposed says of one step.
MovedOnly ==
  \A f \in Copied :
    f \in DOMAIN open'.proposal /\ ~(f \in DOMAIN open.proposal
                                    /\ open.proposal[f] = open'.proposal[f])
      => source'[f] # source[f]

-----------------------------------------------------------------------------
(* Sets of changes *)

LEMMA EditIs ==
  ASSUME NEW c \in Edits
  PROVE  /\ DOMAIN c \subseteq Fields
         /\ \A f \in DOMAIN c : c[f] \in Values
BY DEF Edits

LEMMA IsEdit ==
  ASSUME NEW D, D \subseteq Fields, NEW c \in [D -> Values]
  PROVE  c \in Edits
BY DEF Edits

LEMMA NoEditIs == NoEdit \in Edits /\ DOMAIN NoEdit = {}
<1>1. NoEdit \in [{} -> Values]
  BY DEF NoEdit
<1> QED
  BY <1>1, IsEdit DEF NoEdit

LEMMA WithoutIs ==
  ASSUME NEW c \in Edits, NEW D
  PROVE  /\ Without(c, D) \in Edits
         /\ DOMAIN Without(c, D) = (DOMAIN c) \ D
         /\ \A f \in (DOMAIN c) \ D : Without(c, D)[f] = c[f]
<1>1. Without(c, D) \in [(DOMAIN c) \ D -> Values]
  BY EditIs DEF Without
<1>2. (DOMAIN c) \ D \subseteq Fields
  BY EditIs
<1> QED
  BY <1>1, <1>2, IsEdit DEF Without

LEMMA WithoutNothing ==
  ASSUME NEW D
  PROVE  Without(NoEdit, D) = NoEdit
BY DEF Without, NoEdit

LEMMA OverlayIs ==
  ASSUME live \in [Fields -> Values], NEW c \in Edits
  PROVE  /\ Overlay(c) \in [Fields -> Values]
         /\ \A f \in Fields \ DOMAIN c : Overlay(c)[f] = live[f]
BY EditIs DEF Overlay

LEMMA NoSuggestionIs ==
  /\ NoSuggestion \in Suggestions
  /\ ~Pending(NoSuggestion)
  /\ DOMAIN NoSuggestion.old = {}
BY NoEditIs DEF NoSuggestion, Suggestions, Pending

LEMMA NothingOpenIs == NothingOpen \in OpenRecord
BY NoEditIs, NoSuggestionIs DEF NothingOpen, OpenRecord

-----------------------------------------------------------------------------
(* Status *)

LEMMA StatusSet ==
  ASSUME NEW e \in EventRecord, NEW s \in Statuses, NEW why \in Reasons
  PROVE  /\ SetEventStatus(e, s, why) \in EventRecord
         /\ Agrees(SetEventStatus(e, s, why))
         /\ SetEventStatus(e, s, why).status = s
         /\ s = "removed" =>
              /\ SetEventStatus(e, s, why).reason = why
              /\ SetEventStatus(e, s, why).hidden = (why # "google_calendar")
              /\ SetEventStatus(e, s, why).deleted = (why = "google_calendar")
         /\ s \notin {"removed", "unpublished"} =>
              ~SetEventStatus(e, s, why).hidden /\ ~SetEventStatus(e, s, why).deleted
BY DEF SetEventStatus, EventRecord, Agrees, LegacyStatus, Statuses, Reasons

\* The flush listener leaves the legacy columns alone, and a status that agrees
\* with them.
LEMMA FlushAgrees ==
  ASSUME NEW e \in EventRecord, event \in EventRecord, Agrees(event),
         e.status = event.status \/ Agrees(e)
  PROVE  /\ Flushed(e) \in EventRecord
         /\ Agrees(Flushed(e))
         /\ LegacyColumns(Flushed(e)) = LegacyColumns(e)
<1> DEFINE l == LegacyStatus(e)
<1>1. /\ l.status \in Statuses /\ l.reason \in Reasons
      /\ l = LegacyStatus([e EXCEPT !.status = l.status, !.reason = l.reason])
  BY DEF LegacyStatus, EventRecord, Statuses, Reasons
<1>2. LegacyColumns(e) = LegacyColumns(event) /\ e.status = event.status => Agrees(e)
  BY DEF LegacyColumns, LegacyStatus, Agrees, EventRecord
<1>3. l.status = "unpublished" => e.hidden
  BY DEF LegacyStatus, EventRecord
<1>4. CASE Flushed(e) = e
  <2>1. e.status # event.status => Agrees(e)
    OBVIOUS
  <2>2. e.status = event.status /\ LegacyColumns(e) = LegacyColumns(event) => Agrees(e)
    BY <1>2
  <2>3. l.status = "unpublished" /\ e.status = "removed" => Agrees(e)
    BY <1>3 DEF Agrees
  <2>4. ASSUME e = [e EXCEPT !.status = l.status, !.reason = l.reason]
        PROVE  Agrees(e)
    <3>1. e.status = l.status
      BY <2>4 DEF EventRecord
    <3> QED
      BY <3>1 DEF Agrees
  <2>5. Agrees(e)
    BY <1>4, <2>1, <2>2, <2>3, <2>4 DEF Flushed
  <2> QED
    BY <1>4, <2>5
<1>5. CASE Flushed(e) = [e EXCEPT !.status = l.status, !.reason = l.reason]
  <2>1. Flushed(e) \in EventRecord
    BY <1>1, <1>5 DEF EventRecord
  <2>2. LegacyColumns(Flushed(e)) = LegacyColumns(e)
    BY <1>5 DEF LegacyColumns, EventRecord
  <2>3. Flushed(e).status = LegacyStatus(Flushed(e)).status
    BY <1>1, <1>5 DEF EventRecord
  <2> QED
    BY <2>1, <2>2, <2>3 DEF Agrees
<1> QED
  BY <1>4, <1>5 DEF Flushed

LEMMA FlushStatus ==
  ASSUME NEW e \in EventRecord
  PROVE  /\ Flushed(e).status \in {e.status, LegacyStatus(e).status}
         /\ e.status # event.status => Flushed(e) = e
         /\ LegacyColumns(e) = LegacyColumns(event) => Flushed(e) = e
         /\ LegacyStatus(e).status = "unpublished" /\ e.status = "removed" => Flushed(e) = e
         /\ Flushed(e).reason \in {e.reason, LegacyStatus(e).reason}
         /\ LegacyStatus(e).status = e.status /\ LegacyStatus(e).reason = e.reason => Flushed(e) = e
BY DEF Flushed, EventRecord

\* What closes with the status keeps the review queue to new events.
LEMMA MirroredIs ==
  ASSUME NEW o \in OpenRecord, NEW e \in EventRecord,
         o.creation <=> event.status = "new"
  PROVE  /\ Mirrored(o, e) \in OpenRecord
         /\ Mirrored(o, e).creation <=> e.status = "new"
         /\ NewlyRemoved(e) => Mirrored(o, e) = NothingOpen
         /\ ~NewlyRemoved(e) =>
              /\ Mirrored(o, e).proposal = o.proposal
              /\ Mirrored(o, e).removal = o.removal
              /\ Mirrored(o, e).draft = o.draft
              /\ Mirrored(o, e).suggestion = o.suggestion
<1>1. CASE NewlyRemoved(e)
  BY <1>1, NothingOpenIs DEF Mirrored, NewlyRemoved, NothingOpen
<1>2. CASE ~NewlyRemoved(e) /\ e.status \notin {event.status, "removed"}
  <2>1. Mirrored(o, e) = [o EXCEPT !.creation = (e.status = "new")]
    BY <1>2 DEF Mirrored
  <2>2. (e.status = "new") \in BOOLEAN
    OBVIOUS
  <2> QED
    BY <1>2, <2>1, <2>2 DEF OpenRecord
<1>3. CASE ~NewlyRemoved(e) /\ e.status \in {event.status, "removed"}
  <2>1. Mirrored(o, e) = o
    BY <1>3 DEF Mirrored
  <2>2. e.status = event.status
    BY <1>3 DEF NewlyRemoved
  <2> QED
    BY <1>3, <2>1, <2>2
<1> QED
  BY <1>1, <1>2, <1>3

\* The status part of an applied revision.
StatusOf(r) ==
  /\ r.status \in {"none", "cancel", "restore", "removed", "new", "null"}
  /\ r.reason \in Reasons

LEMMA AppliedEvent ==
  ASSUME NEW r, StatusOf(r), NEW was \in BOOLEAN,
         event \in EventRecord, Agrees(event), Gone(event, blocked),
         was = blocked \/ r.status = "new"
  PROVE  LET e == Flushed(StatusApplied(event, r))
             b == was \/ (r.status = "removed" /\ e.reason # "google_calendar")
         IN  /\ e \in EventRecord /\ Agrees(e) /\ Gone(e, b)
             /\ r.status = "removed" => e.status = "removed"
<1> DEFINE s == StatusApplied(event, r)
           e == Flushed(s)
           b == was \/ (r.status = "removed" /\ e.reason # "google_calendar")
<1>1. CASE r.status = "none"
  <2>1. s = event
    BY <1>1 DEF StatusApplied
  <2>2. e = event
    BY <2>1, FlushStatus
  <2> QED
    BY <1>1, <2>2
<1>2. CASE r.status \in {"cancel", "restore"}
  <2>1. PICK c \in BOOLEAN : s = [event EXCEPT !.cancelled = c]
    BY <1>2 DEF StatusApplied
  <2>2. s \in EventRecord /\ s.status = event.status
    BY <2>1 DEF EventRecord
  <2>3. e \in EventRecord /\ Agrees(e) /\ LegacyColumns(e) = LegacyColumns(s)
    BY <2>2, FlushAgrees
  <2>4. e.hidden = event.hidden /\ e.deleted = event.deleted
    BY <2>1, <2>3 DEF LegacyColumns, EventRecord
  <2>5. e.status = "removed" => Gone(e, b)
    <3> SUFFICES ASSUME e.status = "removed" PROVE Gone(e, b)
      OBVIOUS
    <3>1. CASE event.status = "removed" /\ event.deleted
      <4>1. LegacyStatus(s).reason = "google_calendar"
        BY <2>1, <3>1 DEF LegacyStatus, EventRecord
      <4>2. e.reason = "google_calendar"
        BY <2>1, <2>2, <3>1, <4>1, FlushStatus DEF Gone, EventRecord
      <4> QED
        BY <2>4, <3>1, <4>2 DEF Gone
    <3>2. CASE event.status = "removed" /\ ~event.deleted
      BY <1>2, <2>4, <3>2 DEF Gone
    <3>3. CASE event.status # "removed"
      <4>1. LegacyStatus(s).status = "removed"
        BY <2>2, <3>3, FlushStatus
      <4>2. event.deleted
        BY <2>1, <4>1 DEF LegacyStatus, EventRecord
      <4>3. LegacyStatus(event).status = "removed"
        BY <4>2 DEF LegacyStatus
      <4> QED
        BY <3>3, <4>2, <4>3 DEF Agrees
    <3> QED
      BY <3>1, <3>2, <3>3
  <2> QED
    BY <1>2, <2>3, <2>5 DEF Gone
<1>3. CASE r.status \in {"removed", "new", "null"}
  <2>1. s = SetEventStatus(event, r.status, r.reason)
    BY <1>3 DEF StatusApplied
  <2>2. /\ s \in EventRecord /\ Agrees(s) /\ s.status = r.status
        /\ s.status = "removed" =>
             /\ s.reason = r.reason
             /\ s.hidden = (r.reason # "google_calendar")
             /\ s.deleted = (r.reason = "google_calendar")
        /\ s.status \notin {"removed", "unpublished"} => ~s.hidden /\ ~s.deleted
    <3>1. r.status \in Statuses /\ r.reason \in Reasons
      BY <1>3 DEF StatusOf, Statuses
    <3> HIDE DEF s
    <3> QED
      BY <2>1, <3>1, StatusSet
  <2>3. e \in EventRecord /\ Agrees(e) /\ LegacyColumns(e) = LegacyColumns(s)
    BY <2>2, FlushAgrees
  <2>4. e.hidden = s.hidden /\ e.deleted = s.deleted
    BY <2>3 DEF LegacyColumns
  <2>5. CASE r.status \in {"new", "null"}
    <3>1. ~s.hidden /\ ~s.deleted
      BY <2>2, <2>5
    <3>2. LegacyStatus(s).status # "removed"
      BY <3>1 DEF LegacyStatus
    <3>3. e.status # "removed"
      BY <2>2, <2>5, <3>2, FlushStatus
    <3> QED
      BY <2>3, <2>5, <3>3 DEF Gone
  <2>6. CASE r.status = "removed"
    <3>1. e = s
      BY <2>2, <2>6, FlushStatus DEF LegacyStatus
    <3> QED
      BY <2>2, <2>3, <2>6, <3>1 DEF Gone
  <2> QED
    BY <1>3, <2>5, <2>6
<1> QED
  BY <1>1, <1>2, <1>3 DEF StatusOf

-----------------------------------------------------------------------------
(* Applying a revision *)

\* What is still open besides the revision r that is being applied.
Rest(o, r) ==
  /\ o \in OpenRecord
  /\ o.creation = open.creation
  /\ o.removal => open.removal
  /\ \/ o.proposal = open.proposal
     \/ o.proposal = NoEdit /\ DOMAIN open.proposal \subseteq DOMAIN r.new
  /\ \A u \in Proposers : o.suggestion[u] \in {open.suggestion[u], NoSuggestion}

LEMMA SuggestionIs ==
  ASSUME NEW s \in Suggestions
  PROVE  /\ s.new \in Edits /\ s.old \in Edits /\ s.stale \subseteq Fields
         /\ s.cancel \in {"none", "cancel", "restore"}
         /\ DOMAIN s.new = DOMAIN s.old
BY DEF Suggestions

LEMMA Superseded ==
  ASSUME NEW o \in OpenRecord, NEW r, r.new \in Edits
  PROVE  LET n == SupersedeOverlapping(o, r)
             D == DOMAIN r.new
         IN  /\ n \in OpenRecord
             /\ n.creation = o.creation /\ n.removal = o.removal
             /\ n.proposal = Without(o.proposal, D)
             /\ \A u \in Proposers :
                  /\ n.suggestion[u].new = Without(o.suggestion[u].new, D)
                  /\ n.suggestion[u].old = Without(o.suggestion[u].old, D)
                  /\ n.suggestion[u].cancel \in {"none", o.suggestion[u].cancel}
                  /\ n.suggestion[u].stale = o.suggestion[u].stale \ D
<1> DEFINE D == DOMAIN r.new
           S(u) == [new    |-> Without(o.suggestion[u].new, D),
                    old    |-> Without(o.suggestion[u].old, D),
                    cancel |-> IF r.status \in {"cancel", "restore"} THEN "none"
                               ELSE o.suggestion[u].cancel,
                    stale  |-> o.suggestion[u].stale \ D]
           n == SupersedeOverlapping(o, r)
<1>1. n = [o EXCEPT !.proposal = Without(o.proposal, D),
                    !.suggestion = [u \in Proposers |-> S(u)]]
  BY DEF SupersedeOverlapping
<1>2. ASSUME NEW u \in Proposers
      PROVE  S(u) \in Suggestions
  <2>1. o.suggestion[u] \in Suggestions
    BY DEF OpenRecord
  <2>2. /\ Without(o.suggestion[u].new, D) \in Edits
        /\ Without(o.suggestion[u].old, D) \in Edits
        /\ DOMAIN Without(o.suggestion[u].new, D) = DOMAIN Without(o.suggestion[u].old, D)
    <3>1. /\ o.suggestion[u].new \in Edits /\ o.suggestion[u].old \in Edits
          /\ DOMAIN o.suggestion[u].new = DOMAIN o.suggestion[u].old
      BY <2>1, SuggestionIs
    <3> HIDE DEF D
    <3>2. /\ Without(o.suggestion[u].new, D) \in Edits
          /\ DOMAIN Without(o.suggestion[u].new, D) = (DOMAIN o.suggestion[u].new) \ D
      BY <3>1, WithoutIs
    <3>3. /\ Without(o.suggestion[u].old, D) \in Edits
          /\ DOMAIN Without(o.suggestion[u].old, D) = (DOMAIN o.suggestion[u].old) \ D
      BY <3>1, WithoutIs
    <3> QED
      BY <3>1, <3>2, <3>3
  <2>3. o.suggestion[u].stale \ D \subseteq Fields
    BY <2>1, SuggestionIs
  <2>4. S(u).cancel \in {"none", "cancel", "restore"}
    BY <2>1, SuggestionIs
  <2> QED
    BY <2>2, <2>3, <2>4 DEF Suggestions
<1>3. Without(o.proposal, D) \in Edits
  BY WithoutIs DEF OpenRecord
<1>4. [u \in Proposers |-> S(u)] \in [Proposers -> Suggestions]
  BY <1>2
<1>5. n \in OpenRecord
  <2> HIDE DEF S, D
  <2> QED
    BY <1>1, <1>3, <1>4 DEF OpenRecord
<1>6. /\ n.creation = o.creation /\ n.removal = o.removal
      /\ n.proposal = Without(o.proposal, D)
      /\ n.suggestion = [u \in Proposers |-> S(u)]
  BY <1>1 DEF OpenRecord
<1> QED
  BY <1>5, <1>6

LEMMA ApplyKeeps ==
  ASSUME ReviewInv, NEW r, StatusOf(r), r.new \in Edits,
         NEW o, Rest(o, r), NEW was \in BOOLEAN, was = blocked \/ r.status = "new",
         ApplyChanges(r, o, was),
         rejected' \subseteq Edits \ {NoEdit}, accepted' \subseteq Decided,
         writes' \in 0 .. MaxWrites
  PROVE  ReviewInv' /\ ProposalKept
<1> DEFINE e == Flushed(StatusApplied(event, r))
           m == Mirrored(o, e)
           D == DOMAIN r.new
           b == was \/ (r.status = "removed" /\ e.reason # "google_calendar")
<1> USE DEF ReviewInv
<1>1. e \in EventRecord /\ Agrees(e) /\ Gone(e, b)
  BY AppliedEvent DEF Typed
<1>2. /\ live' = Overlay(r.new) /\ event' = e /\ blocked' = b
      /\ open' = SupersedeOverlapping(m, r)
      /\ due' = [f \in Fields |-> due[f] /\ f \notin D /\ ~NewlyRemoved(e)]
      /\ UNCHANGED <<source, pulled, applied, inFlight, late, pulls>>
  BY DEF ApplyChanges
<1>3. o.creation <=> event.status = "new"
  BY DEF Rest, NewIsQueued
<1>4. /\ m \in OpenRecord
      /\ m.creation <=> e.status = "new"
      /\ NewlyRemoved(e) => m = NothingOpen
      /\ ~NewlyRemoved(e) => /\ m.proposal = o.proposal
                             /\ m.removal = o.removal
                             /\ m.suggestion = o.suggestion
  BY <1>1, <1>3, MirroredIs DEF Rest
<1> HIDE DEF m, e, b
<1>5. /\ open' \in OpenRecord
      /\ open'.creation = m.creation /\ open'.removal = m.removal
      /\ open'.proposal = Without(m.proposal, D)
      /\ \A u \in Proposers :
           /\ open'.suggestion[u].new = Without(m.suggestion[u].new, D)
           /\ open'.suggestion[u].old = Without(m.suggestion[u].old, D)
           /\ open'.suggestion[u].cancel \in {"none", m.suggestion[u].cancel}
           /\ open'.suggestion[u].stale = m.suggestion[u].stale \ D
  BY <1>2, <1>4, Superseded
<1>6. live' \in [Fields -> Values] /\ \A f \in Fields \ D : live'[f] = live[f]
  BY <1>2, OverlayIs DEF Typed
<1>7. Typed'
  BY <1>1, <1>2, <1>5, <1>6 DEF Typed, b
<1>8. ASSUME NEW f \in Fields, due'[f]
      PROVE  Waits(f)'
  <2>1. due[f] /\ f \notin D /\ ~NewlyRemoved(e)
    BY <1>2, <1>8
  <2>2. f \in DOMAIN open.proposal /\ open.proposal[f] = source[f]
    BY <2>1 DEF DueWaits, Waits
  <2>3. m.proposal = open.proposal
    BY <1>4, <2>1, <2>2 DEF Rest
  <2>4. open.proposal \in Edits
    BY DEF Typed, OpenRecord
  <2> HIDE DEF D
  <2>5. f \in DOMAIN Without(open.proposal, D) /\ Without(open.proposal, D)[f] = open.proposal[f]
    BY <2>1, <2>2 DEF Without
  <2> QED
    BY <1>2, <1>5, <2>2, <2>3, <2>5 DEF Waits
<1>9. ASSUME NEW u \in Proposers,
             NEW f \in (DOMAIN open'.suggestion[u].old) \ open'.suggestion[u].stale
      PROVE  open'.suggestion[u].old[f] = live'[f]
  <2>1. m.suggestion[u] \in Suggestions
    BY <1>4 DEF OpenRecord
  <2>2. /\ f \in (DOMAIN m.suggestion[u].old) \ m.suggestion[u].stale /\ f \notin D
        /\ f \in Fields
        /\ open'.suggestion[u].old[f] = m.suggestion[u].old[f]
    <3>1. m.suggestion[u].old \in Edits
      BY <2>1, SuggestionIs
    <3>2. /\ open'.suggestion[u].old = Without(m.suggestion[u].old, D)
          /\ open'.suggestion[u].stale = m.suggestion[u].stale \ D
      BY <1>5
    <3> HIDE DEF D
    <3>3. /\ DOMAIN Without(m.suggestion[u].old, D) = (DOMAIN m.suggestion[u].old) \ D
          /\ \A g \in (DOMAIN m.suggestion[u].old) \ D :
               Without(m.suggestion[u].old, D)[g] = m.suggestion[u].old[g]
      BY <3>1, WithoutIs
    <3>4. f \in (DOMAIN m.suggestion[u].old) \ D /\ f \notin m.suggestion[u].stale \ D
      BY <3>2, <3>3
    <3>5. DOMAIN m.suggestion[u].old \subseteq Fields
      BY <3>1, EditIs
    <3> QED
      BY <3>2, <3>3, <3>4, <3>5
  <2>3. m.suggestion[u] # NoSuggestion
    BY <2>2, NoSuggestionIs
  <2>4. ~NewlyRemoved(e)
    BY <1>4, <2>3 DEF NothingOpen
  <2>5. m.suggestion[u] = open.suggestion[u]
    BY <1>4, <2>3, <2>4 DEF Rest
  <2>6. open.suggestion[u].old[f] = live[f]
    BY <2>2, <2>5 DEF ComparedWithLive
  <2> QED
    BY <1>6, <2>2, <2>5, <2>6
<1>10. NewIsQueued'
  BY <1>2, <1>4, <1>5 DEF NewIsQueued
<1>11. GoneIsSettled'
  <2> SUFFICES ASSUME e.status = "removed" PROVE GoneIsSettled'
    BY <1>2 DEF GoneIsSettled
  <2>1. /\ ~m.removal
        /\ \A u \in Proposers : ~Pending(m.suggestion[u])
        /\ m.proposal # NoEdit => late
    <3>1. CASE NewlyRemoved(e)
      BY <1>4, <3>1, NoSuggestionIs DEF NothingOpen
    <3>2. CASE ~NewlyRemoved(e)
      <4>1. event.status = "removed"
        BY <3>2 DEF NewlyRemoved
      <4>2. /\ ~open.removal
            /\ \A u \in Proposers : ~Pending(open.suggestion[u])
            /\ open.proposal # NoEdit => late
        BY <4>1 DEF GoneIsSettled
      <4> QED
        BY <1>4, <3>2, <4>2, NoSuggestionIs DEF Rest
    <3> QED
      BY <3>1, <3>2
  <2>2. ASSUME NEW u \in Proposers
        PROVE  ~Pending(open'.suggestion[u])
    BY <1>5, <2>1, WithoutNothing DEF Pending
  <2>3. open'.proposal # NoEdit => late'
    BY <1>2, <1>5, <2>1, WithoutNothing
  <2> QED
    BY <1>5, <2>1, <2>2, <2>3 DEF GoneIsSettled, Pending
<1>12. Agrees(event)' /\ Gone(event, blocked)'
  BY <1>1, <1>2 DEF Agrees, Gone, LegacyStatus
<1>13. ProposalKept
  <2>1. m.proposal \in {open.proposal, NoEdit}
    BY <1>4 DEF Rest, NothingOpen
  <2>2. m.proposal \in Edits
    BY <1>4 DEF OpenRecord
  <2> HIDE DEF D
  <2>3. \A f \in DOMAIN open'.proposal :
          f \in DOMAIN m.proposal /\ open'.proposal[f] = m.proposal[f]
    BY <1>5 DEF Without
  <2> QED
    BY <2>1, <2>3, NoEditIs DEF ProposalKept
<1> QED
  BY <1>7, <1>8, <1>9, <1>10, <1>11, <1>12, <1>13 DEF DueWaits, ComparedWithLive

-----------------------------------------------------------------------------
(* Writing a status, and writing the fields themselves *)

LEMMA EventSet ==
  ASSUME NEW s \in Statuses, NEW why \in Reasons,
         event \in EventRecord, Agrees(event)
  PROVE  LET e == Flushed(SetEventStatus(event, s, why))
         IN  /\ e \in EventRecord /\ Agrees(e)
             /\ s # "removed" => e.status # "removed"
             /\ s = "removed" => e = SetEventStatus(event, s, why)
<1> DEFINE x == SetEventStatus(event, s, why)
           e == Flushed(x)
<1>1. /\ x \in EventRecord /\ Agrees(x) /\ x.status = s
      /\ s = "removed" =>
           /\ x.reason = why
           /\ x.hidden = (why # "google_calendar")
           /\ x.deleted = (why = "google_calendar")
  BY StatusSet
<1> HIDE DEF x
<1>2. e \in EventRecord /\ Agrees(e)
  BY <1>1, FlushAgrees
<1>3. ASSUME s # "removed"
      PROVE  e.status # "removed"
  <2>1. LegacyStatus(x).status # "removed"
    BY <1>1, <1>3 DEF Agrees, LegacyStatus, EventRecord
  <2> QED
    BY <1>1, <1>3, <2>1, FlushStatus
<1>4. ASSUME s = "removed"
      PROVE  e = x
  <2>1. CASE why = "google_calendar"
    <3>1. LegacyStatus(x).status = "removed" /\ LegacyStatus(x).reason = "google_calendar"
      BY <1>1, <1>4, <2>1 DEF LegacyStatus
    <3> QED
      BY <1>1, <1>4, <2>1, <3>1, FlushStatus
  <2>2. CASE why # "google_calendar"
    <3>1. LegacyStatus(x).status = "unpublished"
      BY <1>1, <1>4, <2>2 DEF LegacyStatus
    <3> QED
      BY <1>1, <1>4, <3>1, FlushStatus
  <2> QED
    BY <2>1, <2>2
<1> QED
  BY <1>2, <1>3, <1>4 DEF x

LEMMA StatusKeeps ==
  ASSUME ReviewInv, NEW e \in EventRecord, Agrees(e), Gone(e, blocked'),
         event' = e, open' = Mirrored(open, e), blocked' \in BOOLEAN,
         due' \in [Fields -> BOOLEAN],
         \A f \in Fields : due'[f] => due[f] /\ ~NewlyRemoved(e),
         UNCHANGED <<live, source, pulled, applied, rejected, accepted, inFlight, late>>,
         pulls' \in 0 .. MaxPulls, writes' \in 0 .. MaxWrites
  PROVE  ReviewInv' /\ ProposalKept
<1> USE DEF ReviewInv
<1>1. /\ open' \in OpenRecord
      /\ open'.creation <=> e.status = "new"
      /\ NewlyRemoved(e) => open' = NothingOpen
      /\ ~NewlyRemoved(e) => /\ open'.proposal = open.proposal
                             /\ open'.removal = open.removal
                             /\ open'.suggestion = open.suggestion
  BY MirroredIs DEF Typed, NewIsQueued
<1>2. Typed'
  BY <1>1 DEF Typed
<1>3. DueWaits'
  BY <1>1 DEF DueWaits, Waits, Typed
<1>4. ComparedWithLive'
  <2>1. CASE NewlyRemoved(e)
    BY <1>1, <2>1, NoSuggestionIs DEF NothingOpen, ComparedWithLive
  <2>2. CASE ~NewlyRemoved(e)
    BY <1>1, <2>2 DEF ComparedWithLive
  <2> QED
    BY <2>1, <2>2
<1>5. GoneIsSettled'
  <2>1. CASE NewlyRemoved(e)
    BY <1>1, <2>1, NoSuggestionIs DEF NothingOpen, GoneIsSettled, Pending
  <2>2. CASE ~NewlyRemoved(e)
    BY <1>1, <2>2 DEF GoneIsSettled, NewlyRemoved, Pending
  <2> QED
    BY <2>1, <2>2
<1>6. NewIsQueued' /\ Agrees(event)' /\ Gone(event, blocked)'
  BY <1>1 DEF NewIsQueued, Agrees, Gone, LegacyStatus
<1>7. ProposalKept
  BY <1>1, NoEditIs DEF ProposalKept, NothingOpen
<1> QED
  BY <1>2, <1>3, <1>4, <1>5, <1>6, <1>7

LEMMA WriteKeeps ==
  ASSUME ReviewInv, NEW s \in Statuses, NEW why \in Reasons \ {"google_calendar"},
         NEW block \in BOOLEAN, s = "removed" => block,
         WriteStatus(s, why, block), writes' \in 0 .. MaxWrites
  PROVE  ReviewInv' /\ ProposalKept
<1> PICK e : e = Flushed(SetEventStatus(event, s, why))
  OBVIOUS
<1>1. /\ e \in EventRecord /\ Agrees(e)
      /\ s # "removed" => e.status # "removed"
      /\ s = "removed" => e = SetEventStatus(event, s, why)
  BY EventSet DEF ReviewInv, Typed
<1>2. Gone(e, block)
  <2>1. s = "removed" => e.hidden /\ ~e.deleted
    <3> SUFFICES ASSUME s = "removed" PROVE e.hidden /\ ~e.deleted
      OBVIOUS
    <3>1. /\ SetEventStatus(event, s, why).hidden = (why # "google_calendar")
          /\ SetEventStatus(event, s, why).deleted = (why = "google_calendar")
      BY StatusSet DEF ReviewInv, Typed
    <3> QED
      BY <1>1, <3>1
  <2> QED
    BY <1>1, <2>1 DEF Gone
<1>3. /\ event' = e /\ open' = Mirrored(open, e) /\ blocked' = block
      /\ due' = [f \in Fields |-> due[f] /\ ~NewlyRemoved(e)]
      /\ UNCHANGED <<live, source, pulled, applied, rejected, accepted, inFlight, late, pulls>>
  BY DEF WriteStatus
<1>4. due' \in [Fields -> BOOLEAN] /\ \A f \in Fields : due'[f] => due[f] /\ ~NewlyRemoved(e)
  BY <1>3
<1> QED
  BY <1>1, <1>2, <1>3, <1>4, StatusKeeps DEF ReviewInv, Typed

LEMMA MarkStaleIs ==
  ASSUME ReviewInv, NEW v, NEW o \in OpenRecord, o.suggestion = open.suggestion
  PROVE  LET n == MarkStale(o, v)
         IN  /\ n \in OpenRecord
             /\ n.creation = o.creation /\ n.removal = o.removal
             /\ n.proposal = o.proposal
             /\ \A u \in Proposers :
                  /\ n.suggestion[u].new = open.suggestion[u].new
                  /\ n.suggestion[u].old = open.suggestion[u].old
                  /\ n.suggestion[u].cancel = open.suggestion[u].cancel
                  /\ n.suggestion[u].stale = open.suggestion[u].stale \union
                       {f \in DOMAIN open.suggestion[u].new : v[f] # live[f]}
<1> DEFINE n == MarkStale(o, v)
           moved(u) == {f \in DOMAIN open.suggestion[u].new : v[f] # live[f]}
           S(u) == [o.suggestion[u] EXCEPT !.stale = o.suggestion[u].stale \union moved(u)]
<1>1. n = [o EXCEPT !.suggestion = [u \in Proposers |-> S(u)]]
  BY DEF MarkStale
<1>2. ASSUME NEW u \in Proposers
      PROVE  /\ S(u) \in Suggestions
             /\ S(u).new = open.suggestion[u].new
             /\ S(u).old = open.suggestion[u].old
             /\ S(u).cancel = open.suggestion[u].cancel
             /\ S(u).stale = open.suggestion[u].stale \union moved(u)
  <2>1. open.suggestion[u] \in Suggestions
    BY DEF OpenRecord, ReviewInv, Typed
  <2>2. moved(u) \subseteq Fields
    BY <2>1, SuggestionIs, EditIs
  <2> HIDE DEF moved
  <2> QED
    BY <2>1, <2>2 DEF Suggestions
<1>3. [u \in Proposers |-> S(u)] \in [Proposers -> Suggestions]
  BY <1>2
<1>4. /\ n \in OpenRecord
      /\ n.creation = o.creation /\ n.removal = o.removal
      /\ n.proposal = o.proposal
      /\ n.suggestion = [u \in Proposers |-> S(u)]
  <2> HIDE DEF S
  <2> QED
    BY <1>1, <1>3 DEF OpenRecord
<1> QED
  BY <1>2, <1>4

\* Fields written directly: what waits on them is marked, the rest still
\* compares with what attendees see.
LEMMA LiveWritten ==
  ASSUME ReviewInv, NEW v \in [Fields -> Values], live' = v,
         NEW o \in OpenRecord, o.suggestion = open.suggestion,
         o.creation = open.creation, o.removal => open.removal,
         o.proposal = open.proposal,
         NEW e \in EventRecord, ~NewlyRemoved(e), event' = e,
         open' = Mirrored(MarkStale(o, v), e),
         late => late'
  PROVE  /\ open' \in OpenRecord /\ open'.proposal = open.proposal
         /\ ComparedWithLive' /\ NewIsQueued' /\ GoneIsSettled'
<1> PICK n : n = MarkStale(o, v)
  OBVIOUS
<1>1. /\ n \in OpenRecord
      /\ n.creation = o.creation /\ n.removal = o.removal
      /\ n.proposal = o.proposal
      /\ \A u \in Proposers :
           /\ n.suggestion[u].new = open.suggestion[u].new
           /\ n.suggestion[u].old = open.suggestion[u].old
           /\ n.suggestion[u].cancel = open.suggestion[u].cancel
           /\ n.suggestion[u].stale = open.suggestion[u].stale \union
                {f \in DOMAIN open.suggestion[u].new : v[f] # live[f]}
  BY MarkStaleIs
<1>2. n.creation <=> event.status = "new"
  BY <1>1 DEF ReviewInv, NewIsQueued
<1>3. /\ open' \in OpenRecord
      /\ open'.creation <=> e.status = "new"
      /\ open'.proposal = n.proposal
      /\ open'.removal = n.removal
      /\ open'.suggestion = n.suggestion
  BY <1>1, <1>2, MirroredIs
<1>4. ASSUME NEW u \in Proposers,
             NEW f \in (DOMAIN open'.suggestion[u].old) \ open'.suggestion[u].stale
      PROVE  open'.suggestion[u].old[f] = live'[f]
  <2>1. open.suggestion[u] \in Suggestions
    BY DEF OpenRecord, ReviewInv, Typed
  <2>2. /\ f \in DOMAIN open.suggestion[u].old /\ f \notin open.suggestion[u].stale
        /\ ~(f \in DOMAIN open.suggestion[u].new /\ v[f] # live[f])
    BY <1>1, <1>3
  <2>3. v[f] = live[f]
    BY <2>1, <2>2, SuggestionIs
  <2>4. open.suggestion[u].old[f] = live[f]
    BY <2>2 DEF ReviewInv, ComparedWithLive
  <2> QED
    BY <1>1, <1>3, <2>3, <2>4
<1>5. ComparedWithLive'
  BY <1>4 DEF ComparedWithLive
<1>6. NewIsQueued'
  BY <1>3 DEF NewIsQueued
<1>7. GoneIsSettled'
  <2>1. event'.status = "removed" => event.status = "removed"
    BY DEF NewlyRemoved
  <2>2. \A u \in Proposers : Pending(open'.suggestion[u]) => Pending(open.suggestion[u])
    BY <1>1, <1>3 DEF Pending
  <2> QED
    BY <1>1, <1>3, <2>1, <2>2 DEF GoneIsSettled, ReviewInv, Pending
<1> QED
  BY <1>1, <1>3, <1>5, <1>6, <1>7

-----------------------------------------------------------------------------
(* The calendar sync *)

LEMMA Unmoved ==
  ASSUME ReviewInv, Typed',
         UNCHANGED <<event, live, source, blocked, open, due, late>>
  PROVE  ReviewInv' /\ ProposalKept
BY DEF ReviewInv, DueWaits, Waits, ComparedWithLive, Agrees, LegacyStatus, NewIsQueued,
       GoneIsSettled, Gone, Pending, ProposalKept

LEMMA SyncReadsKeeps ==
  ASSUME ReviewInv, NEW new \in [Fields -> Values], SyncReads(new)
  PROVE  ReviewInv' /\ ProposalKept
<1>1. Typed'
  BY ConstantsAssumption DEF SyncReads, ReviewInv, Typed
<1> QED
  BY <1>1, Unmoved DEF SyncReads

LEMMA ChangesIs ==
  ASSUME open \in OpenRecord, live \in [Fields -> Values], NEW v \in [Fields -> Values]
  PROVE  /\ Changes(v) \in Edits
         /\ \A f \in Fields :
              f \in DOMAIN Changes(v) <=>
                /\ f \in Moved(v) \/ (f \in DOMAIN open.proposal /\ open.proposal[f] = v[f])
                /\ v[f] # live[f]
         /\ \A f \in DOMAIN Changes(v) : Changes(v)[f] = v[f]
<1> DEFINE stands == {f \in DOMAIN open.proposal : open.proposal[f] = v[f]}
           D == {g \in Moved(v) \union stands : v[g] # live[g]}
<1>1. Changes(v) = [f \in D |-> v[f]]
  BY DEF Changes
<1>2. D \subseteq Fields
  BY EditIs DEF Moved, OpenRecord
<1>3. [f \in D |-> v[f]] \in [D -> Values]
  BY <1>2
<1>4. Changes(v) \in Edits
  BY <1>1, <1>2, <1>3, IsEdit
<1>5. \A f \in Fields : f \in D <=>
        /\ f \in Moved(v) \/ (f \in DOMAIN open.proposal /\ open.proposal[f] = v[f])
        /\ v[f] # live[f]
  OBVIOUS
<1> HIDE DEF D
<1> QED
  BY <1>1, <1>4, <1>5

\* The event as the sync leaves it: no longer deleted at the source.
LEMMA Restored ==
  ASSUME event \in EventRecord, Agrees(event), Gone(event, blocked)
  PROVE  LET e == Flushed([event EXCEPT !.deleted = FALSE])
         IN  /\ e \in EventRecord /\ Agrees(e) /\ Gone(e, blocked) /\ ~NewlyRemoved(e)
             /\ e.status = "removed" => blocked
             /\ e.reviewed = event.reviewed
<1> DEFINE s == [event EXCEPT !.deleted = FALSE]
           e == Flushed(s)
<1>1. /\ s \in EventRecord /\ s.status = event.status /\ ~s.deleted
      /\ s.hidden = event.hidden /\ s.cancelled = event.cancelled
      /\ s.reviewed = event.reviewed
  BY DEF EventRecord
<1>2. LegacyStatus(s).status # "removed"
  BY <1>1 DEF LegacyStatus
<1>3. e \in EventRecord /\ Agrees(e) /\ LegacyColumns(e) = LegacyColumns(s)
  BY <1>1, FlushAgrees
<1>4. /\ e.hidden = event.hidden /\ ~e.deleted /\ e.reviewed = event.reviewed
  BY <1>1, <1>3 DEF LegacyColumns
<1>5. e.status \in {event.status, LegacyStatus(s).status}
  BY <1>1, FlushStatus
<1>6. ASSUME e.status = "removed"
      PROVE  event.hidden /\ blocked
  BY <1>3, <1>4, <1>2, <1>5, <1>6 DEF Agrees, Gone, LegacyStatus
<1> QED
  BY <1>2, <1>3, <1>4, <1>5, <1>6 DEF NewlyRemoved, Gone

LEMMA SnapshotIs ==
  ASSUME Typed, inFlight # NoPull
  PROVE  Snapshot(inFlight) \in [Fields -> Values]
<1>1. inFlight \in [Fields -> Values]
  BY DEF Typed
<1>2. live \in [Fields -> Values]
  BY DEF Typed
<1> QED
  BY <1>1, <1>2 DEF Snapshot

LEMMA ExtractorTyped ==
  ASSUME Typed, inFlight # NoPull,
         applied' = [f \in Extracted |-> IF live[f] = applied[f] THEN inFlight[f] ELSE applied[f]]
  PROVE  applied' \in [Extracted -> Values]
<1>1. inFlight \in [Fields -> Values] /\ applied \in [Extracted -> Values]
  BY DEF Typed
<1>2. Extracted \subseteq Fields
  BY ConstantsAssumption
<1> QED
  BY <1>1, <1>2

\* A reviewed event: what the source changed waits for an admin.
LEMMA StageKeeps ==
  ASSUME ReviewInv, SyncPersists, inFlight # pulled, event.reviewed
  PROVE  ReviewInv' /\ MovedOnly
<1> USE DEF ReviewInv
<1> PICK v : v = Snapshot(inFlight)
  OBVIOUS
<1> PICK p : p = StageSourceChanges(v)
  OBVIOUS
<1> PICK ch : ch = Changes(v)
  OBVIOUS
<1> PICK e : e = Flushed([event EXCEPT !.deleted = FALSE])
  OBVIOUS
<1> PICK o : o = [[open EXCEPT !.removal = FALSE] EXCEPT !.proposal = p]
  OBVIOUS
<1>1. /\ inFlight # NoPull /\ inFlight' = NoPull
      /\ pulled' = inFlight /\ source' = v /\ event' = e
      /\ applied' = [f \in Extracted |-> IF live[f] = applied[f]
                                           THEN inFlight[f] ELSE applied[f]]
      /\ late' = (late \/ blocked)
      /\ open' = Mirrored(o, e)
      /\ due' = [f \in Fields |-> IF Moved(v) = {} THEN due[f]
                                  ELSE /\ due[f] \/ f \in Moved(v)
                                       /\ v[f] # live[f]
                                       /\ ~(ch \in rejected /\ f \in DOMAIN ch)]
      /\ UNCHANGED <<live, blocked, rejected, accepted, pulls, writes>>
  BY DEF SyncPersists
<1>2. v \in [Fields -> Values]
  BY <1>1, SnapshotIs
<1>3. /\ ch \in Edits
      /\ \A f \in Fields :
           f \in DOMAIN ch <=>
             /\ f \in Moved(v) \/ (f \in DOMAIN open.proposal /\ open.proposal[f] = v[f])
             /\ v[f] # live[f]
      /\ \A f \in DOMAIN ch : ch[f] = v[f]
  BY <1>2, ChangesIs DEF Typed
<1>4. /\ p \in {open.proposal, ch}
      /\ Moved(v) = {} => p = open.proposal
      /\ Moved(v) # {} /\ ch \notin rejected => p = ch
  <2>1. ch \in rejected => ch # NoEdit
    BY DEF Typed
  <2> QED
    BY <2>1 DEF StageSourceChanges
<1>5. o \in OpenRecord /\ o.creation = open.creation /\ ~o.removal
      /\ o.proposal = p /\ o.suggestion = open.suggestion
  BY <1>3, <1>4 DEF Typed, OpenRecord
<1>6. /\ e \in EventRecord /\ Agrees(e) /\ Gone(e, blocked) /\ ~NewlyRemoved(e)
      /\ e.status = "removed" => blocked
  BY Restored DEF Typed
<1>7. /\ open' \in OpenRecord
      /\ open'.creation <=> e.status = "new"
      /\ open'.proposal = p
      /\ ~open'.removal
      /\ open'.suggestion = open.suggestion
  BY <1>1, <1>5, <1>6, MirroredIs DEF NewIsQueued
<1>8. Typed'
  <2>1. applied' \in [Extracted -> Values]
    BY <1>1, ExtractorTyped
  <2>2. inFlight \in [Fields -> Values]
    BY <1>1 DEF Typed
  <2> QED
    BY <1>1, <1>2, <1>6, <1>7, <2>1, <2>2 DEF Typed
<1>9. ASSUME NEW f \in Fields, due'[f]
      PROVE  Waits(f)'
  <2>1. CASE Moved(v) = {}
    <3>1. due[f] /\ source[f] = v[f]
      BY <1>1, <1>9, <2>1 DEF Moved
    <3>2. f \in DOMAIN open.proposal /\ open.proposal[f] = source[f]
      BY <3>1 DEF DueWaits, Waits
    <3> QED
      BY <1>1, <1>4, <1>7, <2>1, <3>1, <3>2 DEF Waits
  <2>2. CASE Moved(v) # {}
    <3>1. /\ due[f] \/ f \in Moved(v)
          /\ v[f] # live[f]
          /\ ~(ch \in rejected /\ f \in DOMAIN ch)
      BY <1>1, <1>9, <2>2
    <3>2. f \in DOMAIN ch
      <4>1. CASE f \in Moved(v)
        BY <1>3, <3>1, <4>1
      <4>2. CASE f \notin Moved(v)
        <5>1. due[f] /\ source[f] = v[f]
          BY <3>1, <4>2 DEF Moved
        <5>2. f \in DOMAIN open.proposal /\ open.proposal[f] = source[f]
          BY <5>1 DEF DueWaits, Waits
        <5> QED
          BY <1>3, <3>1, <5>1, <5>2
      <4> QED
        BY <4>1, <4>2
    <3>3. p = ch
      BY <1>4, <2>2, <3>1, <3>2
    <3> QED
      BY <1>1, <1>3, <1>7, <3>2, <3>3 DEF Waits
  <2> QED
    BY <2>1, <2>2
<1>10. ComparedWithLive'
  BY <1>1, <1>7 DEF ComparedWithLive
<1>11. NewIsQueued' /\ GoneIsSettled'
  <2>1. e.status = "removed" => event.status = "removed"
    BY <1>6 DEF NewlyRemoved
  <2> QED
    BY <1>1, <1>6, <1>7, <2>1 DEF NewIsQueued, GoneIsSettled, Pending
<1>12. Agrees(event)' /\ Gone(event, blocked)'
  BY <1>1, <1>6 DEF Agrees, Gone, LegacyStatus
<1>13. MovedOnly
  <2> SUFFICES ASSUME NEW f \in Copied, f \in DOMAIN open'.proposal,
                      ~(f \in DOMAIN open.proposal /\ open.proposal[f] = open'.proposal[f])
               PROVE  source'[f] # source[f]
    BY DEF MovedOnly
  <2>1. p = ch /\ f \in DOMAIN ch /\ f \in Fields
    BY <1>4, <1>7 DEF Copied
  <2>2. f \in Moved(v)
    BY <1>3, <1>7, <2>1
  <2> QED
    BY <1>1, <2>2 DEF Moved
<1> QED
  BY <1>8, <1>9, <1>10, <1>11, <1>12, <1>13 DEF DueWaits

\* An event nobody reviewed takes the values of the source.
LEMMA DirectKeeps ==
  ASSUME ReviewInv, SyncPersists, inFlight # pulled, ~event.reviewed
  PROVE  ReviewInv' /\ ProposalKept
<1> USE DEF ReviewInv
<1> PICK v : v = Snapshot(inFlight)
  OBVIOUS
<1> PICK e : e = Flushed([event EXCEPT !.deleted = FALSE])
  OBVIOUS
<1> PICK o : o = [open EXCEPT !.removal = FALSE]
  OBVIOUS
<1>1. /\ inFlight # NoPull /\ inFlight' = NoPull
      /\ pulled' = inFlight /\ source' = v /\ event' = e
      /\ applied' = [f \in Extracted |-> IF live[f] = applied[f]
                                           THEN inFlight[f] ELSE applied[f]]
      /\ late' = (late \/ blocked)
      /\ live' = v
      /\ open' = Mirrored(MarkStale(o, v), e)
      /\ due' = [f \in Fields |-> due[f] /\ f \notin Moved(v)]
      /\ UNCHANGED <<blocked, rejected, accepted, pulls, writes>>
  BY DEF SyncPersists
<1>2. v \in [Fields -> Values]
  BY <1>1, SnapshotIs
<1>3. o \in OpenRecord /\ o.creation = open.creation /\ ~o.removal
      /\ o.proposal = open.proposal /\ o.suggestion = open.suggestion
  BY DEF Typed, OpenRecord
<1>4. /\ e \in EventRecord /\ Agrees(e) /\ Gone(e, blocked) /\ ~NewlyRemoved(e)
  BY Restored DEF Typed
<1>5. /\ open' \in OpenRecord /\ open'.proposal = open.proposal
      /\ ComparedWithLive' /\ NewIsQueued' /\ GoneIsSettled'
  BY <1>1, <1>2, <1>3, <1>4, LiveWritten
<1>6. Typed'
  <2>1. applied' \in [Extracted -> Values]
    BY <1>1, ExtractorTyped
  <2>2. inFlight \in [Fields -> Values]
    BY <1>1 DEF Typed
  <2> QED
    BY <1>1, <1>2, <1>4, <1>5, <2>1, <2>2 DEF Typed
<1>7. ASSUME NEW f \in Fields, due'[f]
      PROVE  Waits(f)'
  <2>1. due[f] /\ v[f] = source[f]
    BY <1>1, <1>7 DEF Moved
  <2> QED
    BY <1>1, <1>5, <2>1 DEF DueWaits, Waits
<1>8. Agrees(event)' /\ Gone(event, blocked)'
  BY <1>1, <1>4 DEF Agrees, Gone, LegacyStatus
<1>9. ProposalKept
  BY <1>5 DEF ProposalKept
<1> QED
  BY <1>5, <1>6, <1>7, <1>8, <1>9 DEF DueWaits

LEMMA SyncPersistsKeeps ==
  ASSUME ReviewInv, SyncPersists
  PROVE  ReviewInv' /\ MovedOnly
<1>1. CASE inFlight # pulled /\ event.reviewed
  BY <1>1, StageKeeps
<1>2. CASE inFlight # pulled /\ ~event.reviewed
  BY <1>2, DirectKeeps DEF ProposalKept, MovedOnly
<1>3. CASE inFlight = pulled
  <2>1. UNCHANGED <<event, live, source, pulled, applied, open, due, late, blocked,
                    rejected, accepted, pulls, writes>>
        /\ inFlight' = NoPull
    BY <1>3 DEF SyncPersists
  <2>2. Typed'
    BY <2>1 DEF ReviewInv, Typed
  <2> QED
    BY <2>1, <2>2, Unmoved DEF ProposalKept, MovedOnly
<1> QED
  BY <1>1, <1>2, <1>3

LEMMA SyncRemovalKeeps ==
  ASSUME ReviewInv, SyncRemoval
  PROVE  ReviewInv' /\ ProposalKept
<1> USE DEF ReviewInv
<1>1. CASE ~Listed(event)
  <2> PICK e : e = Flushed(SetEventStatus(event, "removed", "google_calendar"))
    OBVIOUS
  <2>1. /\ event' = e /\ open' = Mirrored(open, e)
        /\ due' = [f \in Fields |-> FALSE]
        /\ UNCHANGED <<live, source, pulled, applied, blocked, rejected, accepted,
                       inFlight, late, writes>>
        /\ pulls < MaxPulls /\ pulls' = pulls + 1
    BY <1>1 DEF SyncRemoval
  <2>2. /\ e \in EventRecord /\ Agrees(e)
        /\ e = SetEventStatus(event, "removed", "google_calendar")
    <3>1. "removed" \in Statuses /\ "google_calendar" \in Reasons
      BY DEF Statuses, Reasons
    <3>2. event \in EventRecord /\ Agrees(event)
      BY DEF Typed
    <3> QED
      BY <3>1, <3>2, EventSet
  <2>3. e.deleted /\ ~e.hidden /\ e.reason = "google_calendar"
    <3>1. "removed" \in Statuses /\ "google_calendar" \in Reasons
      BY DEF Statuses, Reasons
    <3>2. event \in EventRecord
      BY DEF Typed
    <3> QED
      <4>1. /\ SetEventStatus(event, "removed", "google_calendar").reason = "google_calendar"
            /\ SetEventStatus(event, "removed", "google_calendar").deleted
            /\ ~SetEventStatus(event, "removed", "google_calendar").hidden
        BY <3>1, <3>2, StatusSet
      <4> QED
        BY <2>2, <4>1
  <2>4. Gone(e, blocked')
    BY <2>3 DEF Gone
  <2>5. pulls' \in 0 .. MaxPulls /\ writes' \in 0 .. MaxWrites /\ blocked' \in BOOLEAN
    BY <2>1, ConstantsAssumption DEF Typed
  <2>6. due' \in [Fields -> BOOLEAN] /\ \A f \in Fields : due'[f] => due[f] /\ ~NewlyRemoved(e)
    BY <2>1
  <2> QED
    BY <2>1, <2>2, <2>4, <2>5, <2>6, StatusKeeps
<1>2. CASE Listed(event)
  <2>1. /\ UNCHANGED <<event, due, live, source, pulled, applied, blocked, rejected,
                       accepted, inFlight, late, writes>>
        /\ pulls < MaxPulls /\ pulls' = pulls + 1
        /\ EventStatus(event) # "removed"
    BY <1>2 DEF SyncRemoval
  <2> PICK b \in BOOLEAN : open' = [open EXCEPT !.removal = b]
    BY <1>2 DEF SyncRemoval, Typed, OpenRecord
  <2>2. /\ open' \in OpenRecord /\ open'.creation = open.creation
        /\ open'.proposal = open.proposal /\ open'.suggestion = open.suggestion
    BY DEF Typed, OpenRecord
  <2>3. Typed'
    BY <2>1, <2>2, ConstantsAssumption DEF Typed
  <2>4. event.status # "removed"
    BY <2>1 DEF EventStatus
  <2>5. DueWaits' /\ ComparedWithLive' /\ NewIsQueued'
    BY <2>1, <2>2 DEF DueWaits, Waits, ComparedWithLive, NewIsQueued
  <2>6. GoneIsSettled' /\ Agrees(event)' /\ Gone(event, blocked)'
    BY <2>1, <2>4 DEF GoneIsSettled, Agrees, Gone, LegacyStatus
  <2>7. ProposalKept
    BY <2>2 DEF ProposalKept
  <2> QED
    BY <2>3, <2>5, <2>6, <2>7
<1> QED
  BY <1>1, <1>2

-----------------------------------------------------------------------------
(* Decisions *)

LEMMA SuggestionClosed ==
  ASSUME ReviewInv, NEW u \in Proposers
  PROVE  LET o == [open EXCEPT !.suggestion[u] = NoSuggestion]
         IN  /\ o \in OpenRecord /\ o.creation = open.creation
             /\ o.removal = open.removal /\ o.proposal = open.proposal
             /\ \A w \in Proposers : o.suggestion[w] \in {open.suggestion[w], NoSuggestion}
BY NoSuggestionIs DEF ReviewInv, Typed, OpenRecord

LEMMA ApplySourceChangeKeeps ==
  ASSUME ReviewInv, ApplySourceChange
  PROVE  ReviewInv' /\ ProposalKept
<1> PICK r : r = Revision(open.proposal, "none", "none")
  OBVIOUS
<1> PICK o : o = [open EXCEPT !.proposal = NoEdit]
  OBVIOUS
<1> PICK was : was = blocked
  OBVIOUS
<1>1. ApplyChanges(r, o, was) /\ UNCHANGED <<rejected, accepted, writes>>
  BY DEF ApplySourceChange
<1>2. r.new = open.proposal /\ StatusOf(r) /\ r.new \in Edits
  BY DEF Revision, StatusOf, Reasons, ReviewInv, Typed, OpenRecord
<1>3. Rest(o, r)
  BY <1>2, NoEditIs DEF Rest, ReviewInv, Typed, OpenRecord
<1> QED
  BY <1>1, <1>2, <1>3, ApplyKeeps DEF ReviewInv, Typed

LEMMA ApplySourceRemovalKeeps ==
  ASSUME ReviewInv, NEW as \in {"removed", "cancel"}, ApplySourceRemoval(as)
  PROVE  ReviewInv' /\ ProposalKept
<1> PICK r : r = Revision(NoEdit, as, "google_calendar")
  OBVIOUS
<1> PICK o : o = [open EXCEPT !.removal = FALSE]
  OBVIOUS
<1> PICK was : was = blocked
  OBVIOUS
<1>1. ApplyChanges(r, o, was) /\ UNCHANGED <<rejected, accepted, writes>>
  BY DEF ApplySourceRemoval
<1>2. StatusOf(r) /\ r.new \in Edits
  BY NoEditIs DEF Revision, StatusOf, Reasons
<1>3. Rest(o, r)
  BY DEF Rest, ReviewInv, Typed, OpenRecord
<1> QED
  BY <1>1, <1>2, <1>3, ApplyKeeps DEF ReviewInv, Typed

LEMMA ApplySuggestionKeeps ==
  ASSUME ReviewInv, NEW u \in Proposers,
         NEW as \in {"none", "cancel", "restore", "removed"}, ApplySuggestion(u, as)
  PROVE  ReviewInv' /\ ProposalKept
<1> PICK s : s = open.suggestion[u]
  OBVIOUS
<1> PICK r : r = Revision(s.new, as, "admin")
  OBVIOUS
<1> PICK o : o = [open EXCEPT !.suggestion[u] = NoSuggestion]
  OBVIOUS
<1> PICK was : was = blocked
  OBVIOUS
<1>1. /\ ApplyChanges(r, o, was) /\ UNCHANGED <<rejected, writes>>
      /\ accepted' = accepted \union {[new |-> s.new, old |-> s.old, status |-> as]}
  BY DEF ApplySuggestion
<1>2. s \in Suggestions
  BY DEF ReviewInv, Typed, OpenRecord
<1>3. StatusOf(r) /\ r.new \in Edits
  BY <1>2, SuggestionIs DEF Revision, StatusOf, Reasons
<1>4. Rest(o, r)
  BY SuggestionClosed DEF Rest
<1>5. [new |-> s.new, old |-> s.old, status |-> as] \in Decided
  BY <1>2, SuggestionIs DEF Decided
<1> QED
  BY <1>1, <1>3, <1>4, <1>5, ApplyKeeps DEF ReviewInv, Typed

LEMMA RevertRevisionKeeps ==
  ASSUME ReviewInv, NEW a \in accepted, RevertRevision(a)
  PROVE  ReviewInv' /\ ProposalKept
<1> PICK r : r = RevertChanges(a)
  OBVIOUS
<1> PICK o : o = open
  OBVIOUS
<1> PICK was : was = blocked
  OBVIOUS
<1>1. /\ ApplyChanges(r, o, was) /\ UNCHANGED <<rejected, writes>>
      /\ accepted' = accepted \ {a}
  BY DEF RevertRevision
<1>2. a \in Decided
  BY DEF ReviewInv, Typed
<1>3. r.new \in Edits
  <2> DEFINE same == {f \in DOMAIN a.new : live[f] = a.new[f]}
  <2>1. same \subseteq Fields /\ \A f \in same : a.old[f] \in Values
    BY <1>2, EditIs DEF Decided
  <2>2. r.new = [f \in same |-> a.old[f]]
    BY DEF RevertChanges, Revision
  <2> QED
    BY <2>1, <2>2, IsEdit
<1>4. StatusOf(r)
  BY DEF RevertChanges, Revision, StatusOf, Reasons
<1>5. Rest(o, r)
  BY DEF Rest, ReviewInv, Typed
<1> QED
  BY <1>1, <1>3, <1>4, <1>5, ApplyKeeps DEF ReviewInv, Typed

\* A decision that only closes what waits, or a draft that is written.
LEMMA OpenKeeps ==
  ASSUME ReviewInv, Typed', open'.creation = open.creation,
         open'.removal => open.removal,
         open'.proposal = open.proposal \/ open'.proposal = NoEdit,
         open'.suggestion = open.suggestion \/
           \E u \in Proposers : open'.suggestion = [open.suggestion EXCEPT ![u] = NoSuggestion],
         \A f \in Fields : due'[f] => due[f] /\ f \in DOMAIN open'.proposal,
         UNCHANGED <<event, live, source, blocked, late>>
  PROVE  ReviewInv' /\ ProposalKept
<1> USE DEF ReviewInv
<1>1. open \in OpenRecord
  BY DEF Typed
<1>2. \A w \in Proposers : open'.suggestion[w] \in {open.suggestion[w], NoSuggestion}
  BY <1>1 DEF OpenRecord
<1>3. DueWaits'
  BY NoEditIs DEF DueWaits, Waits
<1>4. ComparedWithLive'
  BY <1>2, NoSuggestionIs DEF ComparedWithLive
<1>5. NewIsQueued' /\ Agrees(event)' /\ Gone(event, blocked)'
  BY DEF NewIsQueued, Agrees, Gone, LegacyStatus
<1>6. GoneIsSettled'
  BY <1>2, NoSuggestionIs DEF GoneIsSettled, Pending
<1>7. ProposalKept
  BY NoEditIs DEF ProposalKept
<1> QED
  BY <1>3, <1>4, <1>5, <1>6, <1>7

LEMMA DraftIs ==
  ASSUME Typed, NEW d \in Edits, open' = [open EXCEPT !.draft = d]
  PROVE  /\ open' \in OpenRecord /\ open'.creation = open.creation
         /\ open'.removal = open.removal /\ open'.proposal = open.proposal
         /\ open'.suggestion = open.suggestion
BY DEF Typed, OpenRecord

LEMMA DueInProposal ==
  ASSUME ReviewInv, NEW f \in Fields, due[f]
  PROVE  f \in DOMAIN open.proposal
BY DEF ReviewInv, DueWaits, Waits

LEMMA DiscardsKeep ==
  ASSUME ReviewInv,
         \/ DiscardSourceChange \/ DiscardSourceRemoval \/ DiscardEventDraft
         \/ \E u \in Proposers : DiscardSuggestion(u)
  PROVE  ReviewInv' /\ ProposalKept
<1>1. open \in OpenRecord /\ Typed
  BY DEF ReviewInv, Typed
<1>2. CASE DiscardSourceChange
  <2>1. /\ open' = [open EXCEPT !.proposal = NoEdit]
        /\ rejected' = rejected \union {open.proposal} /\ open.proposal # NoEdit
        /\ due' = [f \in Fields |-> due[f] /\ f \notin DOMAIN open.proposal]
        /\ UNCHANGED <<event, live, source, pulled, applied, blocked, accepted,
                       inFlight, late, pulls, writes>>
    BY <1>2 DEF DiscardSourceChange, Discard
  <2>2. /\ open' \in OpenRecord /\ open'.creation = open.creation
        /\ open'.removal = open.removal /\ open'.proposal = NoEdit
        /\ open'.suggestion = open.suggestion
    BY <1>1, <2>1, NoEditIs DEF OpenRecord
  <2>3. open.proposal \in Edits
    BY <1>1 DEF OpenRecord
  <2>4. due' \in [Fields -> BOOLEAN]
    BY <2>1
  <2>5. Typed'
    BY <1>1, <2>1, <2>2, <2>3, <2>4 DEF Typed
  <2>6. \A f \in Fields : ~due'[f]
    BY <2>1, DueInProposal
  <2> QED
    BY <2>1, <2>2, <2>5, <2>6, OpenKeeps
<1>3. CASE DiscardSourceRemoval
  <2>1. /\ open' = [open EXCEPT !.removal = FALSE]
        /\ UNCHANGED <<event, live, source, pulled, applied, blocked, accepted,
                       inFlight, late, pulls, writes, rejected, due>>
    BY <1>3 DEF DiscardSourceRemoval, Discard
  <2>2. /\ open' \in OpenRecord /\ open'.creation = open.creation
        /\ ~open'.removal /\ open'.proposal = open.proposal
        /\ open'.suggestion = open.suggestion
    BY <1>1, <2>1 DEF OpenRecord
  <2>3. Typed'
    BY <1>1, <2>1, <2>2 DEF Typed
  <2> QED
    BY <2>1, <2>2, <2>3, OpenKeeps, DueInProposal
<1>4. CASE DiscardEventDraft
  <2>1. /\ open' = [open EXCEPT !.draft = NoEdit]
        /\ UNCHANGED <<event, live, source, pulled, applied, blocked, accepted,
                       inFlight, late, pulls, writes, rejected, due>>
    BY <1>4 DEF DiscardEventDraft, Discard
  <2>2. /\ open' \in OpenRecord /\ open'.creation = open.creation
        /\ open'.removal = open.removal /\ open'.proposal = open.proposal
        /\ open'.suggestion = open.suggestion
    BY <1>1, <2>1, NoEditIs, DraftIs
  <2>3. Typed'
    BY <1>1, <2>1, <2>2 DEF Typed
  <2> QED
    BY <2>1, <2>2, <2>3, OpenKeeps, DueInProposal
<1>5. ASSUME NEW u \in Proposers, DiscardSuggestion(u)
      PROVE  ReviewInv' /\ ProposalKept
  <2>1. /\ open' = [open EXCEPT !.suggestion[u] = NoSuggestion]
        /\ UNCHANGED <<event, live, source, pulled, applied, blocked, accepted,
                       inFlight, late, pulls, writes, rejected, due>>
    BY <1>5 DEF DiscardSuggestion, Discard
  <2>2. /\ open' \in OpenRecord /\ open'.creation = open.creation
        /\ open'.removal = open.removal /\ open'.proposal = open.proposal
    BY <2>1, SuggestionClosed
  <2>3. open'.suggestion = [open.suggestion EXCEPT ![u] = NoSuggestion]
    BY <1>1, <2>1 DEF OpenRecord
  <2>4. Typed'
    BY <1>1, <2>1, <2>2 DEF Typed
  <2> QED
    BY <2>1, <2>2, <2>3, <2>4, OpenKeeps, DueInProposal
<1> QED
  BY <1>2, <1>3, <1>4, <1>5

LEMMA PublishEventDraftKeeps ==
  ASSUME ReviewInv, PublishEventDraft
  PROVE  ReviewInv' /\ ProposalKept
<1> PICK r : r = Revision(open.draft, "none", "none")
  OBVIOUS
<1> PICK o : o = [open EXCEPT !.draft = NoEdit]
  OBVIOUS
<1> PICK was : was = blocked
  OBVIOUS
<1>1. ApplyChanges(r, o, was) /\ UNCHANGED <<rejected, accepted, writes>>
  BY DEF PublishEventDraft
<1>2. StatusOf(r) /\ r.new \in Edits
  BY DEF Revision, StatusOf, Reasons, ReviewInv, Typed, OpenRecord
<1>3. Rest(o, r)
  BY NoEditIs DEF Rest, ReviewInv, Typed, OpenRecord
<1> QED
  BY <1>1, <1>2, <1>3, ApplyKeeps DEF ReviewInv, Typed

LEMMA DecideCreationKeeps ==
  ASSUME ReviewInv, NEW accept \in BOOLEAN, DecideCreation(accept)
  PROVE  ReviewInv' /\ ProposalKept
<1> PICK was : was = blocked
  OBVIOUS
<1>1. was \in BOOLEAN /\ writes' \in 0 .. MaxWrites
  BY DEF ReviewInv, Typed, DecideCreation
<1>2. CASE accept
  BY <1>1, <1>2, WriteKeeps DEF DecideCreation, Statuses, Reasons
<1>3. CASE ~accept
  BY <1>1, <1>3, WriteKeeps DEF DecideCreation, Statuses, Reasons
<1> QED
  BY <1>2, <1>3

LEMMA DecideKeeps == ReviewInv /\ Decide => ReviewInv' /\ ProposalKept
BY ApplySourceChangeKeeps, ApplySourceRemovalKeeps, ApplySuggestionKeeps, RevertRevisionKeeps,
   DiscardsKeep, PublishEventDraftKeeps, DecideCreationKeeps DEF Decide

-----------------------------------------------------------------------------
(* What people write *)

LEMMA Written ==
  ASSUME ReviewInv, Write
  PROVE  writes' \in 0 .. MaxWrites
BY ConstantsAssumption DEF Write, ReviewInv, Typed

LEMMA ProposeKeeps ==
  ASSUME ReviewInv, NEW u \in Proposers, NEW new \in Requests,
         NEW cancel \in {"none", "cancel", "restore"}, ProposeEventChange(u, new, cancel)
  PROVE  ReviewInv' /\ ProposalKept
<1> USE DEF ReviewInv
<1> PICK changed : changed = {f \in DOMAIN new : new[f] # live[f]}
  OBVIOUS
<1> PICK c : c = IF (cancel = "cancel") = event.cancelled THEN "none" ELSE cancel
  OBVIOUS
<1> PICK s : s = [new    |-> [f \in changed |-> new[f]],
                  old    |-> [f \in changed |-> live[f]],
                  cancel |-> c,
                  stale  |-> {}]
  OBVIOUS
<1>1. /\ Write /\ ~event.deleted /\ ~event.hidden /\ ~blocked
      /\ open' = [open EXCEPT !.suggestion[u] = s]
      /\ UNCHANGED <<event, live, source, pulled, applied, blocked, rejected,
                     accepted, inFlight, due, late, pulls>>
  BY DEF ProposeEventChange
<1>2. changed \subseteq Fields /\ \A f \in changed : new[f] \in Values
  BY EditIs DEF Requests
<1>3. s \in Suggestions
  <2>1. [f \in changed |-> new[f]] \in Edits
    BY <1>2, IsEdit
  <2>2. [f \in changed |-> live[f]] \in Edits
    <3>1. [f \in changed |-> live[f]] \in [changed -> Values]
      BY <1>2 DEF Typed
    <3> QED
      BY <1>2, <3>1, IsEdit
  <2>3. c \in {"none", "cancel", "restore"}
    OBVIOUS
  <2> QED
    BY <2>1, <2>2, <2>3 DEF Suggestions
<1>4. /\ open' \in OpenRecord /\ open'.creation = open.creation
      /\ open'.proposal = open.proposal
      /\ open'.suggestion = [open.suggestion EXCEPT ![u] = s]
  BY <1>1, <1>3 DEF Typed, OpenRecord
<1>5. Typed'
  BY <1>1, <1>4, Written DEF Typed
<1>6. ComparedWithLive'
  <2> SUFFICES ASSUME NEW w \in Proposers,
                      NEW f \in (DOMAIN open'.suggestion[w].old) \ open'.suggestion[w].stale
               PROVE  open'.suggestion[w].old[f] = live'[f]
    BY DEF ComparedWithLive
  <2>1. CASE w = u
    <3>1. open'.suggestion[w] = s
      BY <1>4, <2>1 DEF Typed, OpenRecord
    <3> QED
      BY <1>1, <3>1
  <2>2. CASE w # u
    <3>1. open'.suggestion[w] = open.suggestion[w]
      BY <1>4, <2>2 DEF Typed, OpenRecord
    <3> QED
      BY <1>1, <3>1 DEF ComparedWithLive
  <2> QED
    BY <2>1, <2>2
<1>7. GoneIsSettled'
  <2>1. event.status # "removed"
    BY <1>1 DEF Gone
  <2> QED
    BY <1>1, <2>1 DEF GoneIsSettled
<1>8. DueWaits' /\ NewIsQueued' /\ Agrees(event)' /\ Gone(event, blocked)'
  BY <1>1, <1>4 DEF DueWaits, Waits, NewIsQueued, Agrees, Gone, LegacyStatus
<1>9. ProposalKept
  BY <1>4 DEF ProposalKept
<1> QED
  BY <1>5, <1>6, <1>7, <1>8, <1>9

LEMMA DraftKeeps ==
  ASSUME ReviewInv, NEW new \in Requests, UpdateEventDraft(new)
  PROVE  ReviewInv' /\ ProposalKept
<1> PICK kept : kept = Without(open.draft, DOMAIN new)
  OBVIOUS
<1> PICK changed : changed = {f \in DOMAIN new : new[f] # live[f]}
  OBVIOUS
<1> DEFINE d == [f \in (DOMAIN kept) \union changed |-> IF f \in changed THEN new[f] ELSE kept[f]]
<1>1. /\ Write /\ open' = [open EXCEPT !.draft = d]
      /\ UNCHANGED <<event, live, source, pulled, applied, blocked, rejected,
                     accepted, inFlight, due, late, pulls>>
  BY DEF UpdateEventDraft
<1>2. d \in Edits
  <2>1. changed \subseteq Fields /\ \A f \in changed : new[f] \in Values
    BY EditIs DEF Requests
  <2>2. kept \in Edits
    BY WithoutIs DEF ReviewInv, Typed, OpenRecord
  <2>3. (DOMAIN kept) \subseteq Fields /\ \A f \in DOMAIN kept : kept[f] \in Values
    BY <2>2, EditIs
  <2> QED
    BY <2>1, <2>3, IsEdit
<1> HIDE DEF d
<1>3. /\ open' \in OpenRecord /\ open'.creation = open.creation
      /\ open'.removal = open.removal /\ open'.proposal = open.proposal
      /\ open'.suggestion = open.suggestion
  <2> PICK x : x = d
    OBVIOUS
  <2> QED
    BY <1>1, <1>2, DraftIs DEF ReviewInv
<1>4. Typed'
  BY <1>1, <1>3, Written DEF ReviewInv, Typed
<1> QED
  BY <1>1, <1>3, <1>4, OpenKeeps, DueInProposal

LEMMA UpdateKeeps ==
  ASSUME ReviewInv, NEW new \in Requests,
         NEW s \in {"none", "new", "published", "unpublished"}, UpdateEvent(new, s)
  PROVE  ReviewInv' /\ ProposalKept
<1> USE DEF ReviewInv
<1> PICK change : change = (s # "none" /\ s # EventStatus(event))
  OBVIOUS
<1> PICK e : e = Flushed(IF change THEN SetEventStatus(event, s, "none") ELSE event)
  OBVIOUS
<1> PICK v : v = Overlay(new)
  OBVIOUS
<1> PICK o : o = open
  OBVIOUS
<1>1. /\ Write /\ live' = v /\ event' = e
      /\ open' = Mirrored(MarkStale(o, v), e)
      /\ UNCHANGED <<source, pulled, applied, blocked, rejected, accepted,
                     inFlight, due, late, pulls>>
  BY DEF UpdateEvent
<1>2. v \in [Fields -> Values]
  BY OverlayIs DEF Requests, Typed
<1>3. e \in EventRecord /\ Agrees(e) /\ Gone(e, blocked) /\ ~NewlyRemoved(e)
  <2>1. CASE change
    <3>1. s \in Statuses /\ s # "removed" /\ "none" \in Reasons
      BY <2>1 DEF Statuses, Reasons
    <3>2. e = Flushed(SetEventStatus(event, s, "none"))
      BY <2>1
    <3>3. event \in EventRecord /\ Agrees(event)
      BY DEF Typed
    <3>4. e \in EventRecord /\ Agrees(e) /\ e.status # "removed"
      BY <3>1, <3>2, <3>3, EventSet
    <3> QED
      BY <3>4 DEF Gone, NewlyRemoved
  <2>2. CASE ~change
    <3>1. e = event
      BY <2>2, FlushStatus DEF Typed
    <3> QED
      BY <3>1 DEF NewlyRemoved, Typed
  <2> QED
    BY <2>1, <2>2
<1>4. o \in OpenRecord
  BY DEF Typed
<1>5. /\ open' \in OpenRecord /\ open'.proposal = open.proposal
      /\ ComparedWithLive' /\ NewIsQueued' /\ GoneIsSettled'
  BY <1>1, <1>2, <1>3, <1>4, LiveWritten
<1>6. Typed'
  BY <1>1, <1>2, <1>3, <1>5, Written DEF Typed
<1>7. DueWaits' /\ Agrees(event)' /\ Gone(event, blocked)'
  BY <1>1, <1>3, <1>5 DEF DueWaits, Waits, Agrees, Gone, LegacyStatus
<1>8. ProposalKept
  BY <1>5 DEF ProposalKept
<1> QED
  BY <1>5, <1>6, <1>7, <1>8

LEMMA AdminApplies ==
  ASSUME ReviewInv, NEW x \in {"cancel", "restore", "removed", "new"},
         NEW why \in {"none", "admin"},
         NEW was \in BOOLEAN, was = blocked \/ x = "new",
         ApplyChanges(Revision(NoEdit, x, why), open, was),
         UNCHANGED <<rejected, accepted>>, writes' \in 0 .. MaxWrites
  PROVE  ReviewInv' /\ ProposalKept
<1> PICK r : r = Revision(NoEdit, x, why)
  OBVIOUS
<1> PICK o : o = open
  OBVIOUS
<1>1. StatusOf(r) /\ r.new \in Edits /\ r.status = x
  BY NoEditIs DEF Revision, StatusOf, Reasons
<1>2. Rest(o, r)
  BY DEF Rest, ReviewInv, Typed
<1>3. ApplyChanges(r, o, was)
  OBVIOUS
<1> QED
  BY <1>1, <1>2, <1>3, ApplyKeeps DEF ReviewInv, Typed

LEMMA SetAdminKeeps ==
  ASSUME ReviewInv, NEW s \in {"published", "cancelled", "removed"}, SetAdminEventStatus(s)
  PROVE  ReviewInv' /\ ProposalKept
<1> PICK now : now = blocked
  OBVIOUS
<1>1. now \in BOOLEAN /\ UNCHANGED <<rejected, accepted>> /\ writes' \in 0 .. MaxWrites
  BY Written DEF SetAdminEventStatus, ReviewInv, Typed
<1>2. \/ ApplyChanges(Revision(NoEdit, "cancel", "none"), open, now)
      \/ ApplyChanges(Revision(NoEdit, "removed", "admin"), open, now)
      \/ ApplyChanges(Revision(NoEdit, "restore", "none"), open, now)
      \/ ApplyChanges(Revision(NoEdit, "new", "none"), open, FALSE)
  BY DEF SetAdminEventStatus
<1> QED
  BY <1>1, <1>2, AdminApplies

LEMMA StatusWritesKeep ==
  ASSUME ReviewInv, ReviewEvent \/ BlockEvent \/ UnblockEvent
  PROVE  ReviewInv' /\ ProposalKept
<1> PICK now : now = blocked
  OBVIOUS
<1>1. now \in BOOLEAN
  BY DEF ReviewInv, Typed
<1>2. CASE ReviewEvent
  BY <1>1, <1>2, Written, WriteKeeps DEF ReviewEvent, Statuses, Reasons
<1>3. CASE BlockEvent
  BY <1>3, Written, WriteKeeps DEF BlockEvent, Statuses, Reasons
<1>4. CASE UnblockEvent
  BY <1>4, Written, WriteKeeps DEF UnblockEvent, Statuses, Reasons
<1> QED
  BY <1>2, <1>3, <1>4

LEMMA PeopleKeep == ReviewInv /\ People => ReviewInv' /\ ProposalKept
BY ProposeKeeps, DraftKeeps, UpdateKeeps, SetAdminKeeps, StatusWritesKeep DEF People

LEMMA NextKeeps == ReviewInv /\ [Next]_vars => ReviewInv' /\ (MovedOnly \/ UNCHANGED vars)
<1> SUFFICES ASSUME ReviewInv, [Next]_vars
             PROVE  ReviewInv' /\ (MovedOnly \/ UNCHANGED vars)
  OBVIOUS
<1>1. CASE SyncPersists
  BY <1>1, SyncPersistsKeeps
<1>2. ASSUME ReviewInv' /\ ProposalKept
      PROVE  ReviewInv' /\ MovedOnly
  BY <1>2 DEF ProposalKept, MovedOnly
<1>3. CASE UNCHANGED vars
  <2>1. Typed'
    BY <1>3 DEF vars, ReviewInv, Typed
  <2> QED
    BY <1>3, <2>1, Unmoved DEF vars
<1>4. CASE Next /\ ~SyncPersists
  BY <1>2, <1>4, SyncReadsKeeps, SyncRemovalKeeps, DecideKeeps, PeopleKeep DEF Next, Sync
<1> QED
  BY <1>1, <1>3, <1>4

LEMMA InitKeeps == Init => ReviewInv
<1> SUFFICES ASSUME Init
             PROVE  ReviewInv
  OBVIOUS
<1> USE DEF Init
<1>1. PICK v \in Values :
        /\ live = [f \in Fields |-> v] /\ source = live /\ pulled = live
        /\ applied = [f \in Extracted |-> v]
  OBVIOUS
<1>2. /\ open \in OpenRecord /\ open.creation /\ open.proposal = NoEdit
      /\ open.suggestion = [u \in Proposers |-> NoSuggestion]
  BY NothingOpenIs DEF NothingOpen, OpenRecord
<1>3. event \in EventRecord /\ Agrees(event) /\ event.status = "new"
  BY DEF EventRecord, Statuses, Reasons, Agrees, LegacyStatus
<1>4. Typed
  <2>1. /\ live \in [Fields -> Values] /\ source \in [Fields -> Values]
        /\ pulled \in [Fields -> Values] /\ applied \in [Extracted -> Values]
    BY <1>1
  <2>2. /\ rejected \subseteq Edits \ {NoEdit} /\ accepted \subseteq Decided
        /\ inFlight \in [Fields -> Values] \union {NoPull}
        /\ blocked \in BOOLEAN /\ late \in BOOLEAN
    OBVIOUS
  <2>3. due \in [Fields -> BOOLEAN]
    OBVIOUS
  <2>4. pulls \in 0 .. MaxPulls /\ writes \in 0 .. MaxWrites
    BY ConstantsAssumption
  <2> QED
    BY <1>2, <1>3, <2>1, <2>2, <2>3, <2>4 DEF Typed
<1>5. DueWaits /\ NewIsQueued /\ GoneIsSettled /\ Gone(event, blocked)
  BY <1>2, <1>3 DEF DueWaits, NewIsQueued, GoneIsSettled, Gone
<1>6. ComparedWithLive
  BY <1>2, NoSuggestionIs DEF ComparedWithLive
<1> QED
  BY <1>3, <1>4, <1>5, <1>6 DEF ReviewInv

LEMMA ReviewInvariant == Spec => []ReviewInv
BY InitKeeps, NextKeeps, PTL DEF Spec

-----------------------------------------------------------------------------
\* Every variable keeps its type.
THEOREM TypeCorrect == Spec => []TypeOK
<1>1. ReviewInv => TypeOK
  BY DEF ReviewInv, Typed, TypeOK, EventRecord, OpenRecord, Decided
<1> QED
  BY <1>1, ReviewInvariant, PTL

\* What the review pages rely on (stage_source_changes, apply_to_event,
\* set_event_status and the flush listener): no source change is lost, a
\* suggestion is compared with what attendees see, and status, legacy columns,
\* review queue and block agree.
THEOREM ReviewSoundHolds == Spec => []ReviewSound
<1>1. ReviewInv => ReviewSound
  <2> SUFFICES ASSUME ReviewInv PROVE ReviewSound
    OBVIOUS
  <2>1. TypeOK
    BY DEF ReviewInv, Typed, TypeOK, EventRecord, OpenRecord, Decided
  <2>2. UndecidedIsProposed
    BY DEF ReviewInv, DueWaits, UndecidedIsProposed, Copied
  <2>3. StatusAgrees
    BY DEF ReviewInv, Agrees, StatusAgrees
  <2>4. AdminRemovalBlocks
    BY DEF ReviewInv, Gone, AdminRemovalBlocks
  <2> QED
    BY <2>1, <2>2, <2>3, <2>4 DEF ReviewInv, ReviewSound
<1> QED
  BY <1>1, ReviewInvariant, PTL

\* Only what the source changed since the previous sync is proposed: a value
\* that edits made here replaced is not offered back as a revert.
THEOREM OnlyMovedIsProposedHolds == Spec => OnlyMovedIsProposed
<1>1. ReviewInv /\ [Next]_vars => [MovedOnly]_vars
  BY NextKeeps
<1>2. [MovedOnly]_vars =>
        [\A f \in Copied :
           f \in DOMAIN open'.proposal /\ ~(f \in DOMAIN open.proposal
                                           /\ open.proposal[f] = open'.proposal[f])
             => source'[f] # source[f]]_vars
  BY DEF MovedOnly
<1> QED
  BY <1>1, <1>2, ReviewInvariant, PTL DEF Spec, OnlyMovedIsProposed
=============================================================================
