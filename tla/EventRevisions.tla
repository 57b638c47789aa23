--------------------------- MODULE EventRevisions ---------------------------
(***************************************************************************)
(* The life of one public event imported from a Google calendar: what       *)
(* attendees see of it, its status, and the changes that wait for an admin. *)
(* Five parties write to it: the calendar sync, any signed-in user, the     *)
(* event's organizer, the admins, and a flush listener that keeps the       *)
(* status column in step with the older columns it replaces.                *)
(*                                                                         *)
(* A handler is one transaction, hence one action; only the sync looks at   *)
(* the event twice, once before and once after it has enriched what it      *)
(* fetched (SyncReads, SyncPersists).  A set of changes is a function from   *)
(* the changed fields to their new values; the empty one means no revision. *)
(***************************************************************************)
EXTENDS Naturals, FiniteSets

CONSTANTS
  Fields,        \* revisable fields of the event
  Extracted,     \* those that pass through the description extractor
  Values,        \* what a field can hold
  Users,         \* signed-in users who suggest changes
  Organizer,     \* the organizer of the event
  ShowPending,   \* the site setting that lists unreviewed events
  MaxEdited,     \* bound: fields one edit changes, here or at the source
  MaxPulls,      \* bound: pulls and deletions at the source
  MaxWrites      \* bound: edits, suggestions and status changes by people

ASSUME ConstantsAssumption ==
  /\ Extracted \subseteq Fields
  /\ Organizer \notin Users
  /\ ShowPending \in BOOLEAN
  /\ MaxEdited \in Nat /\ MaxPulls \in Nat /\ MaxWrites \in Nat

Proposers == Users \union {Organizer}
Edits == UNION {[D -> Values] : D \in SUBSET Fields}
Requests == {c \in Edits : Cardinality(DOMAIN c) <= MaxEdited}
NoEdit == [f \in {} |-> f]
NoPull == NoEdit

Statuses == {"new", "published", "unpublished", "cancelled", "removed", "null"}
Reasons == {"none", "admin", "google_calendar", "rejected"}

VARIABLES
  event,      \* status, reason and the legacy columns of the row
  live,       \* the fields as attendees see them
  source,     \* source_values: the fields as the last sync left them
  pulled,     \* what the last sync received (content_hash, source_description)
  applied,    \* extractor_state.applied: what the extractor last wrote
  blocked,    \* a BlockedEvent row exists
  open,       \* the revisions that wait
  rejected,   \* the source edits an admin discarded
  accepted,   \* accepted suggestions, which an admin can revert
  inFlight,   \* what a sync worker fetched and has not persisted yet
  due,        \* history: fields the source moved and nobody decided on since
  late,       \* history: a persist landed after the event had been blocked
  pulls, writes

vars == <<event, live, source, pulled, applied, blocked, open, rejected,
          accepted, inFlight, due, late, pulls, writes>>

-----------------------------------------------------------------------------
(* Status: event_visibility.py *)

LegacyStatus(e) ==
  CASE e.deleted       -> [status |-> "removed", reason |-> "google_calendar"]
    [] ~e.deleted /\ e.hidden -> [status |-> "unpublished", reason |-> "none"]
    [] ~e.deleted /\ ~e.hidden /\ e.cancelled ->
         [status |-> "cancelled", reason |-> "none"]
    [] OTHER -> [status |-> IF e.reviewed THEN "published" ELSE "new",
                 reason |-> "none"]

EventStatus(e) == IF e.status = "null" THEN LegacyStatus(e).status ELSE e.status

Listed(e) == EventStatus(e) \in {"published", "cancelled"}

SetEventStatus(e, s, why) ==
  [status    |-> s,
   reason    |-> IF s = "removed" THEN why ELSE "none",
   hidden    |-> s = "unpublished" \/ (s = "removed" /\ why # "google_calendar"),
   cancelled |-> s = "cancelled",
   deleted   |-> s = "removed" /\ why = "google_calendar",
   reviewed  |-> CASE s = "new" -> FALSE
                   [] s = "removed" -> e.reviewed
                   [] OTHER -> TRUE]

LegacyColumns(e) == <<e.hidden, e.cancelled, e.deleted, e.reviewed>>

\* The flush listener: a legacy column written without the status moves it.
Flushed(e) ==
  LET l == LegacyStatus(e)
  IN IF \/ e.status # event.status
        \/ LegacyColumns(e) = LegacyColumns(event)
        \/ l.status = "unpublished" /\ e.status = "removed"
       THEN e
       ELSE [e EXCEPT !.status = l.status, !.reason = l.reason]

-----------------------------------------------------------------------------
(* Open revisions *)

NoSuggestion == [new |-> NoEdit, old |-> NoEdit, cancel |-> "none", stale |-> {}]

NothingOpen == [proposal |-> NoEdit, removal |-> FALSE, draft |-> NoEdit,
                suggestion |-> [u \in Proposers |-> NoSuggestion],
                creation |-> FALSE]

Pending(s) == s.new # NoEdit \/ s.cancel # "none"

NewlyRemoved(e) == e.status = "removed" /\ event.status # "removed"

\* A status written by the flush closes everything that waits on a removed
\* event, and keeps one open creation while the event is new.
Mirrored(o, e) ==
  CASE NewlyRemoved(e) -> NothingOpen
    [] e.status \notin {event.status, "removed"} ->
         [o EXCEPT !.creation = (e.status = "new")]
    [] OTHER -> o

Without(c, D) == [f \in DOMAIN c \ D |-> c[f]]

Overlay(c) == [f \in Fields |-> IF f \in DOMAIN c THEN c[f] ELSE live[f]]

\* Mutant: the other proposals keep what was just decided.
SupersedeNothing(o, r) == o

\* Fields a just-applied revision decided leave the other proposals; admin
\* drafts keep theirs.
SupersedeOverlapping(o, r) ==
  [o EXCEPT
    !.proposal = Without(@, DOMAIN r.new),
    !.suggestion = [u \in Proposers |->
       [new    |-> Without(@[u].new, DOMAIN r.new),
        old    |-> Without(@[u].old, DOMAIN r.new),
        cancel |-> IF r.status \in {"cancel", "restore"} THEN "none" ELSE @[u].cancel,
        stale  |-> @[u].stale \ DOMAIN r.new]]]

\* What a direct write does to the history of the waiting suggestions.
MarkStale(o, new) ==
  [o EXCEPT !.suggestion = [u \in Proposers |->
     [o.suggestion[u] EXCEPT !.stale = @ \union
        {f \in DOMAIN open.suggestion[u].new : new[f] # live[f]}]]]

-----------------------------------------------------------------------------
(* The calendar sync *)

\* What the row holds once the sync has written to it: the extractor leaves a
\* field alone that no longer shows what it wrote there itself.
Snapshot(new) ==
  [f \in Fields |-> IF f \in Extracted /\ live[f] # applied[f]
                      THEN live[f] ELSE new[f]]

\* Mutant: compared with the row instead of the previous sync.
MovedFromLive(incoming) == {f \in Fields : incoming[f] # live[f]}

Moved(incoming) == {f \in Fields : incoming[f] # source[f]}

Changes(incoming) ==
  LET stands == {f \in DOMAIN open.proposal : open.proposal[f] = incoming[f]}
      proposed == Moved(incoming) \union stands
  IN [f \in {g \in proposed : incoming[g] # live[g]} |-> incoming[f]]

\* The pending source edit after stage_source_changes on a reviewed event.
StageSourceChanges(incoming) ==
  IF \/ Moved(incoming) = {}
     \/ Changes(incoming) # NoEdit /\ Changes(incoming) \in rejected
    THEN open.proposal
    ELSE Changes(incoming)

SyncReads(new) ==
  /\ pulls < MaxPulls
  /\ Cardinality({f \in Fields : new[f] # pulled[f]}) <= MaxEdited
  /\ ~blocked
  /\ inFlight = NoPull
  /\ inFlight' = new
  /\ pulls' = pulls + 1
  /\ UNCHANGED <<event, live, source, pulled, applied, blocked, open, rejected,
                 accepted, due, late, writes>>

SyncPersists ==
  LET incoming == Snapshot(inFlight)
      e == Flushed([event EXCEPT !.deleted = FALSE])
      withdrawn == [open EXCEPT !.removal = FALSE]
      changes == Changes(incoming)
  IN /\ inFlight # NoPull
     /\ inFlight' = NoPull
     /\ IF inFlight = pulled
          THEN UNCHANGED <<event, live, source, pulled, applied, open, due, late>>
          ELSE /\ pulled' = inFlight
               /\ source' = incoming
               /\ applied' = [f \in Extracted |-> IF live[f] = applied[f]
                                                    THEN inFlight[f] ELSE applied[f]]
               /\ event' = e
               /\ late' = (late \/ blocked)
               /\ IF event.reviewed
                    THEN /\ open' = Mirrored([withdrawn EXCEPT
                                        !.proposal = StageSourceChanges(incoming)], e)
                         /\ due' = [f \in Fields |->
                              IF Moved(incoming) = {} THEN due[f]
                              ELSE /\ due[f] \/ f \in Moved(incoming)
                                   /\ incoming[f] # live[f]
                                   /\ ~(changes \in rejected /\ f \in DOMAIN changes)]
                         /\ UNCHANGED live
                    ELSE /\ live' = incoming
                         /\ open' = Mirrored(MarkStale(withdrawn, incoming), e)
                         /\ due' = [f \in Fields |-> due[f] /\ f \notin Moved(incoming)]
     /\ UNCHANGED <<blocked, rejected, accepted, pulls, writes>>

\* The source reports the event deleted: propose_removal.
SyncRemoval ==
  /\ pulls < MaxPulls
  /\ ~event.deleted
  /\ EventStatus(event) # "removed"
  /\ pulls' = pulls + 1
  /\ IF ~Listed(event)
       THEN LET e == Flushed(SetEventStatus(event, "removed", "google_calendar"))
            IN /\ event' = e
               /\ open' = Mirrored(open, e)
               /\ due' = [f \in Fields |-> FALSE]
       ELSE /\ open' = [open EXCEPT !.removal =
                         @ \/ \A u \in Proposers : open.suggestion[u].cancel = "none"]
            /\ UNCHANGED <<event, due>>
  /\ UNCHANGED <<live, source, pulled, applied, blocked, rejected, accepted,
                 inFlight, late, writes>>

-----------------------------------------------------------------------------
(* Applying a revision *)

StatusApplied(e, r) ==
  CASE r.status = "cancel"  -> [e EXCEPT !.cancelled = TRUE]
    [] r.status = "restore" -> [e EXCEPT !.cancelled = FALSE]
    [] r.status = "none"    -> e
    [] OTHER -> SetEventStatus(e, r.status, r.reason)

Revision(new, status, why) == [new |-> new, status |-> status, reason |-> why]

\* apply_to_event, the block of an admin removal, the flush and the trimming
\* of the other proposals; o holds what else is open.
ApplyChanges(r, o, wasBlocked) ==
  LET e == Flushed(StatusApplied(event, r))
  IN /\ live' = Overlay(r.new)
     /\ event' = e
     /\ blocked' = (wasBlocked \/ (r.status = "removed" /\ e.reason # "google_calendar"))
     /\ open' = SupersedeOverlapping(Mirrored(o, e), r)
     /\ due' = [f \in Fields |-> due[f] /\ f \notin DOMAIN r.new /\ ~NewlyRemoved(e)]
     /\ UNCHANGED <<source, pulled, applied, inFlight, late, pulls>>

ApplySourceChange ==
  /\ open.proposal # NoEdit
  /\ ApplyChanges(Revision(open.proposal, "none", "none"),
                  [open EXCEPT !.proposal = NoEdit], blocked)
  /\ UNCHANGED <<rejected, accepted, writes>>

\* as: the removal itself, or a cancellation instead (retarget_status).
ApplySourceRemoval(as) ==
  /\ open.removal
  /\ ApplyChanges(Revision(NoEdit, as, "google_calendar"),
                  [open EXCEPT !.removal = FALSE], blocked)
  /\ UNCHANGED <<rejected, accepted, writes>>

\* as: the status the suggestion asks for, or a removal of what it cancels.
ApplySuggestion(u, as) ==
  LET s == open.suggestion[u]
  IN /\ Pending(s)
     /\ as = s.cancel \/ (as = "removed" /\ s.cancel = "cancel")
     /\ ApplyChanges(Revision(s.new, as, "admin"),
                     [open EXCEPT !.suggestion[u] = NoSuggestion], blocked)
     /\ accepted' = accepted \union {[new |-> s.new, old |-> s.old, status |-> as]}
     /\ UNCHANGED <<rejected, writes>>

\* The inverse of an accepted suggestion on the fields nobody changed since.
RevertChanges(a) ==
  LET same == {f \in DOMAIN a.new : live[f] = a.new[f]}
      status == CASE a.status = "cancel"  /\ event.cancelled  -> "restore"
                  [] a.status = "restore" /\ ~event.cancelled -> "cancel"
                  [] a.status = "removed" /\ EventStatus(event) = "removed" -> "null"
                  [] OTHER -> "none"
  IN Revision([f \in same |-> a.old[f]], status, "none")

RevertRevision(a) ==
  LET r == RevertChanges(a)
  IN /\ r.new # NoEdit \/ r.status # "none"
     /\ accepted' = accepted \ {a}
     /\ ApplyChanges(r, open, blocked)
     /\ UNCHANGED <<rejected, writes>>

Discard(o) ==
  /\ open' = o
  /\ UNCHANGED <<event, live, source, pulled, applied, blocked, accepted,
                 inFlight, late, pulls, writes>>

DiscardSourceChange ==
  /\ open.proposal # NoEdit
  /\ rejected' = rejected \union {open.proposal}
  /\ due' = [f \in Fields |-> due[f] /\ f \notin DOMAIN open.proposal]
  /\ Discard([open EXCEPT !.proposal = NoEdit])

DiscardSourceRemoval ==
  /\ open.removal
  /\ Discard([open EXCEPT !.removal = FALSE])
  /\ UNCHANGED <<rejected, due>>

\* Discarded by an admin or withdrawn by its author.
DiscardSuggestion(u) ==
  /\ Pending(open.suggestion[u])
  /\ Discard([open EXCEPT !.suggestion[u] = NoSuggestion])
  /\ UNCHANGED <<rejected, due>>

-----------------------------------------------------------------------------
(* What people write *)

Write == writes < MaxWrites /\ writes' = writes + 1

ProposeEventChange(u, new, cancel) ==
  LET s == open.suggestion[u]
      changed == {f \in DOMAIN new : new[f] # live[f]}
      c == IF (cancel = "cancel") = event.cancelled THEN "none" ELSE cancel
  IN /\ Write
     /\ ~event.deleted /\ ~event.hidden /\ ~blocked
     /\ Listed(event) \/ (EventStatus(event) = "new" /\ ShowPending)
     /\ u \in Users => event.reviewed /\ ~Pending(s) /\ cancel = "none"
     /\ changed # {} \/ c # "none"
     /\ open' = [open EXCEPT !.suggestion[u] =
                  [new    |-> [f \in changed |-> new[f]],
                   old    |-> [f \in changed |-> live[f]],
                   cancel |-> c,
                   stale  |-> {}]]
     /\ UNCHANGED <<event, live, source, pulled, applied, blocked, rejected,
                    accepted, inFlight, due, late, pulls>>

UpdateEventDraft(new) ==
  LET kept == Without(open.draft, DOMAIN new)
      changed == {f \in DOMAIN new : new[f] # live[f]}
  IN /\ Write
     /\ event.reviewed
     /\ new # NoEdit
     /\ open' = [open EXCEPT !.draft =
                  [f \in DOMAIN kept \union changed |->
                     IF f \in changed THEN new[f] ELSE kept[f]]]
     /\ UNCHANGED <<event, live, source, pulled, applied, blocked, rejected,
                    accepted, inFlight, due, late, pulls>>

DiscardEventDraft ==
  /\ open.draft # NoEdit
  /\ Discard([open EXCEPT !.draft = NoEdit])
  /\ UNCHANGED <<rejected, due>>

PublishEventDraft ==
  /\ open.draft # NoEdit
  /\ ApplyChanges(Revision(open.draft, "none", "none"),
                  [open EXCEPT !.draft = NoEdit], blocked)
  /\ UNCHANGED <<rejected, accepted, writes>>

\* The direct edit of the events table: fields, status or both.
UpdateEvent(new, s) ==
  LET change == s # "none" /\ s # EventStatus(event)
      e == Flushed(IF change THEN SetEventStatus(event, s, "none") ELSE event)
  IN /\ Write
     /\ new # NoEdit \/ change
     /\ change => EventStatus(event) \notin {"removed", "cancelled"}
     /\ live' = Overlay(new)
     /\ event' = e
     /\ open' = Mirrored(MarkStale(open, Overlay(new)), e)
     /\ UNCHANGED <<source, pulled, applied, blocked, rejected, accepted,
                    inFlight, due, late, pulls>>

\* An admin handler that writes the status itself.
WriteStatus(s, why, block) ==
  LET e == Flushed(SetEventStatus(event, s, why))
  IN /\ event' = e
     /\ open' = Mirrored(open, e)
     /\ blocked' = block
     /\ due' = [f \in Fields |-> due[f] /\ ~NewlyRemoved(e)]
     /\ UNCHANGED <<live, source, pulled, applied, rejected, accepted,
                    inFlight, late, pulls>>

ReviewEvent == Write /\ WriteStatus("published", "none", blocked)

BlockEvent == Write /\ WriteStatus("removed", "admin", TRUE)

UnblockEvent == Write /\ WriteStatus("new", "none", FALSE)

\* The decision on the open creation of a new event.
DecideCreation(accept) ==
  /\ open.creation
  /\ IF accept THEN WriteStatus("published", "none", blocked)
               ELSE WriteStatus("removed", "rejected", TRUE)
  /\ UNCHANGED writes

SetAdminEventStatus(s) ==
  LET now == EventStatus(event)
  IN /\ Write
     /\ \/ s = "cancelled" /\ now \in {"published", "cancelled"}
           /\ ApplyChanges(Revision(NoEdit, "cancel", "none"), open, blocked)
        \/ s = "removed"
           /\ ApplyChanges(Revision(NoEdit, "removed", "admin"), open, blocked)
        \/ s = "published" /\ now = "cancelled"
           /\ ApplyChanges(Revision(NoEdit, "restore", "none"), open, blocked)
        \/ s = "published" /\ now = "removed"
           /\ ApplyChanges(Revision(NoEdit, "new", "none"), open, FALSE)
     /\ UNCHANGED <<rejected, accepted>>

-----------------------------------------------------------------------------
Init ==
  \E v \in Values :
    /\ event = [status |-> "new", reason |-> "none", hidden |-> FALSE,
                cancelled |-> FALSE, deleted |-> FALSE, reviewed |-> FALSE]
    /\ live = [f \in Fields |-> v]
    /\ source = live
    /\ pulled = live
    /\ applied = [f \in Extracted |-> v]
    /\ blocked = FALSE
    /\ open = [NothingOpen EXCEPT !.creation = TRUE]
    /\ rejected = {}
    /\ accepted = {}
    /\ inFlight = NoPull
    /\ due = [f \in Fields |-> FALSE]
    /\ late = FALSE
    /\ pulls = 0
    /\ writes = 0

Sync ==
  \/ \E new \in [Fields -> Values] : SyncReads(new)
  \/ SyncPersists
  \/ SyncRemoval

Decide ==
  \/ ApplySourceChange
  \/ \E as \in {"removed", "cancel"} : ApplySourceRemoval(as)
  \/ \E u \in Proposers, as \in {"none", "cancel", "restore", "removed"} :
       ApplySuggestion(u, as)
  \/ \E a \in accepted : RevertRevision(a)
  \/ DiscardSourceChange
  \/ DiscardSourceRemoval
  \/ \E u \in Proposers : DiscardSuggestion(u)
  \/ DiscardEventDraft
  \/ PublishEventDraft
  \/ \E accept \in BOOLEAN : DecideCreation(accept)

People ==
  \/ \E u \in Proposers, new \in Requests, c \in {"none", "cancel", "restore"} :
       ProposeEventChange(u, new, c)
  \/ \E new \in Requests : UpdateEventDraft(new)
  \/ \E new \in Requests, s \in {"none", "new", "published", "unpublished"} :
       UpdateEvent(new, s)
  \/ ReviewEvent
  \/ BlockEvent
  \/ UnblockEvent
  \/ \E s \in {"published", "cancelled", "removed"} : SetAdminEventStatus(s)

Next == Sync \/ Decide \/ People

Spec == Init /\ [][Next]_vars

-----------------------------------------------------------------------------
(* Properties *)

Suggestions == {s \in [new : Edits, old : Edits, cancel : {"none", "cancel", "restore"},
                       stale : SUBSET Fields] : DOMAIN s.new = DOMAIN s.old}

\* Every variable keeps its type.
TypeOK ==
  /\ event \in [status : Statuses, reason : Reasons, hidden : BOOLEAN,
                cancelled : BOOLEAN, deleted : BOOLEAN, reviewed : BOOLEAN]
  /\ live \in [Fields -> Values] /\ source \in [Fields -> Values]
  /\ pulled \in [Fields -> Values] /\ applied \in [Extracted -> Values]
  /\ open.proposal \in Edits /\ open.draft \in Edits
  /\ open.removal \in BOOLEAN /\ open.creation \in BOOLEAN
  /\ \A u \in Proposers : open.suggestion[u] \in Suggestions
  /\ rejected \subseteq Edits \ {NoEdit}
  /\ \A a \in accepted : DOMAIN a.new = DOMAIN a.old
  /\ inFlight \in [Fields -> Values] \union {NoPull}
  /\ blocked \in BOOLEAN /\ late \in BOOLEAN
  /\ due \in [Fields -> BOOLEAN]
  /\ pulls \in 0 .. MaxPulls /\ writes \in 0 .. MaxWrites

Copied == Fields \ Extracted

Waits(f) == f \in DOMAIN open.proposal /\ open.proposal[f] = source[f]

\* stage_source_changes: a change the source made to a copied field of a
\* reviewed event waits for an admin with the value the source has now, through
\* any number of further syncs, until someone decides on the field.
UndecidedIsProposed ==
  event.reviewed => \A f \in Copied : due[f] /\ live[f] # source[f] => Waits(f)

\* Only what the source changed since the previous sync is proposed: a value
\* that edits made here replaced is not offered back as a revert.
OnlyMovedIsProposed ==
  [][\A f \in Copied :
       f \in DOMAIN open'.proposal /\ ~(f \in DOMAIN open.proposal
                                       /\ open.proposal[f] = open'.proposal[f])
         => source'[f] # source[f]]_vars

\* What an admin compares a suggestion with, and what reverting it restores, is
\* what attendees see, unless the field was written directly since.
ComparedWithLive ==
  \A u \in Proposers : LET s == open.suggestion[u] IN
    \A f \in DOMAIN s.old \ s.stale : s.old[f] = live[f]

\* The two writers of the status, set_event_status and the flush listener,
\* leave it saying what the legacy columns say.
StatusAgrees ==
  \/ event.status = "null"
  \/ event.status = LegacyStatus(event).status
  \/ event.status = "removed" /\ event.hidden

\* A new event, and no other, is in the review queue.
NewIsQueued == open.creation <=> event.status = "new"

\* Nothing waits on an event that is gone for good, except what a sync that
\* was already past the check of the block proposes.
GoneIsSettled ==
  event.status = "removed" =>
    /\ ~open.removal
    /\ \A u \in Proposers : ~Pending(open.suggestion[u])
    /\ open.proposal # NoEdit => late

\* Admin removals stay gone on the next sync.
AdminRemovalBlocks ==
  event.status = "removed" /\ event.reason # "google_calendar" => blocked

\* What the review pages rely on, whatever order syncs, edits and decisions come
\* in: no source change is lost, a suggestion is compared with what attendees
\* see, and status, legacy columns, review queue and block agree.
ReviewSound ==
  /\ TypeOK /\ UndecidedIsProposed /\ ComparedWithLive /\ StatusAgrees
  /\ NewIsQueued /\ GoneIsSettled /\ AdminRemovalBlocks
=============================================================================
