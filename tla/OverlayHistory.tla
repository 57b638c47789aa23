--------------------------- MODULE OverlayHistory ---------------------------
(***************************************************************************)
(* useBackToClose: Back closes the topmost overlay.  Every open overlay    *)
(* owns a history entry of the same URL, tagged with an increasing id; a   *)
(* stack in memory mirrors those entries.  Closing an overlay by other     *)
(* means goes back over its entry, which the browser does later and        *)
(* reports with the same popstate event as the user's Back.                *)
(*                                                                         *)
(* A traversal (history.back(), the user's Back and Forward) is queued,    *)
(* and applied with its popstate handlers in one step: onPopState runs     *)
(* first (capture), then the router shows the page of the URL it left.     *)
(***************************************************************************)
EXTENDS Naturals, Integers, Sequences, FiniteSets, SequencesExt

CONSTANTS Overlays, Pages, Queries,
          MaxIds,     \* history entries tagged over a behaviour
          MaxOps      \* things the user does

ASSUME OverlayAssumption ==
    /\ Pages # {} /\ Queries # {} /\ {MaxIds, MaxOps} \subseteq Nat

VARIABLES
    hist, cur,   \* the session history and the entry shown
    queue,       \* traversals asked for and not applied: -1 or 1
    ownPops,     \* hrefs to restore after our own history.back() calls
    stack,       \* open overlays, each [ov, id, href]
    closing,     \* ids whose removal timer is set
    seq,         \* the last id given
    seeded,      \* the id this page load started from
    installed,   \* is the popstate listener in place
    shown,       \* the page and query the router shows
    ops,
    buried,      \* was an overlay removed from between an open one and another
    traversed,   \* did the user press Back or Forward
    tangled      \* did something happen between history.back() and its popstate,
                 \* or an overlay refuse to close by opening another

vars == <<hist, cur, queue, ownPops, stack, closing, seq, seeded, installed, shown,
          ops, buried, traversed, tangled>>

Href == [page : Pages, query : Queries]
HistoryEntry == [href : Href, marker : 0..MaxIds]     \* 0: not an overlay's

currentMarker == hist[cur].marker
Top == stack[Len(stack)]
InStack(s, id) == \E i \in DOMAIN s : s[i].id = id
IsOpen(o) == \E i \in DOMAIN stack : stack[i].ov = o /\ stack[i].id \notin closing

Count == ops < MaxOps /\ ops' = ops + 1

----------------------------------------------------------------------------
(* The helpers of the hook *)

\* pushState drops the entries ahead.
Pushed(h, c, entry) == Append(SubSeq(h, 1, c), entry)

\* pushEntry: a new id, the URL shown, the router's own state kept.
PushEntry(o, h, c, s) ==
    LET id == seq + 1
    IN  [hist |-> Pushed(h, c, [href |-> h[c].href, marker |-> id]),
         stack |-> Append(s, [ov |-> o, id |-> id, href |-> h[c].href])]

\* Mutant: the URL replaced while the overlay was open is lost with its entry.
CarryUrlNowhere(h, s, c, href) == [hist |-> h, stack |-> s]

\* carryUrl: the URL of the entry left is copied onto the entry below, and to
\* the overlay that owns that one.
CarryUrl(h, s, c, href) ==
    IF h[c].href = href THEN [hist |-> h, stack |-> s] ELSE
    [hist |-> [h EXCEPT ![c].href = href],
     stack |-> [i \in DOMAIN s |->
                  IF s[i].id = h[c].marker THEN [s[i] EXCEPT !.href = href] ELSE s[i]]]

----------------------------------------------------------------------------
Init ==
    /\ \E p \in Pages, q \in Queries :
        /\ hist = [i \in 1..2 |-> [href |-> [page |-> p, query |-> q], marker |-> 0]]
        /\ shown = [page |-> p, query |-> q]
    /\ cur = 2 /\ queue = <<>> /\ ownPops = <<>> /\ stack = <<>> /\ closing = {}
    /\ seq = 0 /\ seeded = 0 /\ installed = FALSE /\ ops = 0
    /\ buried = FALSE /\ traversed = FALSE /\ tangled = FALSE

\* An overlay mounts, or becomes enabled again after its entry was removed.
Open(o) ==
    /\ ~IsOpen(o) /\ seq < MaxIds /\ Count
    /\ LET n == PushEntry(o, hist, cur, stack)
       IN hist' = n.hist /\ stack' = n.stack
    /\ cur' = cur + 1 /\ seq' = seq + 1 /\ installed' = TRUE
    /\ tangled' = (tangled \/ queue # <<>>)
    /\ UNCHANGED <<queue, ownPops, closing, seeded, shown, buried, traversed>>

\* An overlay unmounts or is disabled: only a timer is set.  (An effect that
\* runs again in the same task, as under StrictMode, clears it: no step.)
Close(o) ==
    /\ \E i \in DOMAIN stack : stack[i].ov = o /\ stack[i].id \notin closing
         /\ closing' = closing \cup {stack[i].id}
    /\ Count
    /\ UNCHANGED <<hist, cur, queue, ownPops, stack, seq, seeded, installed, shown, buried, traversed, tangled>>

\* Mutant: the timer always goes back.
UnwindsAlways(id) == TRUE

\* Only an entry that is still current is unwound.
Unwinds(id) == currentMarker = id

\* An overlay leaves its entry below that of another one and above an open one's.
Buries(id) ==
    ~Unwinds(id) /\ \E i, j \in DOMAIN stack :
        i < j /\ j < Len(stack) /\ stack[j].id = id /\ stack[i].id \notin closing

\* remove, from the timer: indexOf and splice, then history.back().
RemovalTimer(id) ==
    /\ closing' = closing \ {id}
    /\ \/ \E i \in DOMAIN stack : stack[i].id = id /\ stack' = RemoveAt(stack, i)
       \/ ~InStack(stack, id) /\ UNCHANGED stack
    /\ buried' = (buried \/ Buries(id))
    /\ IF Unwinds(id)
       THEN queue' = Append(queue, -1) /\ ownPops' = Append(ownPops, hist[cur].href)
       ELSE UNCHANGED <<queue, ownPops>>
    /\ UNCHANGED <<hist, cur, seq, seeded, installed, shown, ops, traversed, tangled>>

\* The router navigates: a new entry without a tag; the overlays of the page
\* left unmount.
Navigate(p, q) ==
    /\ Count
    /\ LET href == [page |-> p, query |-> q]
       IN  /\ hist' = Pushed(hist, cur, [href |-> href, marker |-> 0])
           /\ shown' = href
    /\ cur' = cur + 1
    /\ closing' = closing \cup {stack[i].id : i \in DOMAIN stack}
    /\ tangled' = (tangled \/ queue # <<>>)
    /\ UNCHANGED <<queue, ownPops, stack, seq, seeded, installed, buried, traversed>>

\* replaceState, wrapped by install: the tag stays, and the overlay remembers
\* the URL.  Filters are synchronised to the query this way.  Before install
\* the router's replaceState drops the tag.
ReplaceUrl(q) ==
    /\ q # shown.query /\ Count
    /\ shown' = [shown EXCEPT !.query = q]
    /\ hist' = [hist EXCEPT ![cur] =
                   [href |-> shown', marker |-> IF installed THEN @.marker ELSE 0]]
    /\ stack' = [i \in DOMAIN stack |->
                   IF stack[i].id = currentMarker
                   THEN [stack[i] EXCEPT !.href = shown'] ELSE stack[i]]
    /\ tangled' = (tangled \/ queue # <<>>)
    /\ UNCHANGED <<cur, queue, ownPops, closing, seq, seeded, installed, buried, traversed>>

\* The user's Back and Forward buttons.  Back over the first entry leaves the app.
UserTraverse(d) ==
    /\ cur + d \in 1..Len(hist) /\ Count
    /\ queue' = Append(queue, d) /\ traversed' = TRUE
    /\ tangled' = (tangled \/ queue # <<>> \/ closing # {})
    /\ UNCHANGED <<hist, cur, ownPops, stack, closing, seq, seeded, installed, shown, buried>>

\* seq is seeded from the clock: it goes on increasing across a reload.
ReloadedSeq == seq

\* A reload: memory is lost, the history stays.
Reload ==
    /\ Count
    /\ stack' = <<>> /\ closing' = {} /\ ownPops' = <<>> /\ queue' = <<>>
    /\ seq' = ReloadedSeq /\ seeded' = ReloadedSeq /\ installed' = FALSE
    /\ tangled' = (tangled \/ queue # <<>>)
    /\ UNCHANGED <<hist, cur, shown, buried, traversed>>

----------------------------------------------------------------------------
(* onPopState *)

\* Mutant: an entry of a closed overlay is stayed on.
StalePopStays(h, s, c) == FALSE

\* An entry left behind by an overlay that is gone is stepped over.
StalePop(h, s, c) == h[c].marker # 0 /\ ~InStack(s, h[c].marker)

\* The end of the handler: step over a stale entry; the router shows the URL.
Landed(h, s, c, pops) ==
    /\ hist' = h /\ stack' = s /\ cur' = c /\ shown' = h[c].href
    /\ IF installed /\ StalePop(h, s, c)
       THEN /\ queue' = Append(Tail(queue), -1)
            /\ ownPops' = Append(pops, h[c].href)
       ELSE /\ queue' = Tail(queue) /\ ownPops' = pops

\* Is this popstate a Back over the top overlay's entry?
ClosesTop(c) ==
    installed /\ stack # <<>> /\ (hist[c].marker = 0 \/ hist[c].marker < Top.id)

\* Our own history.back(), or a traversal that closes nothing.
PopOther ==
    /\ queue # <<>>
    /\ LET c == cur + Head(queue)
       IN  /\ c \in 1..Len(hist)
           /\ IF ownPops # <<>>
              THEN LET n == CarryUrl(hist, stack, c, Head(ownPops))
                   IN Landed(n.hist, n.stack, c, Tail(ownPops))
              ELSE ~ClosesTop(c) /\ Landed(hist, stack, c, ownPops)
    /\ UNCHANGED <<closing, seq, seeded, installed, ops, buried, traversed, tangled>>

\* Back closes the top overlay: its URL is carried down and the overlay is
\* asked to close.  It closes (its cleanup sets the timer), perhaps letting
\* another one open.
PopTop ==
    /\ queue # <<>> /\ ownPops = <<>>
    /\ LET c == cur + Head(queue)
           n == CarryUrl(hist, stack, c, Top.href)
           below == Front(n.stack)
       IN  /\ c \in 1..Len(hist) /\ ClosesTop(c)
           /\ queue' = Tail(queue) /\ shown' = n.hist[c].href
           /\ closing' = closing \cup {Top.id}
           /\ \/ /\ hist' = n.hist /\ cur' = c /\ stack' = below
                 /\ UNCHANGED seq
              \/ \E o \in Overlays \ {Top.ov} :
                   /\ ~IsOpen(o) /\ seq < MaxIds /\ seq' = seq + 1 /\ cur' = c + 1
                   /\ LET m == PushEntry(o, n.hist, c, below)
                      IN hist' = m.hist /\ stack' = m.stack
    /\ UNCHANGED <<ownPops, seeded, installed, ops, buried, traversed, tangled>>

\* Mutant: an overlay that refused is put back on top of the one it opened.
PutBackOnTop(below, top, opened) == below \o <<opened, top>>

\* An overlay that refused goes back below the one it opened.
PutBack(below, top, opened) == below \o <<top, opened>>

\* The overlay refuses: its entry is pushed again; or, when it opened another
\* one instead, it is put back below that one without an entry.
PopRefused ==
    /\ queue # <<>> /\ ownPops = <<>> /\ seq < MaxIds
    /\ LET c == cur + Head(queue)
           n == CarryUrl(hist, stack, c, Top.href)
           below == Front(n.stack)
       IN  /\ c \in 1..Len(hist) /\ ClosesTop(c) /\ Top.id \notin closing
           /\ queue' = Tail(queue) /\ shown' = n.hist[c].href
           /\ \E o \in Overlays :
                LET m == PushEntry(o, n.hist, c, below)
                IN  /\ hist' = m.hist
                    /\ \/ /\ o = Top.ov /\ stack' = m.stack /\ UNCHANGED tangled
                       \/ /\ ~IsOpen(o) /\ tangled' = TRUE
                          /\ stack' = PutBack(below, Top, Last(m.stack))
           /\ cur' = c + 1 /\ seq' = seq + 1
    /\ UNCHANGED <<ownPops, closing, seeded, installed, ops, buried, traversed>>

\* A traversal past either end of the history does nothing.
PopNowhere ==
    /\ queue # <<>> /\ cur + Head(queue) \notin 1..Len(hist)
    /\ queue' = Tail(queue)
    /\ UNCHANGED <<hist, cur, ownPops, stack, closing, seq, seeded, installed,
                   shown, ops, buried, traversed, tangled>>

----------------------------------------------------------------------------
Quiet == queue = <<>> /\ closing = {}

Next ==
    \/ \E o \in Overlays : Open(o) \/ Close(o)
    \/ \E id \in closing : RemovalTimer(id)
    \/ \E p \in Pages, q \in Queries : Navigate(p, q)
    \/ \E q \in Queries : ReplaceUrl(q)
    \/ \E d \in {-1, 1} : UserTraverse(d)
    \/ Reload
    \/ PopOther \/ PopTop \/ PopRefused \/ PopNowhere
    \/ Quiet /\ UNCHANGED vars

Spec == Init /\ [][Next]_vars

----------------------------------------------------------------------------
(* Properties *)

\* The type of the state.
TypeOK ==
    /\ \A i \in DOMAIN hist : hist[i] \in HistoryEntry
    /\ cur \in DOMAIN hist /\ shown \in Href
    /\ \A i \in DOMAIN stack : stack[i].ov \in Overlays /\ stack[i].id \in 1..seq
                               /\ stack[i].href \in Href
    /\ closing \subseteq 1..seq /\ seq \in 0..MaxIds
    /\ \A i \in DOMAIN queue : queue[i] \in {-1, 1}

\* Overlays close in the order Back expects: the stack's ids increase, so the
\* comparison "marker < top.id" tells Back from Forward.
StackOrdered == \A i, j \in DOMAIN stack : i < j => stack[i].id < stack[j].id

\* While an overlay is open and nothing is under way, the history entry shown
\* is the top overlay's own: the next Back closes it and leaves the page alone.
\* An overlay removed from between two others leaves its entry there, which
\* costs a Back of its own; then too Back reaches the top overlay before it
\* reaches a page.
BackClosesTop ==
    Quiet /\ ~tangled /\ stack # <<>> =>
        /\ ~buried => currentMarker = Top.id
        /\ \E k \in 1..cur : hist[k].marker = Top.id /\ \A m \in k..cur : hist[m].marker # 0

\* Overlays closed by their own buttons, in any order or several at once,
\* leave no entry of theirs to rest on: a Back of the user is not spent on an
\* entry that closes and changes nothing.  (A Back that closes an overlay
\* returns before the stale entry below it is looked at.)
NoStaleEntry ==
    Quiet /\ ~tangled /\ ~traversed /\ currentMarker > seeded =>
        InStack(stack, currentMarker)

\* Closing an overlay, by Back or by unwinding its entry, never changes the
\* page or the filters shown: "URL replaced while an overlay was open must
\* survive leaving the overlay entry".
ClosingKeepsUrl ==
    [][ (PopTop \/ PopRefused \/ (PopOther /\ ownPops # <<>>)) /\ ~tangled
        => shown' = shown ]_vars

\* Every stack position has an entry at or below the one shown: Back never has
\* an overlay to close and no entry of its own to leave.
EntryPerOverlay ==
    Quiet /\ ~tangled =>
        \A i \in DOMAIN stack : \E k \in 1..cur : hist[k].marker = stack[i].id

\* The stack of open overlays and the history entries they own mirror each
\* other: in order, and each with its entry below the one shown.
EntriesMatchStack == TypeOK /\ StackOrdered /\ EntryPerOverlay
=============================================================================
