------------------------ MODULE OverlayHistoryProofs ------------------------
(***************************************************************************)
(* Back and the overlays, for any overlays, pages and queries, any number  *)
(* of history entries and of things the user does.                         *)
(***************************************************************************)
EXTENDS OverlayHistory, SequenceTheorems, TLAPS

(* Histories and stacks *)

Histories == Seq([href : Href, marker : Nat])
Stacks == Seq([ov : Overlays, id : Nat, href : Href])

\* Ids grow up the history and up the stack.
MarkersGrow(h, q) ==
    /\ \A k \in 1..Len(h) : h[k].marker <= q
    /\ \A j, k \in 1..Len(h) : j < k /\ h[j].marker # 0 /\ h[k].marker # 0
                              => h[j].marker < h[k].marker

StackGrows(s, q) ==
    /\ \A i \in 1..Len(s) : s[i].id \in 1..q
    /\ \A i, j \in 1..Len(s) : i < j => s[i].id < s[j].id

\* Every overlay has its entry at or below the c-th, with the same URL.
Mirrors(h, s, c) ==
    \A i \in 1..Len(s) :
        /\ \E k \in 1..c : h[k].marker = s[i].id
        /\ \A k \in 1..Len(h) : h[k].marker = s[i].id => s[i].href = h[k].href

\* No page lies over the i-th overlay.
Clear(h, s, i) ==
    \A j, k \in 1..Len(h) : h[j].marker = s[i].id /\ j < k => h[k].marker # 0

\* Between an overlay that stays and the c-th entry there are entries of the
\* stack only.
PackedBelow(h, s, cl, c) ==
    \A i \in 1..Len(s) : s[i].id \notin cl =>
        \A j, k \in 1..Len(h) :
            h[j].marker = s[i].id /\ j < k /\ k < c => InStack(s, h[k].marker)

(* Always *)

Typed ==
    /\ hist \in Histories /\ cur \in 1..Len(hist)
    /\ stack \in Stacks /\ queue \in Seq({-1, 1}) /\ ownPops \in Seq(Href)
    /\ seq \in 0..MaxIds /\ seeded \in 0..seq /\ closing \subseteq 1..seq /\ shown \in Href

\* The router shows the entry the browser is on; the app was opened on a page.
OnPage == shown = hist[cur].href /\ hist[1].marker = 0

\* Before the first overlay of a page load nothing listens.
NotInstalled == ~installed => stack = <<>> /\ ownPops = <<>> /\ closing = {} /\ seq = seeded

Always == Typed /\ MarkersGrow(hist, seq) /\ StackGrows(stack, seq) /\ OnPage /\ NotInstalled

(* While nothing got tangled *)

\* No page was opened over an overlay that stays; nor over any, while a
\* traversal of the user's is under way.
Uncovered ==
    \A i \in 1..Len(stack) :
        stack[i].id \notin closing \/ Len(queue) > Len(ownPops) => Clear(hist, stack, i)

\* A URL to restore is the one shown, and the entry to leave is no overlay's.
OwnPop ==
    /\ Len(ownPops) <= Len(queue)
    /\ ownPops # <<>> => /\ ownPops = <<shown>>
                         /\ currentMarker # 0 /\ ~InStack(stack, currentMarker)

\* An overlay that Back took off the stack, and whose timer is still set, left
\* its entry ahead.
LeftAhead ==
    \A id \in closing : ~InStack(stack, id) => \A k \in 1..cur : hist[k].marker # id

\* Only the user goes forward, can, and did not just close an overlay.
Ahead ==
    /\ queue # <<>> /\ Head(queue) = 1 =>
         /\ cur < Len(hist) /\ Len(queue) > Len(ownPops)
         /\ \A id \in closing : InStack(stack, id)
    /\ \A i \in 2..Len(queue) : queue[i] = -1

\* Below the top overlay.
Packed ==
    \A m \in 1..Len(hist) : stack # <<>> /\ hist[m].marker = Top.id
                           => PackedBelow(hist, stack, closing, m)

Stays == \E i \in 1..Len(stack) : stack[i].id \notin closing

\* Between traversals the top overlay is the one shown, if any is to stay.
OnTop == queue = <<>> /\ Stays => currentMarker = Top.id

\* A user who only uses the overlays' own buttons.
ByButtons ==
    /\ Len(queue) = Len(ownPops)
    /\ queue = <<>> /\ currentMarker > seeded => InStack(stack, currentMarker)

Untangled ==
    /\ Mirrors(hist, stack, cur) /\ Uncovered /\ OwnPop /\ LeftAhead /\ Ahead
    /\ ~buried => Packed /\ OnTop
    /\ ~traversed => ByButtons

OverlayInv == Always /\ (~tangled => Untangled)

-----------------------------------------------------------------------------
(* What the helpers do *)

LEMMA Less == \A i, j \in Nat : i < j => ~(j <= i) /\ ~(j < i) /\ i # j
OBVIOUS

LEMMA Prefix ==
  ASSUME NEW S, NEW s \in Seq(S), NEW n \in 0..Len(s)
  PROVE  /\ SubSeq(s, 1, n) \in Seq(S) /\ Len(SubSeq(s, 1, n)) = n
         /\ \A i \in 1..n : SubSeq(s, 1, n)[i] = s[i]
<1>1. Len(s) \in Nat /\ n \in Nat /\ \A i \in 1..n : s[i] \in S
  BY LenProperties
<1>2. /\ SubSeq(s, 1, n) \in Seq(S)
      /\ Len(SubSeq(s, 1, n)) = IF 1 <= n THEN n - 1 + 1 ELSE 0
      /\ \A i \in 1..(n - 1 + 1) : SubSeq(s, 1, n)[i] = s[1 + i - 1]
  BY <1>1, SubSeqProperties
<1> QED BY <1>1, <1>2

LEMMA Suffix ==
  ASSUME NEW S, NEW s \in Seq(S), NEW m \in 1..Len(s)
  PROVE  /\ SubSeq(s, m + 1, Len(s)) \in Seq(S)
         /\ Len(SubSeq(s, m + 1, Len(s))) = Len(s) - m
         /\ \A i \in 1..(Len(s) - m) : SubSeq(s, m + 1, Len(s))[i] = s[m + i]
<1>1. Len(s) \in Nat /\ m + 1 \in Int /\ \A i \in (m + 1)..Len(s) : s[i] \in S
  BY LenProperties
<1>2. /\ SubSeq(s, m + 1, Len(s)) \in Seq(S)
      /\ Len(SubSeq(s, m + 1, Len(s))) = IF m + 1 <= Len(s) THEN Len(s) - (m + 1) + 1 ELSE 0
      /\ \A i \in 1..(Len(s) - (m + 1) + 1) : SubSeq(s, m + 1, Len(s))[i] = s[(m + 1) + i - 1]
  BY <1>1, SubSeqProperties
<1> QED BY <1>1, <1>2

LEMMA PushedIs ==
  ASSUME NEW h \in Histories, NEW c \in 1..Len(h), NEW e \in [href : Href, marker : Nat]
  PROVE  /\ Pushed(h, c, e) \in Histories /\ Len(Pushed(h, c, e)) = c + 1
         /\ \A k \in 1..c : Pushed(h, c, e)[k] = h[k]
         /\ Pushed(h, c, e)[c + 1] = e
<1>1. c \in 0..Len(h) /\ c \in Nat
  BY LenProperties DEF Histories
<1>2. /\ SubSeq(h, 1, c) \in Histories /\ Len(SubSeq(h, 1, c)) = c
      /\ \A k \in 1..c : SubSeq(h, 1, c)[k] = h[k]
  BY <1>1, Prefix DEF Histories
<1> QED BY <1>1, <1>2, AppendProperties DEF Pushed, Histories

LEMMA AppendIs ==
  ASSUME NEW s \in Stacks, NEW e \in [ov : Overlays, id : Nat, href : Href]
  PROVE  /\ Append(s, e) \in Stacks /\ Len(Append(s, e)) = Len(s) + 1
         /\ \A i \in 1..Len(s) : Append(s, e)[i] = s[i]
         /\ Append(s, e)[Len(s) + 1] = e
         /\ Len(s) \in Nat
BY AppendProperties, LenProperties DEF Stacks

LEMMA FrontIs ==
  ASSUME NEW s \in Stacks, s # <<>>
  PROVE  /\ Front(s) \in Stacks /\ Len(Front(s)) = Len(s) - 1
         /\ \A i \in 1..(Len(s) - 1) : Front(s)[i] = s[i]
         /\ Len(s) \in Nat \ {0}
<1>1. Len(s) \in Nat \ {0} /\ Len(s) - 1 \in 0..Len(s)
  BY EmptySeq, LenProperties DEF Stacks
<1> QED BY <1>1, Prefix DEF Front, Stacks

LEMMA RemoveAtIs ==
  ASSUME NEW s \in Stacks, NEW i \in 1..Len(s)
  PROVE  /\ RemoveAt(s, i) \in Stacks /\ Len(RemoveAt(s, i)) = Len(s) - 1
         /\ \A j \in 1..(i - 1) : RemoveAt(s, i)[j] = s[j]
         /\ \A j \in i..(Len(s) - 1) : RemoveAt(s, i)[j] = s[j + 1]
         /\ Len(s) \in Nat \ {0}
<1>1. Len(s) \in Nat \ {0} /\ i \in Nat /\ i - 1 \in 0..Len(s)
  BY LenProperties DEF Stacks
<1> DEFINE a == SubSeq(s, 1, i - 1)
           b == SubSeq(s, i + 1, Len(s))
<1>2. a \in Stacks /\ Len(a) = i - 1 /\ \A j \in 1..(i - 1) : a[j] = s[j]
  BY <1>1, Prefix DEF Stacks
<1>3. b \in Stacks /\ Len(b) = Len(s) - i /\ \A j \in 1..(Len(s) - i) : b[j] = s[i + j]
  BY <1>1, Suffix DEF Stacks
<1> HIDE DEF a, b
<1>4. /\ a \o b \in Stacks /\ Len(a \o b) = Len(a) + Len(b)
      /\ \A j \in 1..(Len(a) + Len(b)) : (a \o b)[j] = IF j <= Len(a) THEN a[j] ELSE b[j - Len(a)]
  BY <1>2, <1>3, ConcatProperties DEF Stacks
<1>5. Len(a) + Len(b) = Len(s) - 1
  BY <1>1, <1>2, <1>3
<1>6. \A j \in 1..(i - 1) : (a \o b)[j] = s[j]
  BY <1>1, <1>2, <1>4, <1>5
<1>7. \A j \in i..(Len(s) - 1) : (a \o b)[j] = s[j + 1]
  <2> TAKE j \in i..(Len(s) - 1)
  <2>1. (a \o b)[j] = b[j - (i - 1)]
    BY <1>1, <1>2, <1>4, <1>5
  <2>2. j - (i - 1) \in 1..(Len(s) - i) /\ i + (j - (i - 1)) = j + 1
    BY <1>1
  <2> QED BY <1>3, <2>1, <2>2
<1> QED BY <1>1, <1>4, <1>5, <1>6, <1>7 DEF RemoveAt, a, b

\* carryUrl writes one URL into one entry and into the overlay that owns it.
OneCarried(h, s, c, u, n) ==
    /\ n.hist \in Histories /\ Len(n.hist) = Len(h) /\ n.hist[c].href = u
    /\ \A k \in 1..Len(h) : /\ n.hist[k].marker = h[k].marker
                            /\ k # c => n.hist[k] = h[k]
    /\ n.stack \in Stacks /\ Len(n.stack) = Len(s)
    /\ \A i \in 1..Len(s) : /\ n.stack[i].id = s[i].id /\ n.stack[i].ov = s[i].ov
                            /\ s[i].id # h[c].marker => n.stack[i] = s[i]
                            /\ s[i].id = h[c].marker =>
                                 n.stack[i].href = u \/ (h[c].href = u /\ n.stack[i] = s[i])

LEMMA CarryIs ==
  ASSUME NEW h \in Histories, NEW s \in Stacks, NEW c \in 1..Len(h), NEW u \in Href,
         NEW n, n = CarryUrl(h, s, c, u)
  PROVE  OneCarried(h, s, c, u, n)
<1>1. CASE h[c].href = u
  BY <1>1 DEF CarryUrl, OneCarried
<1>2. CASE h[c].href # u
  <2> DEFINE hh == [h EXCEPT ![c].href = u]
             g == [i \in DOMAIN s |-> IF s[i].id = h[c].marker THEN [s[i] EXCEPT !.href = u] ELSE s[i]]
  <2>1. n.hist = hh /\ n.stack = g
    BY <1>2 DEF CarryUrl
  <2>2. h[c] \in [href : Href, marker : Nat] /\ DOMAIN h = 1..Len(h) /\ Len(h) \in Nat
    BY LenProperties DEF Histories
  <2>3. \A i \in 1..Len(s) : s[i] \in [ov : Overlays, id : Nat, href : Href]
    BY LenProperties DEF Stacks
  <2>4. DOMAIN s = 1..Len(s) /\ Len(s) \in Nat
    BY LenProperties DEF Stacks
  <2> DEFINE e == [h[c] EXCEPT !.href = u]
  <2>5. e \in [href : Href, marker : Nat] /\ e.href = u /\ e.marker = h[c].marker
    BY <2>2
  <2>6. hh = [h EXCEPT ![c] = e]
    OBVIOUS
  <2> HIDE DEF e
  <2>7. /\ hh \in Histories /\ Len(hh) = Len(h)
        /\ \A k \in 1..Len(h) : hh[k] = IF k = c THEN e ELSE h[k]
    <3> HIDE DEF hh
    <3> QED BY <2>2, <2>5, <2>6, ExceptSeq DEF Histories
  <2>8. \A i \in 1..Len(s) : g[i] \in [ov : Overlays, id : Nat, href : Href]
    BY <2>3, <2>4
  <2>9. g \in Stacks /\ Len(g) = Len(s)
    <3>1. g \in [1..Len(s) -> [ov : Overlays, id : Nat, href : Href]]
      BY <2>4, <2>8
    <3> HIDE DEF g
    <3> QED BY <2>4, <3>1 DEF Stacks
  <2>10. \A i \in 1..Len(s) : /\ g[i].id = s[i].id /\ g[i].ov = s[i].ov
                              /\ s[i].id # h[c].marker => g[i] = s[i]
                              /\ s[i].id = h[c].marker => g[i].href = u
    <3> TAKE i \in 1..Len(s)
    <3>1. CASE s[i].id = h[c].marker
      <4>1. g[i] = [s[i] EXCEPT !.href = u]
        BY <2>4, <3>1
      <4> HIDE DEF g
      <4> QED BY <2>3, <3>1, <4>1
    <3>2. CASE s[i].id # h[c].marker
      BY <2>4, <3>2
    <3> QED BY <3>1, <3>2
  <2> HIDE DEF hh, g
  <2> QED BY <2>1, <2>5, <2>7, <2>9, <2>10 DEF OneCarried
<1> QED BY <1>1, <1>2

-----------------------------------------------------------------------------
(* What they keep *)

LEMMA Sizes ==
  ASSUME NEW h \in Histories, NEW s \in Stacks
  PROVE  /\ Len(h) \in Nat /\ DOMAIN h = 1..Len(h)
         /\ \A k \in 1..Len(h) : h[k].marker \in Nat /\ h[k].href \in Href /\ h[k] \in [href : Href, marker : Nat]
         /\ Len(s) \in Nat /\ DOMAIN s = 1..Len(s)
         /\ \A i \in 1..Len(s) : s[i].ov \in Overlays /\ s[i].id \in Nat /\ s[i].href \in Href
<1>1. \A k \in 1..Len(h) : h[k] \in [href : Href, marker : Nat]
  BY ElementOfSeq DEF Histories
<1>2. \A i \in 1..Len(s) : s[i] \in [ov : Overlays, id : Nat, href : Href]
  BY ElementOfSeq DEF Stacks
<1>3. Len(h) \in Nat /\ DOMAIN h = 1..Len(h)
  BY LenProperties DEF Histories
<1>4. Len(s) \in Nat /\ DOMAIN s = 1..Len(s)
  BY LenProperties DEF Stacks
<1> QED BY <1>1, <1>2, <1>3, <1>4

LEMMA InStackIs ==
  ASSUME NEW s \in Stacks, NEW m
  PROVE  InStack(s, m) <=> \E i \in 1..Len(s) : s[i].id = m
BY LenProperties DEF Stacks, InStack

CarryKept(h, s, q, n) ==
    /\ MarkersGrow(n.hist, q) /\ StackGrows(n.stack, q)
    /\ \A d \in 1..Len(h) : Mirrors(h, s, d) => Mirrors(n.hist, n.stack, d)
    /\ \A i \in 1..Len(s) : Clear(h, s, i) => Clear(n.hist, n.stack, i)
    /\ \A cl, d : PackedBelow(h, s, cl, d) => PackedBelow(n.hist, n.stack, cl, d)
    /\ \A m : InStack(n.stack, m) <=> InStack(s, m)

LEMMA CarryKeeps ==
  ASSUME NEW h \in Histories, NEW s \in Stacks, NEW c \in 1..Len(h), NEW u \in Href,
         NEW n, n = CarryUrl(h, s, c, u), NEW q \in Nat, MarkersGrow(h, q), StackGrows(s, q)
  PROVE  CarryKept(h, s, q, n)
<1>1. /\ n.hist \in Histories /\ Len(n.hist) = Len(h) /\ n.hist[c].href = u
      /\ \A k \in 1..Len(h) : /\ n.hist[k].marker = h[k].marker
                              /\ k # c => n.hist[k] = h[k]
      /\ n.stack \in Stacks /\ Len(n.stack) = Len(s)
      /\ \A i \in 1..Len(s) : /\ n.stack[i].id = s[i].id /\ n.stack[i].ov = s[i].ov
                              /\ s[i].id # h[c].marker => n.stack[i] = s[i]
                              /\ s[i].id = h[c].marker =>
                                   n.stack[i].href = u \/ (h[c].href = u /\ n.stack[i] = s[i])
  <2>1. OneCarried(h, s, c, u, n)
    BY CarryIs
  <2> QED BY <2>1 DEF OneCarried
<1>2. Len(h) \in Nat /\ Len(s) \in Nat
  BY Sizes
<1>3. MarkersGrow(n.hist, q)
  BY <1>1 DEF MarkersGrow
<1>4. StackGrows(n.stack, q)
  BY <1>1, SMTT(30) DEF StackGrows
<1>5. ASSUME NEW d \in 1..Len(h), Mirrors(h, s, d) PROVE Mirrors(n.hist, n.stack, d)
  <2> SUFFICES ASSUME NEW i \in 1..Len(s)
               PROVE  /\ \E k \in 1..d : n.hist[k].marker = n.stack[i].id
                      /\ \A k \in 1..Len(h) : n.hist[k].marker = n.stack[i].id
                                              => n.stack[i].href = n.hist[k].href
    BY <1>1 DEF Mirrors
  <2>1. \E k \in 1..d : n.hist[k].marker = n.stack[i].id
    <3> PICK k \in 1..d : h[k].marker = s[i].id
      BY <1>5 DEF Mirrors
    <3> QED BY <1>1, <1>2
  <2>2. ASSUME NEW k \in 1..Len(h), h[k].marker = s[i].id PROVE n.stack[i].href = n.hist[k].href
    <3>1. s[i].href = h[k].href /\ s[i].id # 0
      BY <1>5, <2>2 DEF Mirrors, StackGrows
    <3>2. CASE k = c
      BY <1>1, <2>2, <3>1, <3>2
    <3>3. CASE k # c
      <4>1. h[k].marker # h[c].marker
        <5>1. k < c \/ c < k
          BY <1>2, <3>3
        <5>2. h[k].marker \in Nat /\ h[c].marker \in Nat
          BY Sizes
        <5> QED BY <2>2, <3>1, <5>1, <5>2 DEF MarkersGrow
      <4> QED BY <1>1, <2>2, <3>1, <3>3, <4>1
    <3> QED BY <3>2, <3>3
  <2> QED BY <1>1, <2>1, <2>2
<1>6. ASSUME NEW i \in 1..Len(s), Clear(h, s, i) PROVE Clear(n.hist, n.stack, i)
  BY <1>1, <1>6, SMTT(30) DEF Clear
<1>7. \A m : InStack(n.stack, m) <=> InStack(s, m)
  BY <1>1, InStackIs
<1>8. ASSUME NEW cl, NEW d, PackedBelow(h, s, cl, d) PROVE PackedBelow(n.hist, n.stack, cl, d)
  <2> SUFFICES ASSUME NEW i \in 1..Len(s), s[i].id \notin cl,
                      NEW j \in 1..Len(h), NEW k \in 1..Len(h),
                      h[j].marker = s[i].id, j < k, k < d
               PROVE  InStack(n.stack, h[k].marker)
    BY <1>1, SMTT(30) DEF PackedBelow
  <2> QED BY <1>7, <1>8 DEF PackedBelow
<1> QED BY <1>3, <1>4, <1>5, <1>6, <1>7, <1>8 DEF CarryKept

LEMMA PackedLower ==
  ASSUME NEW h, NEW s, NEW c, NEW m, \A k \in 1..Len(h) : k < m => k < c
  PROVE  \A cl : PackedBelow(h, s, cl, c) => PackedBelow(h, s, cl, m)
BY DEF PackedBelow

LEMMA FrontGrows ==
  ASSUME NEW s \in Stacks, s # <<>>, NEW q \in Nat, StackGrows(s, q)
  PROVE  StackGrows(Front(s), q)
<1>1. /\ Len(Front(s)) = Len(s) - 1 /\ Len(s) \in Nat \ {0}
      /\ \A i \in 1..(Len(s) - 1) : Front(s)[i] = s[i] /\ i \in 1..Len(s)
  BY FrontIs
<1> QED BY <1>1 DEF StackGrows

\* The top overlay is off the stack, and its entry the c-th.
TopTaken(h, s, c, q) ==
    /\ StackGrows(Front(s), q) /\ Mirrors(h, Front(s), c - 1)
    /\ \A i \in 1..Len(Front(s)) : Clear(h, s, i) => Clear(h, Front(s), i)
    /\ \A m : InStack(Front(s), m) <=> InStack(s, m) /\ m # h[c].marker
    /\ \A cl, d : cl \subseteq d /\ PackedBelow(h, s, cl, c) => PackedBelow(h, Front(s), d, c)

LEMMA FrontKeeps ==
  ASSUME NEW h \in Histories, NEW s \in Stacks, s # <<>>, NEW c \in 1..Len(h), NEW q \in Nat,
         MarkersGrow(h, q), StackGrows(s, q), Mirrors(h, s, c), h[c].marker = s[Len(s)].id
  PROVE  TopTaken(h, s, c, q)
<1>1. /\ Front(s) \in Stacks /\ Len(Front(s)) = Len(s) - 1 /\ Len(s) \in Nat \ {0}
      /\ \A i \in 1..(Len(s) - 1) : Front(s)[i] = s[i]
  BY FrontIs
<1>2. /\ Len(h) \in Nat
      /\ \A k \in 1..Len(h) : h[k].marker \in Nat
      /\ \A i \in 1..Len(s) : s[i].id \in Nat \ {0}
  BY Sizes DEF StackGrows
<1>3. StackGrows(Front(s), q)
  BY <1>1 DEF StackGrows
<1>4. \A i \in 1..(Len(s) - 1) : s[i].id < h[c].marker
  BY <1>1 DEF StackGrows
<1>5. Mirrors(h, Front(s), c - 1)
  <2> SUFFICES ASSUME NEW i \in 1..(Len(s) - 1)
               PROVE  /\ \E k \in 1..(c - 1) : h[k].marker = s[i].id
                      /\ \A k \in 1..Len(h) : h[k].marker = s[i].id => s[i].href = h[k].href
    BY <1>1 DEF Mirrors
  <2>1. i \in 1..Len(s)
    BY <1>1
  <2> PICK k \in 1..c : h[k].marker = s[i].id
    BY <2>1 DEF Mirrors
  <2>2. k # c
    <3>1. s[i].id \in Nat /\ h[c].marker \in Nat /\ s[i].id < h[c].marker
      BY <1>2, <1>4, <2>1
    <3> QED BY <3>1, Less
  <2> QED BY <1>2, <2>1, <2>2 DEF Mirrors
<1>6. \A i \in 1..Len(Front(s)) : Clear(h, s, i) => Clear(h, Front(s), i)
  BY <1>1 DEF Clear
<1>7. \A m : InStack(Front(s), m) <=> InStack(s, m) /\ m # h[c].marker
  <2> TAKE m
  <2>1. InStack(Front(s), m) <=> \E i \in 1..(Len(s) - 1) : s[i].id = m
    BY <1>1, InStackIs, SMTT(30)
  <2>2. InStack(s, m) <=> \E i \in 1..Len(s) : s[i].id = m
    BY InStackIs
  <2>3. \A i \in 1..Len(s) : i \in 1..(Len(s) - 1) \/ i = Len(s)
    BY <1>1
  <2>4. \A i \in 1..(Len(s) - 1) : i \in 1..Len(s) /\ s[i].id # h[c].marker
    BY <1>1, <1>2, <1>4
  <2> QED BY <2>1, <2>2, <2>3, <2>4
<1>8. ASSUME NEW cl, NEW d, cl \subseteq d, PackedBelow(h, s, cl, c)
      PROVE  PackedBelow(h, Front(s), d, c)
  <2> SUFFICES ASSUME NEW i \in 1..(Len(s) - 1), s[i].id \notin d,
                      NEW j \in 1..Len(h), NEW k \in 1..Len(h),
                      h[j].marker = s[i].id, j < k, k < c
               PROVE  InStack(Front(s), h[k].marker)
    BY <1>1 DEF PackedBelow
  <2>1. i \in 1..Len(s) /\ s[i].id \notin cl
    BY <1>1, <1>8
  <2>2. InStack(s, h[k].marker)
    BY <1>8, <2>1 DEF PackedBelow
  <2>3. h[k].marker # h[c].marker
    <3>1. h[k].marker # 0
      BY <1>2, <2>2, InStackIs
    <3>2. h[c].marker # 0
      BY <1>1, <1>2
    <3> QED BY <1>2, <3>1, <3>2 DEF MarkersGrow
  <2> QED BY <1>7, <2>2, <2>3
<1> QED BY <1>3, <1>5, <1>6, <1>7, <1>8 DEF TopTaken

\* g and t are the history h and the stack s with one more entry and overlay.
OnePushed(h, s, c, q, e, x, g, t) ==
    /\ g \in Histories /\ Len(g) = c + 1 /\ g[1] = h[1] /\ g[c + 1] = e
    /\ t \in Stacks /\ Len(t) = Len(s) + 1 /\ t # <<>> /\ t[Len(t)] = x
    /\ MarkersGrow(g, q + 1) /\ StackGrows(t, q + 1) /\ (Mirrors(h, s, c) => Mirrors(g, t, c + 1))
    /\ \A i \in 1..Len(s) : t[i] = s[i] /\ (Clear(h, s, i) => Clear(g, t, i))
    /\ Clear(g, t, Len(s) + 1)
    /\ \A cl : PackedBelow(h, s, cl, c + 1) => PackedBelow(g, t, cl, c + 1)

LEMMA PushKeeps ==
  ASSUME NEW h \in Histories, NEW s \in Stacks, NEW c \in 1..Len(h), NEW q \in Nat,
         MarkersGrow(h, q), StackGrows(s, q),
         NEW e \in [href : Href, marker : Nat], e.marker = q + 1,
         NEW x \in [ov : Overlays, id : Nat, href : Href], x.id = q + 1, x.href = e.href,
         NEW g, g = Pushed(h, c, e), NEW t, t = Append(s, x)
  PROVE  OnePushed(h, s, c, q, e, x, g, t)
<1>1. /\ g \in Histories /\ Len(g) = c + 1 /\ g[c + 1] = e
      /\ \A k \in 1..c : g[k] = h[k]
  BY PushedIs
<1>2. /\ t \in Stacks /\ Len(t) = Len(s) + 1 /\ t[Len(s) + 1] = x
      /\ \A i \in 1..Len(s) : t[i] = s[i]
  BY AppendIs
<1>3. /\ Len(h) \in Nat /\ Len(s) \in Nat /\ c \in Nat \ {0}
      /\ \A k \in 1..Len(h) : h[k].marker \in Nat
      /\ \A i \in 1..Len(s) : s[i].id \in 1..q
  BY Sizes DEF StackGrows
<1>4. t # <<>> /\ t[Len(t)] = x /\ g[1] = h[1]
  BY <1>1, <1>2, <1>3
<1>5. MarkersGrow(g, q + 1)
  <2>1. \A k \in 1..(c + 1) : k \in 1..c \/ k = c + 1
    BY <1>3
  <2>2. \A k \in 1..c : k \in 1..Len(h) /\ h[k].marker <= q
    BY <1>3 DEF MarkersGrow
  <2>3. \A k \in 1..(c + 1) : g[k].marker <= q + 1
    <3> TAKE k \in 1..(c + 1)
    <3>1. CASE k \in 1..c
      <4>1. h[k].marker \in Nat /\ h[k].marker <= q /\ g[k] = h[k]
        BY <1>1, <1>3, <2>2, <3>1
      <4> QED BY <4>1
    <3>2. CASE k = c + 1
      BY <1>1, <3>2
    <3> QED BY <2>1, <3>1, <3>2
  <2>4. \A j, k \in 1..(c + 1) : j < k /\ g[j].marker # 0 /\ g[k].marker # 0 => g[j].marker < g[k].marker
    <3> SUFFICES ASSUME NEW j \in 1..(c + 1), NEW k \in 1..(c + 1), j < k, g[j].marker # 0, g[k].marker # 0
                 PROVE  g[j].marker < g[k].marker
      OBVIOUS
    <3>1. j \in 1..c
      BY <1>3
    <3>2. CASE k \in 1..c
      BY <1>1, <2>2, <3>1, <3>2 DEF MarkersGrow
    <3>3. CASE k = c + 1
      BY <1>1, <1>3, <2>2, <3>1, <3>3
    <3> QED BY <2>1, <3>2, <3>3
  <2> QED BY <1>1, <2>3, <2>4 DEF MarkersGrow
<1>6. StackGrows(t, q + 1)
  <2>1. \A i \in 1..(Len(s) + 1) : i \in 1..Len(s) \/ i = Len(s) + 1
    BY <1>3
  <2>2. \A i \in 1..(Len(s) + 1) : t[i].id \in 1..(q + 1)
    BY <1>2, <1>3, <2>1
  <2>3. \A i, j \in 1..(Len(s) + 1) : i < j => t[i].id < t[j].id
    <3> SUFFICES ASSUME NEW i \in 1..(Len(s) + 1), NEW j \in 1..(Len(s) + 1), i < j
                 PROVE  t[i].id < t[j].id
      OBVIOUS
    <3>1. i \in 1..Len(s)
      BY <1>3
    <3>2. CASE j \in 1..Len(s)
      BY <1>2, <3>1, <3>2 DEF StackGrows
    <3>3. CASE j = Len(s) + 1
      BY <1>2, <1>3, <3>1, <3>3
    <3> QED BY <2>1, <3>2, <3>3
  <2> QED BY <1>2, <2>2, <2>3 DEF StackGrows
<1>7. ASSUME Mirrors(h, s, c) PROVE Mirrors(g, t, c + 1)
  <2> SUFFICES ASSUME NEW i \in 1..(Len(s) + 1)
               PROVE  /\ \E k \in 1..(c + 1) : g[k].marker = t[i].id
                      /\ \A k \in 1..(c + 1) : g[k].marker = t[i].id => t[i].href = g[k].href
    BY <1>1, <1>2 DEF Mirrors
  <2>1. \A k \in 1..(c + 1) : (k \in 1..c /\ k \in 1..Len(h)) \/ k = c + 1
    BY <1>3
  <2>2. CASE i \in 1..Len(s)
    <3>1. \E k \in 1..c : h[k].marker = s[i].id
      BY <1>7, <2>2 DEF Mirrors
    <3>2. \E k \in 1..(c + 1) : g[k].marker = t[i].id
      BY <1>1, <1>2, <1>3, <2>2, <3>1
    <3>3. ASSUME NEW k \in 1..(c + 1), g[k].marker = t[i].id PROVE t[i].href = g[k].href
      <4>1. t[i] = s[i] /\ s[i].id \in 1..q
        BY <1>2, <1>3, <2>2
      <4>2. k \in 1..c /\ k \in 1..Len(h)
        BY <1>1, <1>3, <2>1, <3>3, <4>1
      <4> QED BY <1>1, <1>7, <2>2, <3>3, <4>1, <4>2 DEF Mirrors
    <3> QED BY <3>2, <3>3
  <2>3. CASE i = Len(s) + 1
    <3>1. c + 1 \in 1..(c + 1) /\ g[c + 1].marker = t[i].id
      BY <1>1, <1>2, <1>3, <2>3
    <3>2. ASSUME NEW k \in 1..(c + 1), g[k].marker = t[i].id PROVE t[i].href = g[k].href
      <4>1. k = c + 1
        <5> SUFFICES ASSUME k \in 1..c, k \in 1..Len(h) PROVE FALSE
          BY <2>1
        <5>1. g[k].marker <= q
          BY <1>1 DEF MarkersGrow
        <5> QED BY <1>2, <1>1, <1>3, <2>3, <3>2, <5>1
      <4> QED BY <1>1, <1>2, <2>3, <4>1
    <3> QED BY <3>1, <3>2
  <2> QED BY <1>3, <2>2, <2>3
<1>8. ASSUME NEW i \in 1..Len(s), Clear(h, s, i) PROVE Clear(g, t, i)
  <2> SUFFICES ASSUME NEW j \in 1..(c + 1), NEW k \in 1..(c + 1), g[j].marker = t[i].id, j < k
               PROVE  g[k].marker # 0
    BY <1>1 DEF Clear
  <2>1. j \in 1..c /\ j \in 1..Len(h) /\ t[i] = s[i]
    BY <1>2, <1>3
  <2>2. CASE k = c + 1
    BY <1>1, <1>3, <2>2
  <2>3. CASE k \in 1..c
    <3>1. k \in 1..Len(h)
      BY <1>3, <2>3
    <3> QED BY <1>1, <1>8, <2>1, <2>3, <3>1 DEF Clear
  <2> QED BY <1>3, <2>2, <2>3
<1>9. Clear(g, t, Len(s) + 1)
  <2> SUFFICES ASSUME NEW j \in 1..(c + 1), NEW k \in 1..(c + 1), g[j].marker = q + 1, j < k
               PROVE  g[k].marker # 0
    BY <1>1, <1>2 DEF Clear
  <2>1. j \in 1..c /\ j \in 1..Len(h)
    BY <1>3
  <2>2. g[j].marker <= q
    BY <1>1, <2>1 DEF MarkersGrow
  <2> QED BY <1>1, <1>3, <2>1, <2>2
<1>10. ASSUME NEW cl, PackedBelow(h, s, cl, c + 1) PROVE PackedBelow(g, t, cl, c + 1)
  <2> SUFFICES ASSUME NEW i \in 1..(Len(s) + 1), t[i].id \notin cl,
                      NEW j \in 1..(c + 1), NEW k \in 1..(c + 1), g[j].marker = t[i].id, j < k, k < c + 1
               PROVE  InStack(t, g[k].marker)
    BY <1>1, <1>2 DEF PackedBelow
  <2>1. j \in 1..c /\ k \in 1..c /\ j \in 1..Len(h) /\ k \in 1..Len(h)
    BY <1>3
  <2>2. i \in 1..Len(s)
    <3>1. g[j].marker <= q
      BY <1>1, <2>1 DEF MarkersGrow
    <3>2. i # Len(s) + 1
      BY <1>1, <1>2, <1>3, <2>1, <3>1
    <3> QED BY <1>3, <3>2
  <2>3. InStack(s, h[k].marker)
    BY <1>1, <1>2, <1>10, <2>1, <2>2 DEF PackedBelow
  <2>4. PICK l \in 1..Len(s) : s[l].id = h[k].marker
    BY <2>3, InStackIs
  <2>5. l \in 1..Len(t) /\ t[l].id = g[k].marker
    BY <1>1, <1>2, <1>3, <2>1, <2>4
  <2> QED BY <1>2, <2>5, InStackIs
<1> QED BY <1>1, <1>2, <1>4, <1>5, <1>6, <1>7, <1>8, <1>9, <1>10 DEF OnePushed

\* t is the stack s without its i-th overlay.
OneRemoved(h, s, i, q, t) ==
    /\ t \in Stacks /\ Len(t) = Len(s) - 1 /\ Len(s) \in Nat \ {0}
    /\ StackGrows(t, q) /\ \A c : Mirrors(h, s, c) => Mirrors(h, t, c)
    /\ \A j \in 1..Len(t) : \E l \in 1..Len(s) : t[j] = s[l] /\ (Clear(h, s, l) => Clear(h, t, j))
    /\ \A m : InStack(t, m) <=> InStack(s, m) /\ m # s[i].id
    /\ t # <<>> => /\ i # Len(s) => t[Len(t)] = s[Len(s)]
                   /\ i = Len(s) => Len(s) - 1 \in 1..Len(s) /\ t[Len(t)] = s[Len(s) - 1]

LEMMA RemoveKeeps ==
  ASSUME NEW h \in Histories, NEW s \in Stacks, NEW i \in 1..Len(s), NEW q \in Nat,
         StackGrows(s, q), NEW t, t = RemoveAt(s, i)
  PROVE  OneRemoved(h, s, i, q, t)
<1> DEFINE from == [j \in 1..(Len(s) - 1) |-> IF j < i THEN j ELSE j + 1]
<1>1. /\ t \in Stacks /\ Len(t) = Len(s) - 1 /\ Len(s) \in Nat \ {0}
      /\ \A j \in 1..(i - 1) : t[j] = s[j]
      /\ \A j \in i..(Len(s) - 1) : t[j] = s[j + 1]
  BY RemoveAtIs
<1>2. \A j \in 1..(Len(s) - 1) : from[j] \in 1..Len(s) /\ from[j] # i /\ t[j] = s[from[j]]
  BY <1>1
<1>3. \A j, l \in 1..(Len(s) - 1) : j < l => from[j] < from[l]
  BY <1>1
<1>4. \A l \in 1..Len(s) : l # i => \E j \in 1..(Len(s) - 1) : from[j] = l
  <2> TAKE l \in 1..Len(s)
  <2> HAVE l # i
  <2>1. CASE l < i
    <3>1. l \in 1..(Len(s) - 1) /\ from[l] = l
      BY <1>1, <2>1
    <3> QED BY <3>1
  <2>2. CASE i < l
    <3>1. l - 1 \in 1..(Len(s) - 1) /\ from[l - 1] = l
      BY <1>1, <2>2
    <3> QED BY <3>1
  <2> QED BY <1>1, <2>1, <2>2
<1> HIDE DEF from
<1>5. StackGrows(t, q)
  <2>1. \A j \in 1..Len(t) : t[j].id \in 1..q
    BY <1>1, <1>2 DEF StackGrows
  <2>2. \A j, l \in 1..Len(t) : j < l => t[j].id < t[l].id
    <3> SUFFICES ASSUME NEW j \in 1..Len(t), NEW l \in 1..Len(t), j < l PROVE t[j].id < t[l].id
      OBVIOUS
    <3>1. from[j] \in 1..Len(s) /\ from[l] \in 1..Len(s) /\ from[j] < from[l]
      BY <1>1, <1>2, <1>3
    <3> QED BY <1>1, <1>2, <3>1, SMTT(30) DEF StackGrows
  <2> QED BY <2>1, <2>2 DEF StackGrows
<1>6. \A c : Mirrors(h, s, c) => Mirrors(h, t, c)
  <2> SUFFICES ASSUME NEW c, Mirrors(h, s, c), NEW j \in 1..Len(t)
               PROVE  /\ \E k \in 1..c : h[k].marker = t[j].id
                      /\ \A k \in 1..Len(h) : h[k].marker = t[j].id => t[j].href = h[k].href
    BY DEF Mirrors
  <2>1. from[j] \in 1..Len(s) /\ t[j] = s[from[j]]
    BY <1>1, <1>2
  <2> QED BY <2>1 DEF Mirrors
<1>7. \A j \in 1..Len(t) : \E l \in 1..Len(s) : t[j] = s[l] /\ (Clear(h, s, l) => Clear(h, t, j))
  BY <1>1, <1>2 DEF Clear
<1>8. \A m : InStack(t, m) <=> InStack(s, m) /\ m # s[i].id
  <2> TAKE m
  <2>1. InStack(t, m) <=> \E j \in 1..(Len(s) - 1) : t[j].id = m
    BY <1>1, InStackIs
  <2>2. InStack(s, m) <=> \E l \in 1..Len(s) : s[l].id = m
    BY InStackIs
  <2>3. \A l \in 1..Len(s) : l # i => s[l].id # s[i].id
    <3> TAKE l \in 1..Len(s)
    <3> HAVE l # i
    <3>1. l < i \/ i < l
      BY <1>1
    <3>2. s[l].id \in 1..q /\ s[i].id \in 1..q
      BY DEF StackGrows
    <3> QED BY <3>1, <3>2 DEF StackGrows
  <2>4. ASSUME InStack(t, m) PROVE InStack(s, m) /\ m # s[i].id
    <3>1. PICK j \in 1..(Len(s) - 1) : t[j].id = m
      BY <2>1, <2>4
    <3>2. from[j] \in 1..Len(s) /\ from[j] # i /\ s[from[j]].id = m
      BY <1>2, <3>1
    <3> QED BY <2>2, <2>3, <3>2
  <2>5. ASSUME InStack(s, m), m # s[i].id PROVE InStack(t, m)
    <3>1. PICK l \in 1..Len(s) : s[l].id = m
      BY <2>2, <2>5
    <3>2. PICK j \in 1..(Len(s) - 1) : from[j] = l
      BY <1>4, <2>5, <3>1
    <3> QED BY <1>2, <2>1, <3>1, <3>2
  <2> QED BY <2>4, <2>5
<1>9. t # <<>> => /\ i # Len(s) => t[Len(t)] = s[Len(s)]
                  /\ i = Len(s) => Len(s) - 1 \in 1..Len(s) /\ t[Len(t)] = s[Len(s) - 1]
  <2> HAVE t # <<>>
  <2>1. Len(t) \in Nat \ {0}
    BY <1>1, EmptySeq DEF Stacks
  <2> QED BY <1>1, <2>1
<1> QED BY <1>1, <1>5, <1>6, <1>7, <1>8, <1>9 DEF OneRemoved

-----------------------------------------------------------------------------
(* The steps *)

LEMMA StateIs ==
  ASSUME Always
  PROVE  /\ hist \in Histories /\ stack \in Stacks /\ Len(hist) \in Nat /\ cur \in 1..Len(hist) /\ cur \in Nat
         /\ seq \in Nat /\ MarkersGrow(hist, seq) /\ StackGrows(stack, seq)
         /\ hist[cur].href = shown /\ shown \in Href /\ currentMarker \in Nat /\ Len(stack) \in Nat
         /\ Len(queue) \in Nat /\ Len(ownPops) \in Nat
<1>1. hist \in Histories /\ stack \in Stacks
  BY DEF Always, Typed
<1>2. Len(hist) \in Nat /\ DOMAIN hist = 1..Len(hist) /\ Len(stack) \in Nat
      /\ \A k \in 1..Len(hist) : hist[k].marker \in Nat
  BY <1>1, Sizes
<1>3. cur \in 1..Len(hist) /\ cur \in Nat
  BY <1>2 DEF Always, Typed
<1>4. seq \in Nat
  BY OverlayAssumption DEF Always, Typed
<1>5. Len(queue) \in Nat /\ Len(ownPops) \in Nat
  BY LenProperties DEF Always, Typed
<1> QED BY <1>1, <1>2, <1>3, <1>4, <1>5 DEF Always, Typed, OnPage, currentMarker

LEMMA OpenKeeps ==
  ASSUME OverlayInv, NEW o \in Overlays, Open(o)
  PROVE  OverlayInv'
<1> USE DEF OverlayInv
<1>1. /\ hist \in Histories /\ stack \in Stacks /\ cur \in 1..Len(hist) /\ cur \in Nat /\ seq \in Nat
      /\ MarkersGrow(hist, seq) /\ StackGrows(stack, seq)
      /\ hist[cur].href = shown /\ shown \in Href /\ Len(stack) \in Nat /\ Len(hist) \in Nat
  BY StateIs
<1> DEFINE e == [href |-> shown, marker |-> seq + 1]
           x == [ov |-> o, id |-> seq + 1, href |-> shown]
<1>2. /\ hist' = Pushed(hist, cur, e) /\ stack' = Append(stack, x)
      /\ cur' = cur + 1 /\ seq' = seq + 1 /\ seq < MaxIds /\ installed'
      /\ UNCHANGED <<queue, ownPops, closing, seeded, shown, buried, traversed>>
      /\ ~tangled' => ~tangled /\ queue = <<>>
  BY <1>1 DEF Open, PushEntry
<1>3. /\ e \in [href : Href, marker : Nat] /\ e.marker = seq + 1 /\ e.href = shown
      /\ x \in [ov : Overlays, id : Nat, href : Href] /\ x.id = seq + 1 /\ x.href = e.href
  BY <1>1
<1> HIDE DEF e, x
<1>4. /\ hist' \in Histories /\ Len(hist') = cur + 1 /\ hist'[1] = hist[1] /\ hist'[cur + 1] = e
      /\ stack' \in Stacks /\ Len(stack') = Len(stack) + 1 /\ stack' # <<>> /\ stack'[Len(stack')] = x
      /\ MarkersGrow(hist', seq + 1) /\ StackGrows(stack', seq + 1)
      /\ (Mirrors(hist, stack, cur) => Mirrors(hist', stack', cur + 1))
      /\ \A i \in 1..Len(stack) : stack'[i] = stack[i] /\ (Clear(hist, stack, i) => Clear(hist', stack', i))
      /\ Clear(hist', stack', Len(stack) + 1)
      /\ \A cl : PackedBelow(hist, stack, cl, cur + 1) => PackedBelow(hist', stack', cl, cur + 1)
  <2>1. PICK g : g = Pushed(hist, cur, e)
    OBVIOUS
  <2>2. PICK t : t = Append(stack, x)
    OBVIOUS
  <2>3. OnePushed(hist, stack, cur, seq, e, x, g, t)
    BY <1>1, <1>3, <2>1, <2>2, PushKeeps
  <2> QED BY <1>2, <2>1, <2>2, <2>3 DEF OnePushed
<1>5. Always'
  <2>1. Typed'
    <3>1. cur + 1 \in DOMAIN hist'
      BY <1>1, <1>4, Sizes
    <3>2. closing \subseteq 1..(seq + 1) /\ seeded \in 0..(seq + 1) /\ seq + 1 \in 0..MaxIds
      BY <1>1, <1>2, OverlayAssumption DEF Always, Typed
    <3> QED BY <1>2, <1>4, <3>1, <3>2 DEF Always, Typed
  <2>2. OnPage'
    BY <1>2, <1>3, <1>4 DEF Always, OnPage
  <2> QED BY <1>2, <1>4, <2>1, <2>2 DEF Always, NotInstalled
<1>6. ASSUME ~tangled' PROVE Untangled'
  <2>1. Untangled /\ queue = <<>> /\ queue' = <<>>
    BY <1>2, <1>6
  <2>2. currentMarker' = seq + 1 /\ Top'.id = seq + 1
    BY <1>2, <1>3, <1>4 DEF currentMarker, Top
  <2>3. Len(queue) = 0 /\ ownPops = <<>> /\ ownPops' = <<>> /\ Len(ownPops) = 0 /\ Len(queue') = 0
    BY <1>2, <2>1, EmptySeq DEF Untangled, OwnPop, Always, Typed
  <2>4. Mirrors(hist', stack', cur')
    BY <1>2, <1>4, <2>1 DEF Untangled
  <2>5. Uncovered'
    <3> SUFFICES ASSUME NEW i \in 1..Len(stack'), stack'[i].id \notin closing' PROVE Clear(hist', stack', i)
      BY <2>3, <1>2 DEF Uncovered
    <3>1. CASE i = Len(stack) + 1
      BY <1>4, <3>1
    <3>2. CASE i \in 1..Len(stack)
      BY <1>2, <1>4, <2>1, <3>2 DEF Untangled, Uncovered
    <3> QED BY <1>1, <1>4, <3>1, <3>2
  <2>6. OwnPop' /\ Ahead'
    BY <2>1, <2>3 DEF OwnPop, Ahead
  <2>9. LeftAhead'
    <3> SUFFICES ASSUME NEW id \in closing, ~InStack(stack', id), NEW k \in 1..(cur + 1), hist'[k].marker = id
                 PROVE  FALSE
      BY <1>2 DEF LeftAhead
    <3>1. id \in 1..seq
      BY DEF Always, Typed
    <3>2. k \in 1..cur /\ k \in 1..Len(hist)
      BY <1>1, <1>3, <1>4, <3>1
    <3>3. hist'[k] = hist[k]
      BY <1>1, <1>2, <1>3, <3>2, PushedIs
    <3>4. ~InStack(stack, id)
      BY <1>1, <1>4, InStackIs
    <3> QED BY <2>1, <3>2, <3>3, <3>4 DEF Untangled, LeftAhead
  <2>7. ASSUME ~buried' PROVE Packed' /\ OnTop'
    <3>1. Packed /\ OnTop
      BY <1>2, <2>1, <2>7 DEF Untangled
    <3>2. PackedBelow(hist, stack, closing, cur + 1)
      <4> SUFFICES ASSUME NEW i \in 1..Len(stack), stack[i].id \notin closing,
                          NEW j \in 1..Len(hist), NEW k \in 1..Len(hist),
                          hist[j].marker = stack[i].id, j < k, k < cur + 1
                   PROVE  InStack(stack, hist[k].marker)
        BY DEF PackedBelow
      <4>1. hist[cur].marker = Top.id /\ stack # <<>>
        BY <1>1, <2>1, <3>1, EmptySeq DEF OnTop, Stays, currentMarker
      <4>2. CASE k = cur
        BY <1>1, <4>1, <4>2, InStackIs DEF Top
      <4>3. CASE k < cur
        BY <1>1, <3>1, <4>1, <4>3 DEF Packed, PackedBelow
      <4> QED BY <1>1, <4>2, <4>3
    <3>3. \A m \in 1..Len(hist') : hist'[m].marker = seq + 1 => m = cur + 1
      <4> SUFFICES ASSUME NEW m \in 1..(cur + 1), hist'[m].marker = seq + 1, m # cur + 1 PROVE FALSE
        BY <1>4
      <4>1. m < cur + 1 /\ cur + 1 \in 1..Len(hist')
        BY <1>1, <1>4
      <4> QED BY <1>1, <1>3, <1>4, <4>1 DEF MarkersGrow
    <3>4. Packed'
      BY <1>2, <1>4, <2>2, <3>2, <3>3 DEF Packed
    <3> QED BY <2>2, <3>4 DEF OnTop
  <2>8. ASSUME ~traversed' PROVE ByButtons'
    <3>1. InStack(stack', currentMarker')
      BY <1>1, <1>3, <1>4, <2>2, InStackIs
    <3> QED BY <2>3, <3>1 DEF ByButtons
  <2> QED BY <2>4, <2>5, <2>6, <2>7, <2>8, <2>9 DEF Untangled
<1> QED BY <1>5, <1>6

LEMMA CloseKeeps ==
  ASSUME OverlayInv, NEW o \in Overlays, Close(o)
  PROVE  OverlayInv'
<1> USE DEF OverlayInv
<1>1. PICK l \in DOMAIN stack : stack[l].id \notin closing /\ closing' = closing \cup {stack[l].id}
  BY DEF Close
<1>2. UNCHANGED <<hist, cur, queue, ownPops, stack, seq, seeded, installed, shown, buried, traversed, tangled>>
  BY DEF Close
<1>3. l \in 1..Len(stack) /\ stack[l].id \in 1..seq
  BY StateIs, Sizes DEF StackGrows
<1>4. Always'
  <2>1. Typed' /\ OnPage' /\ MarkersGrow(hist', seq') /\ StackGrows(stack', seq')
    BY <1>1, <1>2, <1>3 DEF Always, Typed, OnPage
  <2>2. NotInstalled'
    BY <1>2, <1>3, EmptySeq DEF Always, NotInstalled
  <2> QED BY <2>1, <2>2 DEF Always
<1>5. ASSUME ~tangled' PROVE Untangled'
  <2>1. Untangled
    BY <1>2, <1>5
  <2>2. Mirrors(hist', stack', cur') /\ OwnPop' /\ Uncovered'
    BY <1>1, <1>2, <2>1 DEF Untangled, OwnPop, Uncovered, currentMarker
  <2>3. LeftAhead' /\ Ahead'
    <3>1. InStack(stack, stack[l].id)
      BY DEF InStack
    <3> QED BY <1>1, <1>2, <2>1, <3>1 DEF Untangled, LeftAhead, Ahead
  <2>4. ASSUME ~buried' PROVE Packed' /\ OnTop'
    <3>1. Packed /\ OnTop
      BY <1>2, <2>1, <2>4 DEF Untangled
    <3>2. \A m : PackedBelow(hist, stack, closing, m) => PackedBelow(hist, stack, closing', m)
      BY <1>1 DEF PackedBelow
    <3>3. Packed'
      BY <1>2, <3>1, <3>2 DEF Packed, Top
    <3>4. OnTop'
      BY <1>1, <1>2, <3>1 DEF OnTop, Stays, Top, currentMarker
    <3> QED BY <3>3, <3>4
  <2>5. ASSUME ~traversed' PROVE ByButtons'
    BY <1>2, <2>1, <2>5 DEF Untangled, ByButtons, currentMarker
  <2> QED BY <2>2, <2>3, <2>4, <2>5 DEF Untangled
<1> QED BY <1>4, <1>5

\* One more traversal is queued.
LEMMA QueuedIs ==
  ASSUME NEW S, NEW q \in Seq(S), NEW d \in S
  PROVE  /\ Append(q, d) \in Seq(S) /\ Len(Append(q, d)) = Len(q) + 1 /\ Len(q) \in Nat
         /\ \A i \in 1..Len(q) : Append(q, d)[i] = q[i]
         /\ Append(q, d)[Len(q) + 1] = d /\ Append(q, d) # <<>>
<1>1. /\ Append(q, d) \in Seq(S) /\ Len(Append(q, d)) = Len(q) + 1 /\ Len(q) \in Nat
      /\ \A i \in 1..Len(q) : Append(q, d)[i] = q[i]
      /\ Append(q, d)[Len(q) + 1] = d
  BY AppendProperties, LenProperties
<1> QED BY <1>1, EmptySeq

\* The next one is taken.
LEMMA TakenIs ==
  ASSUME NEW S, NEW q \in Seq(S), q # <<>>
  PROVE  /\ Tail(q) \in Seq(S) /\ Len(Tail(q)) = Len(q) - 1 /\ Len(q) \in Nat \ {0}
         /\ \A i \in 1..(Len(q) - 1) : Tail(q)[i] = q[i + 1]
         /\ Head(q) = q[1] /\ Head(q) \in S
<1>1. Tail(q) \in Seq(S) /\ Len(Tail(q)) = Len(q) - 1 /\ Head(q) = q[1] /\ Head(q) \in S
      /\ \A i \in 1..Len(Tail(q)) : Tail(q)[i] = q[i + 1]
  BY HeadTailProperties
<1>2. Len(q) \in Nat \ {0}
  BY LenProperties, EmptySeq
<1> QED BY <1>1, <1>2

LEMMA UserTraverseKeeps ==
  ASSUME OverlayInv, NEW d \in {-1, 1}, UserTraverse(d)
  PROVE  OverlayInv'
<1> USE DEF OverlayInv
<1>1. /\ UNCHANGED <<hist, cur, ownPops, stack, closing, seq, seeded, installed, shown, buried>>
      /\ queue' = Append(queue, d) /\ traversed' = TRUE /\ cur + d \in 1..Len(hist)
      /\ ~tangled' => ~tangled /\ queue = <<>> /\ closing = {}
  BY DEF UserTraverse
<1>2. Always'
  <2>1. queue' \in Seq({-1, 1})
    BY <1>1, QueuedIs DEF Always, Typed
  <2> QED BY <1>1, <2>1 DEF Always, Typed, OnPage, NotInstalled
<1>3. ASSUME ~tangled' PROVE Untangled'
  <2>1. Untangled /\ queue = <<>> /\ closing = {} /\ closing' = {} /\ Len(queue) = 0
    BY <1>1, <1>3, EmptySeq DEF Always, Typed
  <2>2. ownPops = <<>> /\ Len(ownPops) = 0 /\ ownPops' = <<>>
    BY <1>1, <2>1, EmptySeq DEF Untangled, OwnPop, Always, Typed
  <2>3. Len(queue') = 1 /\ queue'[1] = d /\ Head(queue') = queue'[1] /\ queue' # <<>>
    <3>1. /\ Len(queue') = 1 /\ queue'[1] = d /\ queue' # <<>> /\ queue' \in Seq({-1, 1})
      BY <1>1, <2>1, QueuedIs DEF Always, Typed
    <3> QED BY <3>1, TakenIs
  <2>4. cur \in Nat /\ Len(hist) \in Nat
    BY StateIs
  <2>5. Mirrors(hist', stack', cur') /\ Uncovered' /\ OwnPop' /\ LeftAhead'
    BY <1>1, <2>1, <2>2, <2>3 DEF Untangled, Uncovered, OwnPop, LeftAhead
  <2>6. Ahead'
    BY <1>1, <2>1, <2>2, <2>3, <2>4 DEF Ahead
  <2>7. ~buried' => Packed' /\ OnTop'
    BY <1>1, <2>1, <2>3 DEF Untangled, Packed, OnTop, Top
  <2> QED BY <1>1, <2>5, <2>6, <2>7 DEF Untangled
<1> QED BY <1>2, <1>3

LEMMA ReloadKeeps ==
  ASSUME OverlayInv, Reload
  PROVE  OverlayInv'
<1> USE DEF OverlayInv
<1>1. /\ UNCHANGED <<hist, cur, shown, buried, traversed>>
      /\ stack' = <<>> /\ closing' = {} /\ ownPops' = <<>> /\ queue' = <<>>
      /\ seq' = seq /\ seeded' = seq /\ ~installed'
  BY DEF Reload, ReloadedSeq
<1>2. /\ stack' \in Stacks /\ queue' \in Seq({-1, 1}) /\ ownPops' \in Seq(Href)
      /\ Len(stack') = 0 /\ Len(queue') = 0 /\ Len(ownPops') = 0
  BY <1>1, EmptySeq DEF Stacks
<1>3. Always'
  <2>1. seq \in Nat
    BY StateIs
  <2> QED BY <1>1, <1>2, <2>1 DEF Always, Typed, OnPage, NotInstalled, StackGrows
<1>4. ~(currentMarker > seq) /\ currentMarker \in Nat
  <2>1. currentMarker <= seq /\ seq \in Nat /\ currentMarker \in Nat
    BY StateIs DEF MarkersGrow, currentMarker
  <2> QED BY <2>1
<1>5. Untangled'
  <2>1. Mirrors(hist', stack', cur') /\ Uncovered' /\ OwnPop' /\ LeftAhead' /\ Ahead'
    BY <1>1, <1>2 DEF Mirrors, Uncovered, OwnPop, LeftAhead, Ahead
  <2>2. Packed' /\ OnTop'
    BY <1>1, <1>2 DEF Packed, OnTop, Stays
  <2>3. ByButtons'
    BY <1>1, <1>2, <1>4 DEF ByButtons, currentMarker
  <2> QED BY <2>1, <2>2, <2>3 DEF Untangled
<1> QED BY <1>3, <1>5

LEMMA NavigateKeeps ==
  ASSUME OverlayInv, NEW p \in Pages, NEW qy \in Queries, Navigate(p, qy)
  PROVE  OverlayInv'
<1> USE DEF OverlayInv
<1>1. /\ hist \in Histories /\ stack \in Stacks /\ cur \in 1..Len(hist) /\ cur \in Nat /\ seq \in Nat
      /\ MarkersGrow(hist, seq) /\ StackGrows(stack, seq) /\ Len(stack) \in Nat /\ Len(hist) \in Nat
  BY StateIs
<1> DEFINE u == [page |-> p, query |-> qy]
           e == [href |-> u, marker |-> 0]
<1>2. /\ hist' = Pushed(hist, cur, e) /\ shown' = u /\ cur' = cur + 1
      /\ closing' = closing \cup {stack[i].id : i \in DOMAIN stack}
      /\ UNCHANGED <<queue, ownPops, stack, seq, seeded, installed, buried, traversed>>
      /\ ~tangled' => ~tangled /\ queue = <<>>
  BY DEF Navigate
<1>3. e \in [href : Href, marker : Nat] /\ e.marker = 0 /\ e.href = u /\ u \in Href
  BY DEF Href
<1> HIDE DEF e, u
<1>4. /\ hist' \in Histories /\ Len(hist') = cur + 1 /\ hist'[cur + 1] = e
      /\ \A k \in 1..cur : hist'[k] = hist[k]
  BY <1>1, <1>2, <1>3, PushedIs
<1>5. \A k \in 1..(cur + 1) : (k \in 1..cur /\ k \in 1..Len(hist)) \/ k = cur + 1
  BY <1>1
<1>6. DOMAIN stack = 1..Len(stack) /\ \A i \in 1..Len(stack) : stack[i].id \in 1..seq /\ stack[i].id # 0
  BY <1>1, Sizes DEF StackGrows
<1>7. Always'
  <2>1. Typed'
    <3>1. closing \subseteq 1..seq
      BY DEF Always, Typed
    <3>2. closing' \subseteq 1..seq
      BY <1>2, <1>6, <3>1
    <3>3. cur + 1 \in 1..Len(hist')
      BY <1>1, <1>4
    <3> QED BY <1>2, <1>3, <1>4, <3>2, <3>3 DEF Always, Typed
  <2>2. MarkersGrow(hist', seq)
    <3>1. \A k \in 1..(cur + 1) : hist'[k].marker <= seq
      BY <1>1, <1>3, <1>4, <1>5 DEF MarkersGrow
    <3>2. \A j, k \in 1..(cur + 1) : j < k /\ hist'[j].marker # 0 /\ hist'[k].marker # 0
                                     => hist'[j].marker < hist'[k].marker
      BY <1>1, <1>3, <1>4, <1>5 DEF MarkersGrow
    <3> QED BY <1>4, <3>1, <3>2 DEF MarkersGrow
  <2>3. OnPage'
    BY <1>1, <1>2, <1>3, <1>4 DEF Always, OnPage
  <2>4. NotInstalled'
    <3> SUFFICES ASSUME ~installed PROVE closing' = {}
      BY <1>2 DEF Always, NotInstalled
    <3>1. stack = <<>> /\ closing = {} /\ Len(stack) = 0
      BY EmptySeq DEF Always, NotInstalled
    <3>2. DOMAIN stack = {}
      BY <1>6, <3>1
    <3> QED BY <1>2, <3>1, <3>2
  <2> QED BY <1>1, <1>2, <2>1, <2>2, <2>3, <2>4 DEF Always
<1>8. ASSUME ~tangled' PROVE Untangled'
  <2>1. Untangled /\ queue = <<>> /\ queue' = <<>> /\ Len(queue) = 0
    BY <1>2, <1>8, EmptySeq DEF Always, Typed
  <2>2. ownPops = <<>> /\ Len(ownPops) = 0 /\ ownPops' = <<>>
    BY <1>2, <2>1, EmptySeq DEF Untangled, OwnPop, Always, Typed
  <2>3. \A i \in 1..Len(stack) : stack[i].id \in closing'
    BY <1>2, <1>6
  <2>4. Mirrors(hist', stack, cur + 1)
    <3> SUFFICES ASSUME NEW i \in 1..Len(stack)
                 PROVE  /\ \E k \in 1..(cur + 1) : hist'[k].marker = stack[i].id
                        /\ \A k \in 1..(cur + 1) : hist'[k].marker = stack[i].id
                                                   => stack[i].href = hist'[k].href
      BY <1>4 DEF Mirrors
    <3>1. \E k \in 1..cur : hist[k].marker = stack[i].id
      BY <2>1 DEF Untangled, Mirrors
    <3>2. \A k \in 1..Len(hist) : hist[k].marker = stack[i].id => stack[i].href = hist[k].href
      BY <2>1 DEF Untangled, Mirrors
    <3> QED BY <1>1, <1>3, <1>4, <1>5, <1>6, <3>1, <3>2
  <2>5. Uncovered' /\ OwnPop' /\ Ahead'
    BY <1>2, <2>1, <2>2, <2>3 DEF Uncovered, OwnPop, Ahead
  <2>6. LeftAhead'
    <3> SUFFICES ASSUME NEW id \in closing', ~InStack(stack, id), NEW k \in 1..(cur + 1), hist'[k].marker = id
                 PROVE  FALSE
      BY <1>2 DEF LeftAhead
    <3>1. id \in closing /\ id # 0
      BY <1>2 DEF InStack, Always, Typed
    <3> QED BY <1>3, <1>4, <1>5, <2>1, <3>1 DEF Untangled, LeftAhead
  <2>7. Packed' /\ OnTop'
    BY <1>2, <2>3 DEF Packed, PackedBelow, OnTop, Stays
  <2>8. ByButtons'
    <3>1. currentMarker' = 0
      BY <1>2, <1>3, <1>4 DEF currentMarker
    <3>2. seeded \in Nat /\ ~(0 > seeded)
      BY <1>1 DEF Always, Typed
    <3> QED BY <1>2, <2>1, <2>2, <3>1, <3>2 DEF ByButtons
  <2> QED BY <1>2, <2>4, <2>5, <2>6, <2>7, <2>8 DEF Untangled
<1> QED BY <1>7, <1>8

LEMMA ReplaceUrlKeeps ==
  ASSUME OverlayInv, NEW qy \in Queries, ReplaceUrl(qy)
  PROVE  OverlayInv'
<1> USE DEF OverlayInv
<1>1. /\ hist \in Histories /\ stack \in Stacks /\ cur \in 1..Len(hist) /\ cur \in Nat /\ seq \in Nat
      /\ MarkersGrow(hist, seq) /\ StackGrows(stack, seq) /\ Len(stack) \in Nat /\ Len(hist) \in Nat
      /\ hist[cur].href = shown /\ shown \in Href
  BY StateIs
<1> DEFINE u == [shown EXCEPT !.query = qy]
<1>2. /\ UNCHANGED <<cur, queue, ownPops, closing, seq, seeded, installed, buried, traversed>>
      /\ shown' = u
      /\ hist' = [hist EXCEPT ![cur] = [href |-> u, marker |-> IF installed THEN hist[cur].marker ELSE 0]]
      /\ stack' = [i \in DOMAIN stack |->
                     IF stack[i].id = hist[cur].marker THEN [stack[i] EXCEPT !.href = u] ELSE stack[i]]
      /\ ~tangled' => ~tangled /\ queue = <<>>
  BY DEF ReplaceUrl, currentMarker
<1>3. u \in Href /\ u # shown
  <2>1. qy # shown.query
    BY DEF ReplaceUrl
  <2> QED BY <1>1, <2>1 DEF Href
<1> HIDE DEF u
<1>4. hist[cur] \in [href : Href, marker : Nat]
  BY <1>1, Sizes
<1>5. ~tangled' => /\ Untangled /\ queue' = <<>> /\ Len(queue) = 0 /\ Len(queue') = 0
                   /\ ownPops' = <<>> /\ Len(ownPops) = 0 /\ Len(ownPops') = 0
  <2> HAVE ~tangled'
  <2>1. Untangled /\ queue = <<>> /\ Len(queue) = 0
    BY <1>2, EmptySeq DEF Always, Typed
  <2>2. ownPops = <<>> /\ Len(ownPops) = 0
    BY <2>1, EmptySeq DEF Untangled, OwnPop, Always, Typed
  <2> QED BY <1>2, <2>1, <2>2
<1>6. CASE installed
  <2>1. PICK n : n = CarryUrl(hist, stack, cur, u)
    OBVIOUS
  <2>2. hist' = n.hist /\ stack' = n.stack
    <3>1. [hist EXCEPT ![cur].href = u] = [hist EXCEPT ![cur] = [href |-> u, marker |-> hist[cur].marker]]
      <4> DEFINE r == [hist[cur] EXCEPT !.href = u]
      <4>1. r = [href |-> u, marker |-> hist[cur].marker]
        BY <1>4
      <4>2. [hist EXCEPT ![cur].href = u] = [hist EXCEPT ![cur] = r]
        OBVIOUS
      <4> QED BY <4>1, <4>2
    <3>2. hist[cur].href # u
      BY <1>1, <1>3
    <3>3. n.hist = [hist EXCEPT ![cur].href = u]
      BY <2>1, <3>2 DEF CarryUrl
    <3>4. n.stack = stack'
      BY <1>2, <2>1, <3>2 DEF CarryUrl
    <3> QED BY <1>2, <1>6, <3>1, <3>3, <3>4
  <2>3. /\ n.hist \in Histories /\ Len(n.hist) = Len(hist) /\ n.hist[cur].href = u
        /\ \A k \in 1..Len(hist) : n.hist[k].marker = hist[k].marker
        /\ n.stack \in Stacks /\ Len(n.stack) = Len(stack)
        /\ \A i \in 1..Len(stack) : n.stack[i].id = stack[i].id
    <3>1. OneCarried(hist, stack, cur, u, n)
      BY <1>1, <1>3, <2>1, CarryIs
    <3> QED BY <3>1 DEF OneCarried
  <2>4. /\ MarkersGrow(n.hist, seq) /\ StackGrows(n.stack, seq)
        /\ (Mirrors(hist, stack, cur) => Mirrors(n.hist, n.stack, cur))
        /\ \A i \in 1..Len(stack) : Clear(hist, stack, i) => Clear(n.hist, n.stack, i)
        /\ \A cl, d : PackedBelow(hist, stack, cl, d) => PackedBelow(n.hist, n.stack, cl, d)
        /\ \A m : InStack(n.stack, m) <=> InStack(stack, m)
    <3>1. CarryKept(hist, stack, seq, n)
      BY <1>1, <1>3, <2>1, CarryKeeps
    <3> QED BY <1>1, <3>1 DEF CarryKept
  <2>5. Always'
    <3>1. Typed'
      BY <1>2, <1>3, <2>2, <2>3 DEF Always, Typed
    <3>2. OnPage'
      <4>1. 1 \in 1..Len(hist)
        BY <1>1
      <4> QED BY <1>2, <2>2, <2>3, <4>1 DEF Always, OnPage
    <3> QED BY <1>2, <1>6, <2>2, <2>4, <3>1, <3>2 DEF Always, NotInstalled
  <2>6. ASSUME ~tangled' PROVE Untangled'
    <3>1. Mirrors(hist', stack', cur')
      BY <1>2, <1>5, <2>2, <2>4, <2>6 DEF Untangled
    <3>2. Uncovered'
      <4> SUFFICES ASSUME NEW i \in 1..Len(n.stack), n.stack[i].id \notin closing PROVE Clear(n.hist, n.stack, i)
        <5>1. ~(Len(queue') > Len(ownPops'))
          BY <1>5, <2>6
        <5> QED BY <1>2, <2>2, <5>1 DEF Uncovered
      <4> QED BY <1>5, <2>3, <2>4, <2>6 DEF Untangled, Uncovered
    <3>3. OwnPop' /\ Ahead'
      BY <1>5, <1>2, <2>6 DEF OwnPop, Ahead
    <3>4. LeftAhead'
      <4>1. \A k \in 1..cur : hist'[k].marker = hist[k].marker
        BY <1>1, <2>2, <2>3
      <4>2. \A m : InStack(stack', m) <=> InStack(stack, m)
        BY <2>2, <2>4
      <4> QED BY <1>2, <1>5, <2>6, <4>1, <4>2 DEF Untangled, LeftAhead
    <3>5. currentMarker' = currentMarker /\ (stack # <<>> <=> stack' # <<>>)
          /\ (stack # <<>> => Top'.id = Top.id)
      <4>1. currentMarker' = currentMarker /\ (stack # <<>> <=> stack' # <<>>)
        BY <1>1, <1>2, <2>2, <2>3, EmptySeq DEF currentMarker, Stacks
      <4>2. ASSUME stack # <<>> PROVE Len(stack) \in 1..Len(stack)
        BY <1>1, <4>2, EmptySeq DEF Stacks
      <4> QED BY <2>2, <2>3, <4>1, <4>2 DEF Top
    <3>6. ASSUME ~buried' PROVE Packed' /\ OnTop'
      <4>1. Packed /\ OnTop
        BY <1>2, <1>5, <2>6, <3>6 DEF Untangled
      <4>2. Packed'
        <5> SUFFICES ASSUME NEW m \in 1..Len(n.hist), n.stack # <<>>, n.hist[m].marker = Top'.id
                     PROVE  PackedBelow(n.hist, n.stack, closing, m)
          BY <1>2, <2>2 DEF Packed
        <5>1. PackedBelow(hist, stack, closing, m)
          BY <2>2, <2>3, <3>5, <4>1 DEF Packed
        <5> QED BY <2>4, <5>1
      <4>3. Stays' => Stays /\ stack # <<>>
        BY <1>2, <2>2, <2>3, EmptySeq DEF Stays
      <4>4. OnTop'
        BY <1>2, <3>5, <4>1, <4>3 DEF OnTop
      <4> QED BY <4>2, <4>4
    <3>7. ASSUME ~traversed' PROVE ByButtons'
      <4>1. ByButtons
        BY <1>2, <1>5, <2>6, <3>7 DEF Untangled
      <4> QED BY <1>2, <1>5, <2>6, <2>2, <2>4, <3>5, <4>1 DEF ByButtons
    <3> QED BY <3>1, <3>2, <3>3, <3>4, <3>6, <3>7 DEF Untangled
  <2> QED BY <2>5, <2>6
<1>7. CASE ~installed
  <2>1. stack = <<>> /\ ownPops = <<>> /\ closing = {} /\ seq = seeded
    BY <1>7 DEF Always, NotInstalled
  <2>2. stack' = <<>> /\ Len(stack') = 0 /\ stack' \in Stacks
    <3>1. DOMAIN stack = {}
      BY <1>1, <2>1, Sizes, EmptySeq
    <3>2. stack' = [i \in {} |-> IF stack[i].id = hist[cur].marker THEN [stack[i] EXCEPT !.href = u] ELSE stack[i]]
      BY <1>2, <3>1
    <3>3. stack' = <<>>
      BY <3>2
    <3> QED BY <1>1, <2>1, <3>3, EmptySeq
  <2> DEFINE e == [href |-> u, marker |-> 0]
  <2>3. hist' = [hist EXCEPT ![cur] = e] /\ e \in [href : Href, marker : Nat] /\ e.marker = 0 /\ e.href = u
    BY <1>2, <1>3, <1>7
  <2> HIDE DEF e
  <2>4. /\ hist' \in Histories /\ Len(hist') = Len(hist)
        /\ \A k \in 1..Len(hist) : hist'[k] = IF k = cur THEN e ELSE hist[k]
    BY <1>1, <2>3, ExceptSeq DEF Histories
  <2>5. Always'
    <3>1. Typed'
      BY <1>2, <1>3, <2>2, <2>4 DEF Always, Typed
    <3>2. OnPage'
      <4>1. 1 \in 1..Len(hist)
        BY <1>1
      <4> QED BY <1>1, <1>2, <2>3, <2>4, <4>1 DEF Always, OnPage
    <3>3. MarkersGrow(hist', seq)
      BY <1>1, <2>3, <2>4 DEF MarkersGrow
    <3>4. StackGrows(stack', seq') /\ NotInstalled'
      BY <1>2, <2>1, <2>2 DEF StackGrows, NotInstalled
    <3> QED BY <1>2, <3>1, <3>2, <3>3, <3>4 DEF Always
  <2>6. ASSUME ~tangled' PROVE Untangled'
    <3>1. Mirrors(hist', stack', cur') /\ Uncovered' /\ Packed' /\ OnTop'
      BY <2>2 DEF Mirrors, Uncovered, Packed, OnTop, Stays
    <3>2. OwnPop' /\ Ahead'
      BY <1>5, <1>2, <2>6 DEF OwnPop, Ahead
    <3>3. LeftAhead'
      BY <1>2, <2>1 DEF LeftAhead
    <3>4. currentMarker' = 0 /\ ~(0 > seeded')
      <4>1. seeded \in Nat
        BY <1>1 DEF Always, Typed
      <4> QED BY <1>2, <2>3, <2>4, <1>1, <4>1 DEF currentMarker
    <3>5. ByButtons'
      BY <1>5, <2>6, <3>4 DEF ByButtons
    <3> QED BY <3>1, <3>2, <3>3, <3>5 DEF Untangled
  <2> QED BY <2>5, <2>6
<1> QED BY <1>6, <1>7

LEMMA TimerKeeps ==
  ASSUME OverlayInv, NEW id \in closing, RemovalTimer(id)
  PROVE  OverlayInv'
<1> USE DEF OverlayInv
<1>1. /\ hist \in Histories /\ stack \in Stacks /\ cur \in 1..Len(hist) /\ cur \in Nat /\ seq \in Nat
      /\ MarkersGrow(hist, seq) /\ StackGrows(stack, seq) /\ Len(stack) \in Nat /\ Len(hist) \in Nat
      /\ hist[cur].href = shown /\ shown \in Href /\ Len(queue) \in Nat /\ Len(ownPops) \in Nat
  BY StateIs
<1>2. /\ closing' = closing \ {id} /\ buried' = (buried \/ Buries(id))
      /\ UNCHANGED <<hist, cur, seq, seeded, installed, shown, ops, traversed, tangled>>
      /\ (\E i \in DOMAIN stack : stack[i].id = id /\ stack' = RemoveAt(stack, i))
         \/ (~InStack(stack, id) /\ stack' = stack)
  BY DEF RemovalTimer
<1>3. \/ currentMarker = id /\ queue' = Append(queue, -1) /\ ownPops' = Append(ownPops, shown)
      \/ currentMarker # id /\ queue' = queue /\ ownPops' = ownPops
  BY <1>1 DEF RemovalTimer, Unwinds
<1>4. id \in 1..seq /\ id # 0 /\ installed
  BY <1>1 DEF Always, Typed, NotInstalled
<1>5. /\ stack' \in Stacks /\ StackGrows(stack', seq)
      /\ (Mirrors(hist, stack, cur) => Mirrors(hist, stack', cur))
      /\ \A j \in 1..Len(stack') : \E l \in 1..Len(stack) :
            stack'[j] = stack[l] /\ (Clear(hist, stack, l) => Clear(hist, stack', j))
      /\ \A m : InStack(stack', m) <=> InStack(stack, m) /\ m # id
  <2>1. CASE ~InStack(stack, id) /\ stack' = stack
    BY <1>1, <2>1
  <2>2. ASSUME NEW i \in 1..Len(stack), stack[i].id = id, stack' = RemoveAt(stack, i)
        PROVE  /\ stack' \in Stacks /\ StackGrows(stack', seq)
               /\ (Mirrors(hist, stack, cur) => Mirrors(hist, stack', cur))
               /\ \A j \in 1..Len(stack') : \E l \in 1..Len(stack) :
                     stack'[j] = stack[l] /\ (Clear(hist, stack, l) => Clear(hist, stack', j))
               /\ \A m : InStack(stack', m) <=> InStack(stack, m) /\ m # id
    <3>1. PICK t : t = RemoveAt(stack, i)
      OBVIOUS
    <3>2. OneRemoved(hist, stack, i, seq, t)
      BY <1>1, <3>1, RemoveKeeps
    <3> QED BY <2>2, <3>1, <3>2 DEF OneRemoved
  <2> QED BY <1>1, <1>2, <2>1, <2>2, Sizes
<1>6. /\ queue' \in Seq({-1, 1}) /\ ownPops' \in Seq(Href)
      /\ \/ currentMarker = id /\ Len(queue') = Len(queue) + 1 /\ Len(ownPops') = Len(ownPops) + 1
         \/ currentMarker # id /\ Len(queue') = Len(queue) /\ Len(ownPops') = Len(ownPops)
  <2>1. queue \in Seq({-1, 1}) /\ ownPops \in Seq(Href)
    BY DEF Always, Typed
  <2>2. Append(queue, -1) \in Seq({-1, 1}) /\ Len(Append(queue, -1)) = Len(queue) + 1
    BY <2>1, QueuedIs
  <2>3. Append(ownPops, shown) \in Seq(Href) /\ Len(Append(ownPops, shown)) = Len(ownPops) + 1
    BY <1>1, <2>1, QueuedIs
  <2> QED BY <1>3, <2>1, <2>2, <2>3
<1>7. Always'
  <2>1. Typed'
    BY <1>2, <1>5, <1>6 DEF Always, Typed
  <2> QED BY <1>2, <1>4, <1>5, <2>1 DEF Always, OnPage, NotInstalled
<1>8. ASSUME ~tangled' PROVE Untangled'
  <2>1. Untangled
    BY <1>2, <1>8
  <2>2. \A j \in 1..Len(stack') : \E l \in 1..Len(stack) :
            /\ stack'[j] = stack[l] /\ (Clear(hist, stack, l) => Clear(hist, stack', j))
            /\ (stack'[j].id \notin closing' => stack[l].id \notin closing)
    <3> TAKE j \in 1..Len(stack')
    <3>1. PICK l \in 1..Len(stack) : stack'[j] = stack[l] /\ (Clear(hist, stack, l) => Clear(hist, stack', j))
      BY <1>5
    <3>2. stack'[j].id # id
      BY <1>5, InStackIs
    <3> QED BY <1>2, <3>1, <3>2
  <2>3. currentMarker' = currentMarker
    BY <1>2 DEF currentMarker
  <2>4. Mirrors(hist', stack', cur')
    BY <1>2, <1>5, <2>1 DEF Untangled
  <2>5. Uncovered'
    <3> SUFFICES ASSUME NEW j \in 1..Len(stack'),
                        stack'[j].id \notin closing' \/ Len(queue') > Len(ownPops')
                 PROVE  Clear(hist, stack', j)
      BY <1>2 DEF Uncovered
    <3>1. Len(queue') > Len(ownPops') => Len(queue) > Len(ownPops)
      BY <1>1, <1>6
    <3> QED BY <2>1, <2>2, <3>1 DEF Untangled, Uncovered
  <2>6. currentMarker = id => InStack(stack, id) /\ ownPops = <<>>
    <3> HAVE currentMarker = id
    <3>1. InStack(stack, id)
      BY <1>1, <2>1 DEF Untangled, LeftAhead, currentMarker
    <3> QED BY <2>1, <3>1 DEF Untangled, OwnPop
  <2>7. OwnPop'
    <3>1. CASE currentMarker = id
      <4>1. ownPops' = <<shown>> /\ Len(queue') >= 1 /\ Len(ownPops') = 1
        <5>1. ownPops' = Append(<<>>, shown) /\ Len(ownPops) = 0
          BY <1>3, <2>6, <3>1, EmptySeq
        <5> QED BY <1>1, <1>6, <3>1, <5>1
      <4>2. ~InStack(stack', id)
        BY <1>5
      <4> QED BY <1>1, <1>2, <1>4, <2>3, <3>1, <4>1, <4>2 DEF OwnPop
    <3>2. CASE currentMarker # id
      BY <1>2, <1>3, <1>5, <2>1, <2>3, <3>2 DEF Untangled, OwnPop
    <3> QED BY <3>1, <3>2
  <2>8. LeftAhead'
    BY <1>2, <1>5, <2>1 DEF Untangled, LeftAhead
  <2>9. Ahead'
    <3>1. CASE currentMarker = id
      <4>1. queue \in Seq({-1, 1})
        BY DEF Always, Typed
      <4>2. /\ queue' = Append(queue, -1) /\ queue' \in Seq({-1, 1}) /\ Len(queue') = Len(queue) + 1
            /\ \A i \in 1..Len(queue) : queue'[i] = queue[i]
            /\ queue'[Len(queue) + 1] = -1 /\ queue' # <<>> /\ Head(queue') = queue'[1]
        BY <1>3, <3>1, <4>1, QueuedIs, TakenIs
      <4>3. \A i \in 2..Len(queue') : queue'[i] = -1
        <5> TAKE i \in 2..Len(queue')
        <5>1. i \in 2..Len(queue) \/ i = Len(queue) + 1
          BY <1>1, <4>2
        <5>2. i \in 2..Len(queue) => i \in 1..Len(queue)
          BY <1>1
        <5> QED BY <2>1, <4>2, <5>1, <5>2 DEF Untangled, Ahead
      <4>4. ASSUME Head(queue') = 1
            PROVE  cur < Len(hist) /\ Len(queue') > Len(ownPops') /\ \A d \in closing' : InStack(stack', d)
        <5>1. queue # <<>> /\ Head(queue) = 1
          <6>1. CASE Len(queue) = 0
            BY <4>2, <4>4, <6>1
          <6>2. CASE Len(queue) > 0
            <7>1. queue # <<>> /\ 1 \in 1..Len(queue)
              BY <1>1, <4>1, <6>2, EmptySeq
            <7>2. Head(queue) = queue[1]
              BY <4>1, <7>1, TakenIs
            <7> QED BY <4>2, <4>4, <7>1, <7>2
          <6> QED BY <1>1, <6>1, <6>2
        <5>2. cur < Len(hist) /\ Len(queue) > Len(ownPops) /\ \A d \in closing : InStack(stack, d)
          BY <2>1, <5>1 DEF Untangled, Ahead
        <5> QED BY <1>1, <1>2, <1>5, <1>6, <5>2
      <4> QED BY <1>2, <4>3, <4>4 DEF Ahead
    <3>2. CASE currentMarker # id
      BY <1>2, <1>3, <1>5, <2>1, <3>2 DEF Untangled, Ahead
    <3> QED BY <3>1, <3>2
  <2>10. ASSUME ~buried' PROVE Packed' /\ OnTop'
    <3>1. Packed /\ OnTop /\ ~Buries(id)
      BY <1>2, <2>1, <2>10 DEF Untangled
    <3>2. Mirrors(hist, stack, cur)
      BY <2>1 DEF Untangled
    <3>3. \A k \in 1..Len(hist) : hist[k].marker \in Nat
      BY <1>1, Sizes
    <3>4. \A i \in 1..Len(stack) : stack[i].id \in Nat /\ stack[i].id # 0
      BY <1>1 DEF StackGrows
    <3>5. CASE ~InStack(stack, id) /\ stack' = stack
      <4>1. \A i \in 1..Len(stack) : stack[i].id # id
        BY <1>1, <3>5, InStackIs
      <4>2. \A m : PackedBelow(hist, stack, closing, m) => PackedBelow(hist, stack, closing', m)
        BY <1>2, <4>1 DEF PackedBelow
      <4>3. Packed'
        BY <1>2, <3>1, <3>5, <4>2 DEF Packed, Top
      <4>4. currentMarker # id
        BY <2>6, <3>5
      <4>5. OnTop'
        BY <1>2, <1>3, <2>3, <3>1, <3>5, <4>1, <4>4 DEF OnTop, Stays, Top
      <4> QED BY <4>3, <4>5
    <3>6. ASSUME NEW i \in 1..Len(stack), stack[i].id = id, stack' = RemoveAt(stack, i)
          PROVE  Packed' /\ OnTop'
      <4>1. PICK t : t = RemoveAt(stack, i)
        OBVIOUS
      <4>2. OneRemoved(hist, stack, i, seq, t)
        BY <1>1, <4>1, RemoveKeeps
      <4>3. /\ Len(stack') = Len(stack) - 1 /\ Len(stack) \in Nat \ {0}
            /\ stack' # <<>> => /\ i # Len(stack) => stack'[Len(stack')] = stack[Len(stack)]
                                /\ i = Len(stack) => /\ Len(stack) - 1 \in 1..Len(stack)
                                                     /\ stack'[Len(stack')] = stack[Len(stack) - 1]
        BY <3>6, <4>1, <4>2 DEF OneRemoved
      <4>4. Packed'
        <5> SUFFICES ASSUME NEW m \in 1..Len(hist), stack' # <<>>, hist[m].marker = stack'[Len(stack')].id,
                            NEW j \in 1..Len(stack'), stack'[j].id \notin closing',
                            NEW a \in 1..Len(hist), NEW k \in 1..Len(hist),
                            hist[a].marker = stack'[j].id, a < k, k < m
                     PROVE  InStack(stack', hist[k].marker)
          BY <1>2 DEF Packed, PackedBelow, Top
        <5>1. PICK l \in 1..Len(stack) : stack'[j] = stack[l] /\ stack[l].id \notin closing
          BY <2>2
        <5>2. stack # <<>> /\ Len(stack) \in 1..Len(stack)
          BY <4>3, EmptySeq
        <5>9. PICK v \in 1..Len(stack) : /\ hist[m].marker = stack[v].id /\ v <= Len(stack)
                                         /\ i = Len(stack) => v < i
          <6>1. CASE i = Len(stack)
            <7>1. Len(stack) - 1 \in 1..Len(stack) /\ hist[m].marker = stack[Len(stack) - 1].id
              BY <4>3, <6>1
            <7>2. Len(stack) - 1 < Len(stack) /\ Len(stack) - 1 <= Len(stack)
              BY <4>3
            <7> QED BY <6>1, <7>1, <7>2
          <6>2. CASE i # Len(stack)
            <7>1. hist[m].marker = stack[Len(stack)].id
              BY <4>3, <6>2
            <7>2. Len(stack) <= Len(stack)
              BY <4>3
            <7> QED BY <5>2, <6>2, <7>1, <7>2
          <6> QED BY <6>1, <6>2
        <5>3. PICK b \in 1..cur : hist[b].marker = stack[Len(stack)].id
          BY <3>2, <5>2 DEF Mirrors
        <5>4. b \in 1..Len(hist) /\ hist[b].marker = Top.id
          BY <1>1, <5>3 DEF Top
        <5>10. /\ hist[b].marker \in Nat /\ hist[m].marker \in Nat /\ hist[k].marker \in Nat
               /\ hist[cur].marker \in Nat /\ hist[a].marker \in Nat
          BY <1>1, <3>3, <5>4
        <5>11. /\ stack[l].id \in Nat /\ stack[v].id \in Nat /\ id \in Nat /\ stack[Len(stack)].id \in Nat
               /\ stack[l].id # 0 /\ stack[v].id # 0 /\ stack[Len(stack)].id # 0
               /\ hist[a].marker = stack[l].id
          BY <3>4, <3>6, <5>1, <5>2
        <5>5. PackedBelow(hist, stack, closing, b)
          BY <3>1, <5>2, <5>4 DEF Packed
        <5>6. m <= b
          <6>1. hist[m].marker <= hist[b].marker
            <7>1. v = Len(stack) \/ v < Len(stack)
              BY <4>3, <5>9
            <7>2. stack[v].id <= stack[Len(stack)].id
              <8>1. CASE v = Len(stack)
                <9>1. stack[v].id = stack[Len(stack)].id
                  BY <8>1
                <9> QED BY <5>11, <9>1
              <8>2. CASE v < Len(stack)
                <9>1. stack[v].id < stack[Len(stack)].id
                  BY <1>1, <5>2, <8>2 DEF StackGrows
                <9> QED BY <5>11, <9>1, SMTT(30)
              <8> QED BY <7>1, <8>1, <8>2
            <7> QED BY <5>3, <5>9, <5>10, <5>11, <7>2
          <6>2. hist[m].marker # 0 /\ hist[b].marker # 0
            BY <5>3, <5>9, <5>11
          <6>3. ~(b < m)
            <7> SUFFICES ASSUME b < m PROVE FALSE
              OBVIOUS
            <7>1. hist[b].marker < hist[m].marker
              BY <1>1, <5>4, <6>2 DEF MarkersGrow
            <7> QED BY <5>10, <6>1, <7>1, Less
          <6> QED BY <1>1, <5>4, <6>3
        <5>7. InStack(stack, hist[k].marker)
          <6>1. k < b
            BY <1>1, <5>4, <5>6
          <6> QED BY <5>1, <5>5, <6>1 DEF PackedBelow
        <5>8. hist[k].marker # id
          <6> SUFFICES ASSUME hist[k].marker = id PROVE FALSE
            OBVIOUS
          <6>1. stack[l].id < id
            BY <1>1, <1>4, <5>10, <5>11 DEF MarkersGrow
          <6>2. l < i
            <7>1. l # i
              BY <3>6, <5>11, <6>1
            <7>2. ~(i < l)
              <8> SUFFICES ASSUME i < l PROVE FALSE
                OBVIOUS
              <8>1. stack[i].id < stack[l].id
                BY <1>1 DEF StackGrows
              <8> QED BY <3>6, <5>11, <6>1, <8>1
            <7> QED BY <4>3, <7>1, <7>2
          <6>3. id < hist[m].marker
            <7>1. hist[m].marker # 0
              BY <3>4, <5>9
            <7> QED BY <1>1, <1>4, <7>1 DEF MarkersGrow
          <6>4. i < Len(stack)
            <7>1. ~(v < i)
              <8> SUFFICES ASSUME v < i PROVE FALSE
                OBVIOUS
              <8>1. stack[v].id < stack[i].id
                BY <1>1 DEF StackGrows
              <8> QED BY <3>4, <3>6, <5>9, <6>3, <8>1, SMTT(30)
            <7> QED BY <4>3, <5>9, <7>1
          <6>5. currentMarker # id
            <7> SUFFICES ASSUME hist[cur].marker = id PROVE FALSE
              BY DEF currentMarker
            <7>1. id < hist[b].marker
              BY <1>1, <3>4, <3>6, <5>2, <5>3, <6>4 DEF StackGrows
            <7>2. b # cur
              BY <3>3, <3>4, <3>6, <7>1, SMTT(30)
            <7>3. b < cur /\ hist[b].marker # 0
              BY <1>1, <3>4, <5>2, <5>3, <7>2
            <7>4. hist[b].marker < hist[cur].marker
              BY <1>1, <1>4, <5>4, <7>3 DEF MarkersGrow
            <7> QED BY <5>10, <5>11, <7>1, <7>4, Less
          <6>6. DOMAIN stack = 1..Len(stack)
            BY <1>1, Sizes
          <6> QED BY <3>1, <3>6, <5>1, <6>2, <6>4, <6>5, <6>6 DEF Buries, Unwinds
        <5> QED BY <1>5, <5>7, <5>8
      <4>5. OnTop'
        <5> SUFFICES ASSUME queue' = <<>>, NEW j \in 1..Len(stack'), stack'[j].id \notin closing'
                     PROVE  currentMarker = stack'[Len(stack')].id
          BY <1>2, <2>3 DEF OnTop, Stays, Top
        <5>1. queue = <<>> /\ currentMarker # id
          BY <1>1, <1>3, <1>6, EmptySeq
        <5>2. Stays
          BY <2>2 DEF Stays
        <5>3. currentMarker = stack[Len(stack)].id
          BY <3>1, <5>1, <5>2 DEF OnTop, Top
        <5>4. stack' # <<>>
          BY <1>5, <4>3, EmptySeq
        <5> QED BY <3>6, <4>3, <5>1, <5>3, <5>4
      <4> QED BY <4>4, <4>5
    <3> QED BY <1>1, <1>2, <3>5, <3>6, Sizes
  <2>11. ASSUME ~traversed' PROVE ByButtons'
    <3>1. Len(queue) = Len(ownPops) /\ (queue = <<>> /\ currentMarker > seeded => InStack(stack, currentMarker))
      BY <1>2, <2>1, <2>11 DEF Untangled, ByButtons
    <3>2. Len(queue') = Len(ownPops')
      BY <1>6, <3>1
    <3>3. queue' = <<>> => queue = <<>> /\ currentMarker # id
      BY <1>1, <1>3, <1>6, EmptySeq
    <3> QED BY <1>2, <1>5, <2>3, <3>1, <3>2, <3>3 DEF ByButtons
  <2> QED BY <2>4, <2>5, <2>7, <2>8, <2>9, <2>10, <2>11 DEF Untangled
<1> QED BY <1>7, <1>8

-----------------------------------------------------------------------------
(* The traversals *)

\* An entry that is no page's and no closed overlay's is the top overlay's.
LEMMA LandsOnTop ==
  ASSUME NEW h \in Histories, NEW s \in Stacks, NEW q \in Nat, MarkersGrow(h, q), StackGrows(s, q),
         NEW c \in 1..Len(h), Mirrors(h, s, c), NEW l \in 1..Len(s), Clear(h, s, l),
         h[c].marker = 0 \/ InStack(s, h[c].marker)
  PROVE  h[c].marker = s[Len(s)].id
<1>1. /\ Len(h) \in Nat /\ Len(s) \in Nat
      /\ \A k \in 1..Len(h) : h[k].marker \in Nat
      /\ \A i \in 1..Len(s) : s[i].id \in Nat /\ s[i].id # 0
  BY Sizes DEF StackGrows
<1>2. Len(s) \in 1..Len(s)
  BY <1>1
<1>3. h[c].marker # 0
  <2>1. PICK k \in 1..c : h[k].marker = s[l].id
    BY DEF Mirrors
  <2>2. k \in 1..Len(h) /\ (k = c \/ k < c)
    BY <1>1
  <2>3. CASE k = c
    BY <1>1, <2>1, <2>3
  <2>4. CASE k < c
    BY <2>1, <2>2, <2>4 DEF Clear
  <2> QED BY <2>2, <2>3, <2>4
<1>4. PICK i \in 1..Len(s) : s[i].id = h[c].marker
  BY <1>3, InStackIs
<1>5. PICK k \in 1..c : h[k].marker = s[Len(s)].id
  BY <1>2 DEF Mirrors
<1>6. k \in 1..Len(h) /\ (k = c \/ k < c) /\ (i = Len(s) \/ i < Len(s))
  BY <1>1
<1>7. CASE k = c
  BY <1>5, <1>7
<1>8. CASE k < c /\ i < Len(s)
  <2>1. h[k].marker # 0
    BY <1>1, <1>2, <1>5
  <2>2. h[k].marker < h[c].marker
    BY <1>3, <1>6, <1>8, <2>1 DEF MarkersGrow
  <2>3. s[i].id < s[Len(s)].id
    BY <1>2, <1>8 DEF StackGrows
  <2>4. h[c].marker < h[k].marker
    BY <1>4, <1>5, <2>3
  <2> QED BY <1>1, <1>6, <2>2, <2>4
<1> QED BY <1>4, <1>6, <1>7, <1>8

\* What is left of the queue goes back only.
LEMMA RestIs ==
  ASSUME NEW q \in Seq({-1, 1}), q # <<>>, \A i \in 2..Len(q) : q[i] = -1,
         NEW r, r = Tail(q) \/ r = Append(Tail(q), -1)
  PROVE  (r # <<>> => Head(r) = -1) /\ \A i \in 2..Len(r) : r[i] = -1
<1>1. /\ Tail(q) \in Seq({-1, 1}) /\ Len(Tail(q)) = Len(q) - 1 /\ Len(q) \in Nat \ {0}
      /\ \A i \in 1..(Len(q) - 1) : Tail(q)[i] = q[i + 1]
  BY TakenIs
<1>2. \A i \in 1..Len(Tail(q)) : Tail(q)[i] = -1
  <2> TAKE i \in 1..Len(Tail(q))
  <2>1. i \in 1..(Len(q) - 1) /\ i + 1 \in 2..Len(q)
    BY <1>1
  <2> QED BY <1>1, <2>1
<1>3. r \in Seq({-1, 1}) /\ Len(r) \in Nat /\ \A i \in 1..Len(r) : r[i] = -1
  <2>1. CASE r = Tail(q)
    BY <1>1, <1>2, <2>1
  <2>2. CASE r = Append(Tail(q), -1)
    <3>1. PICK t \in Seq({-1, 1}) : t = Tail(q)
      BY <1>1
    <3>2. /\ r \in Seq({-1, 1}) /\ Len(r) = Len(t) + 1 /\ Len(t) \in Nat
          /\ \A i \in 1..Len(t) : r[i] = t[i]
          /\ r[Len(t) + 1] = -1
      BY <2>2, <3>1, QueuedIs
    <3>3. \A i \in 1..Len(r) : i \in 1..Len(t) \/ i = Len(t) + 1
      BY <3>2
    <3>4. \A i \in 1..Len(t) : t[i] = -1
      BY <1>2, <3>1
    <3> QED BY <3>2, <3>3, <3>4
  <2> QED BY <2>1, <2>2
<1>4. r # <<>> => Head(r) = -1
  <2> HAVE r # <<>>
  <2>1. Len(r) \in Nat \ {0} /\ Head(r) = r[1]
    BY <1>3, TakenIs
  <2> QED BY <1>3, <2>1
<1> QED BY <1>3, <1>4

\* A traversal that does not close the top overlay leaves it below.
LEMMA BackMirrors ==
  ASSUME Always, Untangled, queue # <<>>, cur + Head(queue) \in 1..Len(hist),
         ownPops = <<>> => ~ClosesTop(cur + Head(queue))
  PROVE  Mirrors(hist, stack, cur + Head(queue))
<1>1. /\ hist \in Histories /\ stack \in Stacks /\ cur \in 1..Len(hist) /\ cur \in Nat /\ seq \in Nat
      /\ MarkersGrow(hist, seq) /\ StackGrows(stack, seq) /\ Len(stack) \in Nat /\ Len(hist) \in Nat
  BY StateIs
<1> DEFINE c == cur + Head(queue)
<1>2. /\ \A k \in 1..Len(hist) : hist[k].marker \in Nat
      /\ \A i \in 1..Len(stack) : stack[i].id \in Nat /\ stack[i].id # 0
      /\ Head(queue) \in {-1, 1} /\ Mirrors(hist, stack, cur) /\ c \in 1..Len(hist)
  BY <1>1, Sizes, TakenIs DEF StackGrows, Always, Typed, Untangled
<1>3. SUFFICES ASSUME NEW i \in 1..Len(stack) PROVE \E k \in 1..c : hist[k].marker = stack[i].id
  BY <1>2 DEF Mirrors
<1>4. PICK k \in 1..cur : hist[k].marker = stack[i].id
  BY <1>2 DEF Mirrors
<1>5. CASE Head(queue) = 1
  BY <1>1, <1>4, <1>5
<1>6. CASE Head(queue) = -1
  <2>1. c = cur - 1 /\ k \in 1..Len(hist) /\ (k \in 1..c \/ k = cur)
    BY <1>1, <1>6
  <2> SUFFICES ASSUME k = cur PROVE FALSE
    BY <1>4, <2>1
  <2>2. CASE ownPops # <<>>
    <3>1. InStack(stack, currentMarker)
      BY <1>1, <1>4, InStackIs DEF currentMarker
    <3> QED BY <2>2, <3>1 DEF Untangled, OwnPop
  <2>3. CASE ownPops = <<>>
    <3>1. stack # <<>> /\ Len(stack) \in 1..Len(stack)
      BY <1>1, EmptySeq
    <3>2. installed
      BY <3>1 DEF Always, NotInstalled
    <3>3. hist[c].marker # 0 /\ ~(hist[c].marker < stack[Len(stack)].id)
      BY <2>3, <3>1, <3>2 DEF ClosesTop, Top
    <3>4. hist[c].marker < hist[cur].marker
      <4>1. c < cur /\ hist[cur].marker # 0
        BY <1>1, <1>2, <1>4, <2>1
      <4> QED BY <1>1, <1>2, <3>3, <4>1 DEF MarkersGrow
    <3>5. stack[i].id <= stack[Len(stack)].id
      <4>1. i = Len(stack) \/ i < Len(stack)
        BY <1>1
      <4>2. CASE i = Len(stack)
        <5>1. stack[i].id = stack[Len(stack)].id
          BY <4>2
        <5> QED BY <1>2, <5>1
      <4>3. CASE i < Len(stack)
        <5>1. stack[i].id < stack[Len(stack)].id
          BY <1>1, <3>1, <4>3 DEF StackGrows
        <5> QED BY <1>2, <3>1, <5>1
      <4> QED BY <4>1, <4>2, <4>3
    <3>6. stack[i].id \in Nat /\ stack[Len(stack)].id \in Nat /\ hist[c].marker \in Nat
      BY <1>2, <3>1
    <3> QED BY <1>4, <3>3, <3>4, <3>5, <3>6
  <2> QED BY <2>2, <2>3
<1> QED BY <1>2, <1>5, <1>6

LEMMA PopNowhereKeeps ==
  ASSUME OverlayInv, PopNowhere
  PROVE  OverlayInv'
<1> USE DEF OverlayInv
<1>1. /\ hist \in Histories /\ stack \in Stacks /\ cur \in 1..Len(hist) /\ cur \in Nat /\ seq \in Nat
      /\ StackGrows(stack, seq) /\ Len(stack) \in Nat /\ Len(hist) \in Nat
      /\ Len(queue) \in Nat /\ Len(ownPops) \in Nat
  BY StateIs
<1>2. /\ queue # <<>> /\ cur + Head(queue) \notin 1..Len(hist) /\ queue' = Tail(queue)
      /\ UNCHANGED <<hist, cur, ownPops, stack, closing, seq, seeded, installed,
                     shown, buried, traversed, tangled>>
  BY DEF PopNowhere
<1>3. /\ queue \in Seq({-1, 1}) /\ queue' \in Seq({-1, 1}) /\ Head(queue) \in {-1, 1}
      /\ Len(queue') = Len(queue) - 1 /\ Len(queue) # 0
  BY <1>2, TakenIs DEF Always, Typed
<1>4. Always'
  BY <1>2, <1>3 DEF Always, Typed, OnPage, NotInstalled
<1>5. ASSUME ~tangled' PROVE Untangled'
  <2>1. Untangled
    BY <1>2, <1>5
  <2>2. cur = 1
    <3>1. CASE Head(queue) = 1
      <4>1. cur < Len(hist)
        BY <1>2, <2>1, <3>1 DEF Untangled, Ahead
      <4> QED BY <1>1, <1>2, <3>1, <4>1
    <3>2. CASE Head(queue) = -1
      BY <1>1, <1>2, <3>2
    <3> QED BY <1>3, <3>1, <3>2
  <2>3. currentMarker = 0 /\ ownPops = <<>>
    <3>1. currentMarker = 0
      BY <2>2 DEF Always, OnPage, currentMarker
    <3> QED BY <2>1, <3>1 DEF Untangled, OwnPop
  <2>4. stack = <<>> /\ Len(stack) = 0
    <3> SUFFICES ASSUME Len(stack) # 0 PROVE FALSE
      BY <1>1, EmptySeq DEF Stacks
    <3>1. 1 \in 1..Len(stack)
      BY <1>1
    <3>2. PICK k \in 1..cur : hist[k].marker = stack[1].id
      BY <2>1, <3>1 DEF Untangled, Mirrors
    <3>3. hist[1].marker = stack[1].id /\ stack[1].id # 0
      BY <1>1, <2>2, <3>1, <3>2 DEF StackGrows
    <3> QED BY <3>3 DEF Always, OnPage
  <2>5. (queue' # <<>> => Head(queue') = -1) /\ \A i \in 2..Len(queue') : queue'[i] = -1
    BY <1>2, <1>3, <2>1, RestIs DEF Untangled, Ahead
  <2>6. Len(ownPops) = 0 /\ Len(ownPops') = 0
    BY <1>2, <2>3, EmptySeq
  <2>7. Mirrors(hist', stack', cur') /\ Uncovered'
    BY <1>2, <2>4 DEF Mirrors, Uncovered
  <2>8. OwnPop' /\ LeftAhead' /\ Ahead'
    BY <1>1, <1>2, <1>3, <2>1, <2>3, <2>5, <2>6 DEF Untangled, OwnPop, LeftAhead, Ahead
  <2>9. Packed' /\ OnTop'
    BY <1>2, <2>4 DEF Packed, OnTop, Stays
  <2>10. traversed'
    <3>1. Len(queue) # Len(ownPops)
      BY <1>3, <2>6
    <3> QED BY <1>2, <2>1, <3>1 DEF Untangled, ByButtons
  <2> QED BY <2>7, <2>8, <2>9, <2>10 DEF Untangled
<1> QED BY <1>4, <1>5

LEMMA PopOtherKeeps ==
  ASSUME OverlayInv, PopOther
  PROVE  OverlayInv'
<1> USE DEF OverlayInv
<1>1. /\ hist \in Histories /\ stack \in Stacks /\ cur \in 1..Len(hist) /\ cur \in Nat /\ seq \in Nat
      /\ MarkersGrow(hist, seq) /\ StackGrows(stack, seq) /\ Len(stack) \in Nat /\ Len(hist) \in Nat
      /\ Len(queue) \in Nat /\ Len(ownPops) \in Nat /\ hist[cur].href = shown /\ shown \in Href
  BY StateIs
<1>2. PICK c \in 1..Len(hist) : c = cur + Head(queue)
  BY DEF PopOther
<1>3. queue # <<>> /\ UNCHANGED <<closing, seq, seeded, installed, ops, buried, traversed, tangled>>
  BY DEF PopOther
<1>4. /\ queue \in Seq({-1, 1}) /\ Tail(queue) \in Seq({-1, 1}) /\ Head(queue) \in {-1, 1}
      /\ Len(Tail(queue)) = Len(queue) - 1 /\ Len(queue) # 0
  BY <1>3, TakenIs DEF Always, Typed
<1>5. PICK u \in Href : u = IF ownPops # <<>> THEN Head(ownPops) ELSE hist[c].href
  BY <1>1, Sizes, TakenIs DEF Always, Typed
<1>6. PICK pops \in Seq(Href) : pops = IF ownPops # <<>> THEN Tail(ownPops) ELSE ownPops
  BY TakenIs DEF Always, Typed
<1>7. PICK n : n = CarryUrl(hist, stack, c, u)
  OBVIOUS
<1>8. Landed(n.hist, n.stack, c, pops) /\ (ownPops = <<>> => ~ClosesTop(c))
  <2>1. CASE ownPops # <<>>
    BY <1>2, <1>5, <1>6, <1>7, <2>1 DEF PopOther
  <2>2. CASE ownPops = <<>>
    <3>1. n = [hist |-> hist, stack |-> stack]
      BY <1>5, <1>7, <2>2 DEF CarryUrl
    <3> QED BY <1>2, <1>6, <2>2, <3>1 DEF PopOther
  <2> QED BY <2>1, <2>2
<1>9. OneCarried(hist, stack, c, u, n) /\ CarryKept(hist, stack, seq, n)
  BY <1>1, <1>7, CarryIs, CarryKeeps
<1>10. /\ n.hist \in Histories /\ Len(n.hist) = Len(hist) /\ n.hist[c].href = u
       /\ \A k \in 1..Len(hist) : n.hist[k].marker = hist[k].marker
       /\ n.stack \in Stacks /\ Len(n.stack) = Len(stack)
       /\ \A i \in 1..Len(stack) : n.stack[i].id = stack[i].id
       /\ MarkersGrow(n.hist, seq) /\ StackGrows(n.stack, seq)
       /\ (Mirrors(hist, stack, c) => Mirrors(n.hist, n.stack, c))
       /\ \A i \in 1..Len(stack) : Clear(hist, stack, i) => Clear(n.hist, n.stack, i)
       /\ \A cl, d : PackedBelow(hist, stack, cl, d) => PackedBelow(n.hist, n.stack, cl, d)
       /\ \A m : InStack(n.stack, m) <=> InStack(stack, m)
  BY <1>9 DEF OneCarried, CarryKept
<1>11. /\ hist' = n.hist /\ stack' = n.stack /\ cur' = c /\ shown' = u
       /\ currentMarker' = hist[c].marker
  BY <1>8, <1>10 DEF Landed, currentMarker
<1>12. \/ /\ installed /\ hist[c].marker # 0 /\ ~InStack(stack, hist[c].marker)
          /\ queue' = Append(Tail(queue), -1) /\ ownPops' = Append(pops, u)
       \/ /\ ~installed \/ hist[c].marker = 0 \/ InStack(stack, hist[c].marker)
          /\ queue' = Tail(queue) /\ ownPops' = pops
  BY <1>8, <1>10 DEF Landed, StalePop
<1>13. /\ queue' \in Seq({-1, 1}) /\ ownPops' \in Seq(Href)
       /\ \/ /\ installed /\ hist[c].marker # 0 /\ ~InStack(stack, hist[c].marker)
             /\ Len(queue') = Len(queue) /\ Len(ownPops') = Len(pops) + 1 /\ ownPops' = Append(pops, u)
          \/ /\ ~installed \/ hist[c].marker = 0 \/ InStack(stack, hist[c].marker)
             /\ Len(queue') = Len(queue) - 1 /\ ownPops' = pops
  <2>1. Append(Tail(queue), -1) \in Seq({-1, 1}) /\ Len(Append(Tail(queue), -1)) = Len(queue)
    <3>1. Append(Tail(queue), -1) \in Seq({-1, 1}) /\ Len(Append(Tail(queue), -1)) = Len(Tail(queue)) + 1
      BY <1>4, QueuedIs
    <3> QED BY <1>1, <1>4, <3>1
  <2>2. Append(pops, u) \in Seq(Href) /\ Len(Append(pops, u)) = Len(pops) + 1
    BY QueuedIs
  <2> QED BY <1>4, <1>12, <2>1, <2>2
<1>14. stack # <<>> \/ ownPops # <<>> => installed
  BY DEF Always, NotInstalled
<1>15. Always'
  <2>1. Typed'
    BY <1>3, <1>10, <1>11, <1>13 DEF Always, Typed
  <2>2. OnPage'
    <3>1. 1 \in 1..Len(hist)
      BY <1>1
    <3> QED BY <1>10, <1>11, <3>1 DEF Always, OnPage
  <2>3. NotInstalled'
    <3> SUFFICES ASSUME ~installed PROVE stack' = <<>> /\ ownPops' = <<>> /\ closing = {} /\ seq = seeded
      BY <1>3 DEF NotInstalled
    <3>1. stack = <<>> /\ ownPops = <<>> /\ closing = {} /\ seq = seeded
      BY DEF Always, NotInstalled
    <3>2. ownPops' = <<>>
      BY <1>6, <1>13, <3>1
    <3>3. stack' = <<>>
      BY <1>10, <1>11, <3>1, EmptySeq DEF Stacks
    <3> QED BY <3>1, <3>2, <3>3
  <2> QED BY <1>3, <1>10, <1>11, <2>1, <2>2, <2>3 DEF Always
<1>16. ASSUME ~tangled' PROVE Untangled'
  <2>1. Untangled
    BY <1>3, <1>16
  <2>2. (queue' # <<>> => Head(queue') = -1) /\ \A i \in 2..Len(queue') : queue'[i] = -1
    BY <1>3, <1>4, <1>12, <2>1, RestIs DEF Untangled, Ahead
  <2>3. Mirrors(hist, stack, c)
    BY <1>2, <1>3, <1>8, <2>1, BackMirrors
  <2>4. pops = <<>> /\ Len(pops) = 0 /\ (ownPops # <<>> => Len(ownPops) = 1 /\ u = shown)
        /\ (ownPops = <<>> => Len(ownPops) = 0) /\ Len(ownPops) <= Len(queue)
    <3>1. Len(ownPops) <= Len(queue) /\ (ownPops # <<>> => ownPops = <<shown>>)
      BY <2>1 DEF Untangled, OwnPop
    <3>2. CASE ownPops # <<>>
      BY <1>5, <1>6, <3>1, <3>2, EmptySeq
    <3>3. CASE ownPops = <<>>
      BY <1>6, <3>1, <3>3, EmptySeq
    <3> QED BY <3>2, <3>3
  <2>5. Len(queue') >= Len(ownPops') /\ (Len(queue') > Len(ownPops') => Len(queue) > Len(ownPops))
    <3>1. \/ Len(queue') = Len(queue) /\ Len(ownPops') = 1
          \/ Len(queue') = Len(queue) - 1 /\ Len(ownPops') = 0
      BY <1>13, <2>4
    <3>2. Len(queue) > 0 /\ (Len(ownPops) = 0 \/ Len(ownPops) = 1)
      BY <1>1, <1>4, <2>4
    <3>3. PICK ql \in Nat : ql = Len(queue)
      BY <1>1
    <3>4. PICK ol \in {0, 1} : ol = Len(ownPops)
      BY <3>2
    <3>5. CASE Len(queue') = ql /\ Len(ownPops') = 1
      BY <3>2, <3>3, <3>4, <3>5
    <3>6. CASE Len(queue') = ql - 1 /\ Len(ownPops') = 0
      BY <3>2, <3>3, <3>4, <3>6
    <3> QED BY <3>1, <3>3, <3>5, <3>6
  <2>6. Uncovered'
    <3> SUFFICES ASSUME NEW i \in 1..Len(stack), stack[i].id \notin closing \/ Len(queue) > Len(ownPops)
                 PROVE  Clear(hist', stack', i)
      BY <1>3, <1>10, <1>11, <2>5 DEF Uncovered
    <3> QED BY <1>10, <1>11, <2>1 DEF Untangled, Uncovered
  <2>7. LeftAhead'
    <3> SUFFICES ASSUME NEW id \in closing, ~InStack(stack, id), NEW k \in 1..c
                 PROVE  hist[k].marker # id
      BY <1>1, <1>3, <1>10, <1>11, SMTT(30) DEF LeftAhead
    <3>1. Head(queue) = -1
      BY <1>3, <1>4, <2>1 DEF Untangled, Ahead
    <3>2. k \in 1..cur
      BY <1>1, <1>2, <3>1
    <3> QED BY <2>1, <3>2 DEF Untangled, LeftAhead
  <2>8. OwnPop'
    <3> SUFFICES ASSUME ownPops' # <<>>
                 PROVE  ownPops' = <<u>> /\ hist[c].marker # 0 /\ ~InStack(stack, hist[c].marker)
      BY <1>10, <1>11, <2>5 DEF OwnPop
    <3>1. /\ hist[c].marker # 0 /\ ~InStack(stack, hist[c].marker)
          /\ ownPops' = Append(<<>>, u)
      BY <1>13, <2>4
    <3> QED BY <3>1
  <2>9. Ahead'
    BY <2>2 DEF Ahead
  <2>10. ASSUME ~buried' PROVE Packed' /\ OnTop'
    <3>1. Packed /\ OnTop
      BY <1>3, <2>1, <2>10 DEF Untangled
    <3>2. stack' # <<>> => stack # <<>> /\ Len(stack) \in 1..Len(stack) /\ Top'.id = Top.id
      <4> HAVE stack' # <<>>
      <4>1. stack # <<>> /\ Len(stack) \in 1..Len(stack)
        BY <1>1, <1>10, <1>11, EmptySeq DEF Stacks
      <4> QED BY <1>10, <1>11, <4>1 DEF Top
    <3>3. Packed'
      <4> SUFFICES ASSUME NEW m \in 1..Len(hist), stack' # <<>>, hist[m].marker = Top'.id
                   PROVE  PackedBelow(n.hist, n.stack, closing, m)
        BY <1>3, <1>10, <1>11 DEF Packed
      <4>1. PackedBelow(hist, stack, closing, m)
        BY <3>1, <3>2 DEF Packed
      <4> QED BY <1>10, <4>1
    <3>4. OnTop'
      <4> SUFFICES ASSUME queue' = <<>>, NEW l \in 1..Len(stack), stack[l].id \notin closing
                   PROVE  hist[c].marker = stack[Len(stack)].id
        <5>1. Stays' => stack' # <<>> /\ \E l \in 1..Len(stack) : stack[l].id \notin closing
          BY <1>3, <1>10, <1>11, EmptySeq DEF Stays
        <5>2. stack' # <<>> => Top'.id = stack[Len(stack)].id
          BY <3>2 DEF Top
        <5> QED BY <1>11, <5>1, <5>2 DEF OnTop
      <4>1. installed
        <5>1. stack # <<>>
          BY <1>1, EmptySeq
        <5> QED BY <1>14, <5>1
      <4>2. hist[c].marker = 0 \/ InStack(stack, hist[c].marker)
        <5>1. Len(queue') = 0
          BY EmptySeq
        <5> QED BY <1>4, <1>13, <4>1, <5>1
      <4>3. Clear(hist, stack, l)
        BY <2>1 DEF Untangled, Uncovered
      <4> QED BY <1>1, <2>3, <4>2, <4>3, LandsOnTop
    <3> QED BY <3>3, <3>4
  <2>11. ASSUME ~traversed' PROVE ByButtons'
    <3>1. Len(queue) = Len(ownPops)
      BY <1>3, <2>1, <2>11 DEF Untangled, ByButtons
    <3>2. ownPops # <<>> /\ Len(ownPops) = 1 /\ installed
      BY <1>4, <1>14, <2>4, <3>1
    <3>3. Len(queue') = Len(ownPops')
      BY <1>13, <2>4, <3>1, <3>2
    <3>4. ASSUME queue' = <<>>, hist[c].marker > seeded PROVE InStack(stack, hist[c].marker)
      <4>1. Len(queue') = 0
        BY <3>4, EmptySeq
      <4>2. hist[c].marker = 0 \/ InStack(stack, hist[c].marker)
        BY <1>4, <1>13, <3>2, <4>1
      <4>3. seeded \in Nat
        BY <1>1 DEF Always, Typed
      <4> QED BY <3>4, <4>2, <4>3
    <3> QED BY <1>3, <1>10, <1>11, <3>3, <3>4 DEF ByButtons
  <2>12. Mirrors(hist', stack', cur')
    BY <1>10, <1>11, <2>3
  <2> QED BY <2>6, <2>7, <2>8, <2>9, <2>10, <2>11, <2>12 DEF Untangled
<1> QED BY <1>15, <1>16

\* A Back over the top overlay's entry leaves that entry's page, and the overlays below.
TopGone(c, n, below) ==
    /\ c = cur - 1 /\ currentMarker = Top.id /\ TopTaken(n.hist, n.stack, cur, seq)
    /\ Mirrors(n.hist, below, c) /\ traversed
    /\ \A i \in 1..Len(below) : Clear(n.hist, below, i)
    /\ Top.href = shown
    /\ \A m : InStack(below, m) <=> InStack(stack, m) /\ m # Top.id
    /\ \A k \in 1..c : n.hist[k].marker # Top.id

LEMMA TopGoes ==
  ASSUME Always, Untangled, queue # <<>>, ownPops = <<>>, NEW c \in 1..Len(hist), c = cur + Head(queue),
         ClosesTop(c), NEW n, n = CarryUrl(hist, stack, c, Top.href), NEW below, below = Front(n.stack)
  PROVE  TopGone(c, n, below)
<1>1. /\ hist \in Histories /\ stack \in Stacks /\ cur \in 1..Len(hist) /\ cur \in Nat /\ seq \in Nat
      /\ MarkersGrow(hist, seq) /\ StackGrows(stack, seq) /\ Len(stack) \in Nat /\ Len(hist) \in Nat
      /\ Len(queue) \in Nat /\ Len(ownPops) \in Nat /\ hist[cur].href = shown /\ shown \in Href
  BY StateIs
<1>2. /\ \A k \in 1..Len(hist) : hist[k].marker \in Nat
      /\ \A i \in 1..Len(stack) : stack[i].id \in Nat /\ stack[i].id # 0 /\ stack[i].href \in Href
      /\ Head(queue) \in {-1, 1} /\ Mirrors(hist, stack, cur)
  BY <1>1, Sizes, TakenIs DEF StackGrows, Always, Typed, Untangled
<1>3. stack # <<>> /\ Len(stack) \in 1..Len(stack) /\ (hist[c].marker = 0 \/ hist[c].marker < Top.id)
  BY <1>1, EmptySeq DEF ClosesTop, Stacks
<1>4. Len(queue) > Len(ownPops) /\ traversed
  <2>1. Len(queue) # 0 /\ Len(ownPops) = 0
    BY EmptySeq DEF Always, Typed
  <2> QED BY <1>1, <2>1 DEF Untangled, ByButtons
<1>5. \A i \in 1..Len(stack) : Clear(hist, stack, i)
  BY <1>4 DEF Untangled, Uncovered
<1>6. PICK t \in 1..cur : hist[t].marker = Top.id
  BY <1>2, <1>3 DEF Mirrors, Top
<1>7. Top.id \in Nat /\ Top.id # 0 /\ Top.href \in Href /\ t \in 1..Len(hist) /\ t \in Nat /\ c \in Nat
  BY <1>1, <1>2, <1>3 DEF Top
<1>8. ~(t < c)
  <2> SUFFICES ASSUME t < c PROVE FALSE
    OBVIOUS
  <2>1. hist[c].marker # 0
    BY <1>3, <1>5, <1>6, <1>7 DEF Clear, Top
  <2>2. hist[t].marker < hist[c].marker
    BY <1>1, <1>6, <1>7, <2>1 DEF MarkersGrow
  <2> QED BY <1>2, <1>3, <1>6, <1>7, <2>1, <2>2
<1>9. t # c
  BY <1>2, <1>3, <1>6, <1>7
<1>10. c = cur - 1 /\ t = cur
  BY <1>1, <1>2, <1>6, <1>7, <1>8, <1>9
<1>11. currentMarker = Top.id
  BY <1>6, <1>10 DEF currentMarker
<1>12. OneCarried(hist, stack, c, Top.href, n) /\ CarryKept(hist, stack, seq, n)
  BY <1>1, <1>7, CarryIs, CarryKeeps
<1>13. /\ n.hist \in Histories /\ Len(n.hist) = Len(hist)
       /\ \A k \in 1..Len(hist) : n.hist[k].marker = hist[k].marker
       /\ n.stack \in Stacks /\ Len(n.stack) = Len(stack)
       /\ \A i \in 1..Len(stack) : n.stack[i].id = stack[i].id
       /\ MarkersGrow(n.hist, seq) /\ StackGrows(n.stack, seq)
       /\ (Mirrors(hist, stack, cur) => Mirrors(n.hist, n.stack, cur))
       /\ \A i \in 1..Len(stack) : Clear(hist, stack, i) => Clear(n.hist, n.stack, i)
       /\ \A m : InStack(n.stack, m) <=> InStack(stack, m)
  BY <1>1, <1>12 DEF OneCarried, CarryKept
<1>14. n.stack # <<>> /\ n.hist[cur].marker = n.stack[Len(n.stack)].id /\ n.hist[cur].marker = Top.id
  BY <1>1, <1>3, <1>11, <1>13, EmptySeq DEF currentMarker, Top, Stacks
<1>15. TopTaken(n.hist, n.stack, cur, seq)
  BY <1>1, <1>2, <1>13, <1>14, FrontKeeps
<1>16. /\ Mirrors(n.hist, below, c)
       /\ \A i \in 1..Len(below) : Clear(n.hist, n.stack, i) => Clear(n.hist, below, i)
       /\ \A m : InStack(below, m) <=> InStack(n.stack, m) /\ m # Top.id
  BY <1>10, <1>14, <1>15 DEF TopTaken
<1>17. Len(below) = Len(stack) - 1
  BY <1>13, <1>14, FrontIs
<1>18. \A i \in 1..Len(below) : Clear(n.hist, below, i)
  BY <1>1, <1>5, <1>13, <1>16, <1>17, SMTT(30)
<1>19. Top.href = shown
  BY <1>1, <1>2, <1>3, <1>11 DEF Mirrors, Top, currentMarker
<1>20. \A k \in 1..c : n.hist[k].marker # Top.id
  <2> SUFFICES ASSUME NEW k \in 1..c, hist[k].marker = Top.id PROVE FALSE
    BY <1>1, <1>10, <1>13
  <2>1. k \in 1..Len(hist) /\ k < cur
    BY <1>1, <1>10
  <2>2. hist[k].marker < hist[cur].marker
    BY <1>1, <1>7, <1>11, <2>1 DEF MarkersGrow, currentMarker
  <2> QED BY <1>7, <1>11, <2>2 DEF currentMarker
<1> QED BY <1>4, <1>10, <1>11, <1>13, <1>15, <1>16, <1>18, <1>19, <1>20 DEF TopGone

\* The top overlay's URL is carried down and the overlay off the stack.
TopLifted(c, n, below) ==
    /\ OneCarried(hist, stack, c, Top.href, n) /\ CarryKept(hist, stack, seq, n)
    /\ installed /\ Top.id \in 1..seq /\ Top \in [ov : Overlays, id : Nat, href : Href]
    /\ stack # <<>> /\ Len(stack) \in 1..Len(stack)
    /\ n.hist \in Histories /\ Len(n.hist) = Len(hist) /\ MarkersGrow(n.hist, seq)
    /\ n.hist[c].href = Top.href /\ n.hist[1].marker = 0
    /\ n.stack \in Stacks /\ n.stack # <<>>
    /\ below \in Stacks /\ Len(below) = Len(stack) - 1 /\ StackGrows(below, seq)
    /\ \A i \in 1..Len(below) : below[i].id = stack[i].id

LEMMA TopCarried ==
  ASSUME Always, NEW c \in 1..Len(hist), ClosesTop(c),
         NEW n, n = CarryUrl(hist, stack, c, Top.href), NEW below, below = Front(n.stack)
  PROVE  TopLifted(c, n, below)
<1>1. /\ hist \in Histories /\ stack \in Stacks /\ cur \in 1..Len(hist) /\ seq \in Nat
      /\ MarkersGrow(hist, seq) /\ StackGrows(stack, seq) /\ Len(stack) \in Nat /\ Len(hist) \in Nat
  BY StateIs
<1>2. installed /\ stack # <<>> /\ Len(stack) \in 1..Len(stack)
  BY <1>1, EmptySeq DEF ClosesTop, Stacks
<1>3. Top.id \in 1..seq /\ Top \in [ov : Overlays, id : Nat, href : Href]
  BY <1>1, <1>2, ElementOfSeq DEF StackGrows, Stacks, Top
<1>4. OneCarried(hist, stack, c, Top.href, n) /\ CarryKept(hist, stack, seq, n)
  BY <1>1, <1>3, CarryIs, CarryKeeps
<1>5. /\ n.hist \in Histories /\ Len(n.hist) = Len(hist) /\ n.hist[c].href = Top.href
      /\ \A k \in 1..Len(hist) : n.hist[k].marker = hist[k].marker
      /\ n.stack \in Stacks /\ Len(n.stack) = Len(stack)
      /\ \A i \in 1..Len(stack) : n.stack[i].id = stack[i].id
      /\ MarkersGrow(n.hist, seq) /\ StackGrows(n.stack, seq)
  BY <1>1, <1>4 DEF OneCarried, CarryKept
<1>6. n.hist[1].marker = 0
  <2>1. 1 \in 1..Len(hist)
    BY <1>1
  <2> QED BY <1>5, <2>1 DEF Always, OnPage
<1>7. n.stack # <<>>
  BY <1>1, <1>2, <1>5, EmptySeq DEF Stacks
<1>8. /\ below \in Stacks /\ Len(below) = Len(stack) - 1 /\ StackGrows(below, seq)
      /\ \A i \in 1..(Len(stack) - 1) : below[i] = n.stack[i] /\ i \in 1..Len(stack)
  BY <1>1, <1>5, <1>7, FrontIs, FrontGrows
<1>9. \A i \in 1..Len(below) : below[i].id = stack[i].id
  BY <1>5, <1>8
<1> QED BY <1>2, <1>3, <1>4, <1>5, <1>6, <1>7, <1>8, <1>9 DEF TopLifted

\* t is the stack s with two more overlays.
TwoMore(s, a, b, t) ==
    /\ t \in Stacks /\ Len(t) = Len(s) + 2 /\ Len(s) \in Nat
    /\ \A i \in 1..Len(s) : t[i] = s[i]
    /\ t[Len(s) + 1] = a /\ t[Len(s) + 2] = b

LEMMA PutBackIs ==
  ASSUME NEW s \in Stacks, NEW a \in [ov : Overlays, id : Nat, href : Href],
         NEW b \in [ov : Overlays, id : Nat, href : Href], NEW t, t = s \o <<a, b>>
  PROVE  TwoMore(s, a, b, t)
<1>1. PICK p \in Stacks : p = <<a, b>> /\ Len(p) = 2 /\ p[1] = a /\ p[2] = b
  <2>1. <<a, b>> \in Seq([ov : Overlays, id : Nat, href : Href])
    OBVIOUS
  <2>2. Len(<<a, b>>) = 2 /\ <<a, b>>[1] = a /\ <<a, b>>[2] = b
    OBVIOUS
  <2> QED BY <2>1, <2>2 DEF Stacks
<1>2. /\ t \in Stacks /\ Len(t) = Len(s) + Len(p)
      /\ \A i \in 1..(Len(s) + Len(p)) : t[i] = IF i <= Len(s) THEN s[i] ELSE p[i - Len(s)]
  BY <1>1, ConcatProperties DEF Stacks
<1>3. Len(s) \in Nat
  BY LenProperties DEF Stacks
<1>4. t[Len(s) + 1] = p[1] /\ t[Len(s) + 2] = p[2]
  <2>1. Len(s) + 1 - Len(s) = 1 /\ Len(s) + 2 - Len(s) = 2
    BY <1>3
  <2> QED BY <1>1, <1>2, <1>3, <2>1
<1> QED BY <1>1, <1>2, <1>3, <1>4 DEF TwoMore

\* The top overlay closes, and nothing else.
LEMMA TopClosedKeeps ==
  ASSUME OverlayInv, queue # <<>>, ownPops = <<>>, NEW c \in 1..Len(hist), c = cur + Head(queue),
         ClosesTop(c), NEW n, n = CarryUrl(hist, stack, c, Top.href), NEW below, below = Front(n.stack),
         hist' = n.hist, stack' = below, cur' = c, closing' = closing \cup {Top.id}, queue' = Tail(queue),
         shown' = n.hist[c].href,
         UNCHANGED <<ownPops, seq, seeded, installed, buried, traversed, tangled>>
  PROVE  OverlayInv'
<1> USE DEF OverlayInv
<1>1. /\ hist \in Histories /\ stack \in Stacks /\ cur \in 1..Len(hist) /\ cur \in Nat /\ seq \in Nat
      /\ MarkersGrow(hist, seq) /\ StackGrows(stack, seq) /\ Len(stack) \in Nat /\ Len(hist) \in Nat
      /\ Len(queue) \in Nat /\ Len(ownPops) \in Nat
  BY StateIs
<1>2. /\ queue \in Seq({-1, 1}) /\ queue' \in Seq({-1, 1}) /\ Len(queue') = Len(queue) - 1 /\ Len(queue) # 0
  BY TakenIs DEF Always, Typed
<1>3. /\ OneCarried(hist, stack, c, Top.href, n) /\ CarryKept(hist, stack, seq, n)
      /\ installed /\ Top.id \in 1..seq /\ Top \in [ov : Overlays, id : Nat, href : Href]
      /\ stack # <<>> /\ Len(stack) \in 1..Len(stack)
      /\ n.hist \in Histories /\ Len(n.hist) = Len(hist) /\ MarkersGrow(n.hist, seq)
      /\ n.hist[c].href = Top.href /\ n.hist[1].marker = 0
      /\ n.stack \in Stacks /\ n.stack # <<>>
      /\ below \in Stacks /\ Len(below) = Len(stack) - 1 /\ StackGrows(below, seq)
      /\ \A i \in 1..Len(below) : below[i].id = stack[i].id
  <2>1. TopLifted(c, n, below)
    BY TopCarried
  <2> QED BY <2>1 DEF TopLifted
<1>4. Always'
  <2>1. Typed'
    <3>1. Top.href \in Href /\ closing' \subseteq 1..seq
      BY <1>3 DEF Always, Typed
    <3> QED BY <1>2, <1>3, <3>1 DEF Always, Typed
  <2> QED BY <1>3, <2>1 DEF Always, OnPage, NotInstalled
<1>5. ASSUME ~tangled' PROVE Untangled'
  <2>1. Untangled
    BY <1>5
  <2>2. /\ c = cur - 1 /\ currentMarker = Top.id /\ TopTaken(n.hist, n.stack, cur, seq)
        /\ Mirrors(n.hist, below, c) /\ traversed
        /\ \A i \in 1..Len(below) : Clear(n.hist, below, i)
        /\ \A m : InStack(below, m) <=> InStack(stack, m) /\ m # Top.id
        /\ \A k \in 1..c : n.hist[k].marker # Top.id
    <3>1. TopGone(c, n, below)
      BY <2>1, TopGoes
    <3> QED BY <3>1 DEF TopGone
  <2>3. /\ \A k \in 1..Len(hist) : n.hist[k].marker = hist[k].marker
        /\ \A cl, d : PackedBelow(hist, stack, cl, d) => PackedBelow(n.hist, n.stack, cl, d)
    BY <1>3 DEF OneCarried, CarryKept
  <2>4. (queue' # <<>> => Head(queue') = -1) /\ \A i \in 2..Len(queue') : queue'[i] = -1
    BY <1>2, <2>1, RestIs DEF Untangled, Ahead
  <2>5. Len(ownPops') = 0 /\ ownPops' = <<>>
    BY EmptySeq
  <2>6. OwnPop' /\ Ahead'
    BY <1>1, <1>2, <2>4, <2>5 DEF OwnPop, Ahead
  <2>7. LeftAhead'
    <3> SUFFICES ASSUME NEW id \in closing \cup {Top.id}, ~InStack(below, id), NEW k \in 1..c
                 PROVE  n.hist[k].marker # id
      BY DEF LeftAhead
    <3>1. CASE id = Top.id
      BY <2>2, <3>1
    <3>2. CASE id # Top.id
      <4>1. id \in closing /\ ~InStack(stack, id)
        BY <2>2, <3>2
      <4>2. k \in 1..cur /\ k \in 1..Len(hist)
        BY <1>1, <2>2
      <4> QED BY <2>1, <2>3, <4>1, <4>2 DEF Untangled, LeftAhead
    <3> QED BY <3>1, <3>2
  <2>8. ASSUME ~buried' PROVE Packed' /\ OnTop'
    <3>1. PackedBelow(hist, stack, closing, cur)
      BY <1>1, <1>3, <2>1, <2>2, <2>8 DEF Untangled, Packed, currentMarker
    <3>2. PackedBelow(n.hist, below, closing', cur)
      <4>1. PackedBelow(n.hist, n.stack, closing, cur)
        BY <2>3, <3>1
      <4> QED BY <2>2, <4>1 DEF TopTaken
    <3>3. \A k \in 1..Len(hist) : n.hist[k].marker \in Nat
      BY <1>3, Sizes
    <3>4. \A i \in 1..Len(below) : below[i].id \in Nat /\ below[i].id # 0
      BY <1>3 DEF StackGrows
    <3>5. Packed'
      <4> SUFFICES ASSUME NEW m \in 1..Len(hist), below # <<>>, n.hist[m].marker = below[Len(below)].id
                   PROVE  PackedBelow(n.hist, below, closing', m)
        BY <1>3 DEF Packed, Top
      <4>1. Len(below) \in 1..Len(below)
        BY <1>1, <1>3, EmptySeq DEF Stacks
      <4>2. n.hist[m].marker # 0 /\ n.hist[m].marker < Top.id
        <5>1. below[Len(below)].id = stack[Len(below)].id /\ below[Len(below)].id # 0
          BY <1>3, <3>4, <4>1
        <5>2. Len(below) < Len(stack) /\ Len(below) \in 1..Len(stack)
          BY <1>1, <1>3, <4>1
        <5>3. stack[Len(below)].id < stack[Len(stack)].id
          BY <1>1, <1>3, <5>2 DEF StackGrows
        <5> QED BY <5>1, <5>3 DEF Top
      <4>3. m <= cur
        <5> SUFFICES ASSUME cur < m PROVE FALSE
          BY <1>1
        <5>1. n.hist[cur].marker = Top.id /\ n.hist[cur].marker # 0 /\ n.hist[m].marker # 0
              /\ cur \in 1..Len(n.hist) /\ m \in 1..Len(n.hist)
          BY <1>1, <1>3, <2>2, <2>3, <4>2, SMTT(30) DEF currentMarker
        <5>2. n.hist[cur].marker < n.hist[m].marker
          BY <1>3, <5>1 DEF MarkersGrow
        <5> QED BY <1>3, <3>3, <4>2, <5>1, <5>2
      <4>4. \A k \in 1..Len(hist) : k < m => k < cur
        BY <1>1, <4>3
      <4>5. \A k \in 1..Len(n.hist) : k < m => k < cur
        BY <1>3, <4>4
      <4> QED BY <3>2, <4>5, PackedLower
    <3>6. OnTop'
      <4> SUFFICES ASSUME NEW l \in 1..Len(below), below[l].id \notin closing'
                   PROVE  n.hist[c].marker = below[Len(below)].id
        BY DEF OnTop, Stays, Top, currentMarker
      <4>1. PICK k \in 1..c : n.hist[k].marker = below[l].id
        BY <2>2 DEF Mirrors
      <4>2. InStack(below, n.hist[c].marker)
        <5>1. CASE k = c
          BY <1>3, <4>1, <5>1, InStackIs
        <5>2. CASE k # c
          <6>1. k \in 1..Len(hist) /\ k < c /\ c < cur
            BY <1>1, <2>2, <5>2
          <6> QED BY <1>3, <3>2, <4>1, <6>1 DEF PackedBelow
        <5> QED BY <5>1, <5>2
      <4>3. /\ Clear(n.hist, below, l) /\ Mirrors(n.hist, below, c) /\ c \in 1..Len(n.hist)
            /\ n.hist \in Histories /\ below \in Stacks /\ seq \in Nat
            /\ MarkersGrow(n.hist, seq) /\ StackGrows(below, seq)
        BY <1>1, <1>3, <2>2
      <4> QED BY <4>2, <4>3, LandsOnTop, SMTT(30)
    <3> QED BY <3>5, <3>6
  <2>9. Mirrors(hist', stack', cur') /\ Uncovered' /\ traversed'
    BY <2>2 DEF Uncovered
  <2> QED BY <2>6, <2>7, <2>8, <2>9 DEF Untangled
<1> QED BY <1>4, <1>5

\* The top overlay gives way to a new one, or to itself with a new entry.
LEMMA TopPushedKeeps ==
  ASSUME OverlayInv, queue # <<>>, ownPops = <<>>, NEW c \in 1..Len(hist), c = cur + Head(queue),
         ClosesTop(c), NEW n, n = CarryUrl(hist, stack, c, Top.href), NEW below, below = Front(n.stack),
         seq < MaxIds, NEW o \in Overlays, NEW m, m = PushEntry(o, n.hist, c, below),
         hist' = m.hist, stack' = m.stack, cur' = c + 1, seq' = seq + 1, queue' = Tail(queue),
         shown' = n.hist[c].href,
         closing' = closing \cup {Top.id} \/ (closing' = closing /\ Top.id \notin closing),
         UNCHANGED <<ownPops, seeded, installed, buried, traversed, tangled>>
  PROVE  OverlayInv'
<1> USE DEF OverlayInv
<1>1. /\ hist \in Histories /\ stack \in Stacks /\ cur \in 1..Len(hist) /\ cur \in Nat /\ seq \in Nat
      /\ MarkersGrow(hist, seq) /\ StackGrows(stack, seq) /\ Len(stack) \in Nat /\ Len(hist) \in Nat
      /\ Len(queue) \in Nat /\ Len(ownPops) \in Nat
  BY StateIs
<1>2. /\ queue \in Seq({-1, 1}) /\ queue' \in Seq({-1, 1}) /\ Len(queue') = Len(queue) - 1 /\ Len(queue) # 0
  BY TakenIs DEF Always, Typed
<1>3. /\ OneCarried(hist, stack, c, Top.href, n) /\ CarryKept(hist, stack, seq, n)
      /\ installed /\ Top.id \in 1..seq /\ Top \in [ov : Overlays, id : Nat, href : Href]
      /\ n.hist \in Histories /\ Len(n.hist) = Len(hist) /\ MarkersGrow(n.hist, seq)
      /\ n.hist[c].href = Top.href /\ n.hist[1].marker = 0
      /\ below \in Stacks /\ StackGrows(below, seq) /\ Len(below) \in Nat
  <2>1. TopLifted(c, n, below)
    BY TopCarried
  <2>2. below \in Stacks
    BY <2>1 DEF TopLifted
  <2>3. Len(below) \in Nat
    BY <1>1, <2>2, Sizes
  <2> QED BY <2>1, <2>3 DEF TopLifted
<1>10. c \in Nat /\ c + 1 \in 1..(c + 1) /\ \A k \in 1..(c + 1) : (k \in 1..c /\ k \in 1..Len(hist)) \/ k = c + 1
  BY <1>1
<1> DEFINE e == [href |-> Top.href, marker |-> seq + 1]
           x == [ov |-> o, id |-> seq + 1, href |-> Top.href]
<1>4. /\ e \in [href : Href, marker : Nat] /\ e.marker = seq + 1 /\ e.href = Top.href
      /\ x \in [ov : Overlays, id : Nat, href : Href] /\ x.id = seq + 1 /\ x.href = e.href
      /\ Top.href \in Href
  BY <1>1, <1>3
<1>5. hist' = Pushed(n.hist, c, e) /\ stack' = Append(below, x)
  BY <1>3 DEF PushEntry
<1> HIDE DEF e, x
<1>6. /\ hist' \in Histories /\ Len(hist') = c + 1 /\ hist'[1] = n.hist[1] /\ hist'[c + 1] = e
      /\ stack' \in Stacks /\ Len(stack') = Len(below) + 1 /\ stack' # <<>> /\ stack'[Len(stack')] = x
      /\ MarkersGrow(hist', seq + 1) /\ StackGrows(stack', seq + 1)
      /\ (Mirrors(n.hist, below, c) => Mirrors(hist', stack', c + 1))
      /\ \A i \in 1..Len(below) : stack'[i] = below[i] /\ (Clear(n.hist, below, i) => Clear(hist', stack', i))
      /\ Clear(hist', stack', Len(below) + 1)
      /\ \A cl : PackedBelow(n.hist, below, cl, c + 1) => PackedBelow(hist', stack', cl, c + 1)
  <2>1. PICK g : g = Pushed(n.hist, c, e)
    OBVIOUS
  <2>2. PICK t : t = Append(below, x)
    OBVIOUS
  <2>3. c \in 1..Len(n.hist) /\ n.hist \in Histories /\ below \in Stacks /\ seq \in Nat
        /\ MarkersGrow(n.hist, seq) /\ StackGrows(below, seq)
    BY <1>1, <1>3
  <2>4. OnePushed(n.hist, below, c, seq, e, x, g, t)
    BY <1>4, <2>1, <2>2, <2>3, PushKeeps
  <2>5. OnePushed(n.hist, below, c, seq, e, x, hist', stack')
    BY <1>5, <2>1, <2>2, <2>4
  <2> QED BY <2>5 DEF OnePushed
<1>11. Len(hist') = c + 1 /\ hist'[c + 1].marker = seq + 1 /\ MarkersGrow(hist', seq + 1)
  BY <1>4, <1>6
<1>12. /\ stack' \in Stacks /\ Len(stack') = Len(below) + 1
       /\ \A i \in 1..Len(below) : i \in 1..Len(stack') /\ stack'[i] = below[i]
  <2>1. \A i \in 1..Len(below) : i \in 1..(Len(below) + 1)
    BY <1>3
  <2>2. stack' \in Stacks /\ Len(stack') = Len(below) + 1 /\ \A i \in 1..Len(below) : stack'[i] = below[i]
    BY <1>6
  <2> QED BY <2>1, <2>2
<1>7. \A k \in 1..c : hist'[k] = n.hist[k]
  BY <1>3, <1>4, <1>5, PushedIs
<1>8. Always'
  <2>1. Typed'
    <3>1. c + 1 \in 1..Len(hist')
      BY <1>6, <1>10
    <3>2. closing \subseteq 1..seq /\ seeded \in 0..seq
      BY DEF Always, Typed
    <3>3. closing' \subseteq 1..(seq + 1)
      <4>1. closing' \subseteq 1..seq
        BY <1>3, <3>2
      <4> QED BY <1>1, <4>1
    <3>4. seeded \in 0..(seq + 1) /\ seq + 1 \in 0..MaxIds
      BY <1>1, <3>2, OverlayAssumption
    <3> QED BY <1>2, <1>3, <1>4, <1>6, <3>1, <3>3, <3>4 DEF Always, Typed
  <2> QED BY <1>3, <1>4, <1>6, <2>1 DEF Always, OnPage, NotInstalled
<1>9. ASSUME ~tangled' PROVE Untangled'
  <2>1. Untangled
    BY <1>9
  <2>2. /\ c = cur - 1 /\ currentMarker = Top.id /\ TopTaken(n.hist, n.stack, cur, seq)
        /\ Mirrors(n.hist, below, c) /\ traversed
        /\ \A i \in 1..Len(below) : Clear(n.hist, below, i)
        /\ \A k : InStack(below, k) <=> InStack(stack, k) /\ k # Top.id
        /\ \A k \in 1..c : n.hist[k].marker # Top.id
    <3>1. TopGone(c, n, below)
      BY <2>1, TopGoes
    <3> QED BY <3>1 DEF TopGone
  <2>3. /\ \A k \in 1..Len(hist) : n.hist[k].marker = hist[k].marker
        /\ \A cl, d : PackedBelow(hist, stack, cl, d) => PackedBelow(n.hist, n.stack, cl, d)
    BY <1>3 DEF OneCarried, CarryKept
  <2>4. (queue' # <<>> => Head(queue') = -1) /\ \A i \in 2..Len(queue') : queue'[i] = -1
    BY <1>2, <2>1, RestIs DEF Untangled, Ahead
  <2>5. Len(ownPops') = 0 /\ ownPops' = <<>>
    BY EmptySeq
  <2>6. OwnPop' /\ Ahead'
    BY <1>1, <1>2, <2>4, <2>5 DEF OwnPop, Ahead
  <2>7. LeftAhead'
    <3> SUFFICES ASSUME NEW id \in closing', ~InStack(stack', id), NEW k \in 1..(c + 1), hist'[k].marker = id
                 PROVE  FALSE
      BY DEF LeftAhead
    <3>1. id \in 1..seq
      BY <1>3 DEF Always, Typed
    <3>2. k \in 1..c /\ k \in 1..Len(hist) /\ k \in 1..cur
      <4>1. k # c + 1
        BY <1>1, <1>11, <3>1
      <4>2. k \in 1..c /\ k \in 1..Len(hist)
        BY <1>10, <4>1
      <4> QED BY <1>1, <2>2, <4>2
    <3>3. hist[k].marker = id
      BY <1>7, <2>3, <3>2
    <3>4. id # Top.id
      BY <1>7, <2>2, <3>2
    <3>5. ~InStack(below, id)
      <4> SUFFICES ASSUME NEW i \in 1..Len(below), below[i].id = id PROVE FALSE
        BY <1>3, InStackIs
      <4>1. i \in 1..Len(stack') /\ stack'[i].id = id
        BY <1>12
      <4> QED BY <1>12, <4>1, InStackIs
    <3> QED BY <2>1, <2>2, <3>2, <3>3, <3>4, <3>5 DEF Untangled, LeftAhead
  <2>8. currentMarker' = seq + 1 /\ Top'.id = seq + 1
    BY <1>4, <1>6 DEF currentMarker, Top
  <2>9. ASSUME ~buried' PROVE Packed' /\ OnTop'
    <3>1. PackedBelow(hist, stack, closing, cur)
      <4>1. stack # <<>> /\ hist[cur].marker = Top.id
        BY <2>2 DEF ClosesTop, currentMarker
      <4> QED BY <1>1, <2>1, <2>9, <4>1 DEF Untangled, Packed
    <3>2. PackedBelow(n.hist, below, closing', cur)
      <4>1. PackedBelow(n.hist, n.stack, closing, cur) /\ closing \subseteq closing'
        BY <2>3, <3>1
      <4> QED BY <2>2, <4>1 DEF TopTaken
    <3>3. \A k \in 1..Len(hist') : hist'[k].marker = seq + 1 => k = c + 1
      <4> SUFFICES ASSUME NEW k \in 1..(c + 1), hist'[k].marker = seq + 1, k # c + 1 PROVE FALSE
        BY <1>11
      <4>1. k \in 1..c /\ k \in 1..Len(hist)
        BY <1>10
      <4>2. hist'[k].marker = n.hist[k].marker
        BY <1>7, <4>1
      <4>3. n.hist[k].marker <= seq
        BY <1>3, <4>1 DEF MarkersGrow
      <4> QED BY <1>1, <4>2, <4>3
    <3>4. PackedBelow(hist', stack', closing', c + 1)
      <4>1. c + 1 = cur
        BY <1>1, <2>2
      <4> QED BY <1>6, <3>2, <4>1
    <3>5. Packed'
      <4> SUFFICES ASSUME NEW z \in 1..Len(hist'), hist'[z].marker = seq + 1
                   PROVE  PackedBelow(hist', stack', closing', z)
        BY <2>8 DEF Packed
      <4> QED BY <3>3, <3>4
    <3> QED BY <2>8, <3>5 DEF OnTop
  <2>10. Mirrors(hist', stack', cur') /\ traversed'
    BY <1>6, <2>2
  <2>11. Uncovered'
    <3> SUFFICES ASSUME NEW i \in 1..Len(stack') PROVE Clear(hist', stack', i)
      BY DEF Uncovered
    <3>1. i \in 1..(Len(below) + 1)
      BY <1>12
    <3>2. Len(below) \in Nat
      BY <1>3
    <3>3. i \in 1..Len(below) \/ i = Len(below) + 1
      BY <3>1, <3>2
    <3> QED BY <1>6, <2>2, <3>3
  <2> QED BY <2>6, <2>7, <2>9, <2>10, <2>11 DEF Untangled
<1> QED BY <1>8, <1>9

LEMMA PopTopKeeps ==
  ASSUME OverlayInv, PopTop
  PROVE  OverlayInv'
<1>1. PICK c \in 1..Len(hist) : c = cur + Head(queue) /\ ClosesTop(c)
  BY DEF PopTop
<1>2. PICK n : n = CarryUrl(hist, stack, c, Top.href)
  OBVIOUS
<1>3. PICK below : below = Front(n.stack)
  OBVIOUS
<1>4. /\ queue # <<>> /\ ownPops = <<>> /\ queue' = Tail(queue) /\ shown' = n.hist[c].href
      /\ closing' = closing \cup {Top.id}
      /\ UNCHANGED <<ownPops, seeded, installed, buried, traversed, tangled>>
      /\ \/ hist' = n.hist /\ cur' = c /\ stack' = below /\ seq' = seq
         \/ \E o \in Overlays :
              /\ seq < MaxIds /\ seq' = seq + 1 /\ cur' = c + 1
              /\ hist' = PushEntry(o, n.hist, c, below).hist
              /\ stack' = PushEntry(o, n.hist, c, below).stack
  BY <1>1, <1>2, <1>3 DEF PopTop
<1>5. CASE hist' = n.hist /\ cur' = c /\ stack' = below /\ seq' = seq
  BY <1>1, <1>2, <1>3, <1>4, <1>5, TopClosedKeeps
<1>6. CASE \E o \in Overlays :
              /\ seq < MaxIds /\ seq' = seq + 1 /\ cur' = c + 1
              /\ hist' = PushEntry(o, n.hist, c, below).hist
              /\ stack' = PushEntry(o, n.hist, c, below).stack
  <2>1. PICK o \in Overlays :
              /\ seq < MaxIds /\ seq' = seq + 1 /\ cur' = c + 1
              /\ hist' = PushEntry(o, n.hist, c, below).hist
              /\ stack' = PushEntry(o, n.hist, c, below).stack
    BY <1>6
  <2>2. PICK m : m = PushEntry(o, n.hist, c, below)
    OBVIOUS
  <2>3. hist' = m.hist /\ stack' = m.stack
    BY <2>1, <2>2
  <2> QED BY <1>1, <1>2, <1>3, <1>4, <2>1, <2>2, <2>3, TopPushedKeeps
<1> QED BY <1>4, <1>5, <1>6

\* The refused overlay, put back below the one it opened: the stack still grows.
LEMMA PutBackKeeps ==
  ASSUME Always, NEW c \in 1..Len(hist), ClosesTop(c), NEW n, n = CarryUrl(hist, stack, c, Top.href),
         NEW below, below = Front(n.stack), seq < MaxIds,
         NEW o \in Overlays, NEW m, m = PushEntry(o, n.hist, c, below),
         queue # <<>>, hist' = m.hist, stack' = PutBack(below, Top, Last(m.stack)),
         cur' = c + 1, seq' = seq + 1, queue' = Tail(queue), shown' = n.hist[c].href,
         UNCHANGED <<ownPops, closing, seeded, installed>>
  PROVE  Always'
<1>1. /\ stack \in Stacks /\ StackGrows(stack, seq) /\ seq \in Nat /\ Len(stack) \in Nat /\ Len(hist) \in Nat
  BY StateIs
<1>2. queue' \in Seq({-1, 1})
  BY TakenIs DEF Always, Typed
<1>3. /\ installed /\ Top.id \in 1..seq /\ Top \in [ov : Overlays, id : Nat, href : Href]
      /\ n.hist \in Histories /\ Len(n.hist) = Len(hist) /\ MarkersGrow(n.hist, seq)
      /\ n.hist[c].href = Top.href /\ n.hist[1].marker = 0 /\ Len(stack) \in 1..Len(stack)
      /\ below \in Stacks /\ StackGrows(below, seq) /\ Len(below) \in Nat /\ Len(below) = Len(stack) - 1
      /\ \A i \in 1..Len(below) : below[i].id = stack[i].id
  <2>1. TopLifted(c, n, below)
    BY TopCarried
  <2>2. below \in Stacks
    BY <2>1 DEF TopLifted
  <2>3. Len(below) \in Nat
    BY <1>1, <2>2, Sizes
  <2> QED BY <2>1, <2>3 DEF TopLifted
<1> DEFINE e == [href |-> Top.href, marker |-> seq + 1]
           x == [ov |-> o, id |-> seq + 1, href |-> Top.href]
<1>4. /\ e \in [href : Href, marker : Nat] /\ e.marker = seq + 1 /\ e.href = Top.href
      /\ x \in [ov : Overlays, id : Nat, href : Href] /\ x.id = seq + 1 /\ x.href = e.href
      /\ Top.href \in Href
  BY <1>1, <1>3
<1>5. hist' = Pushed(n.hist, c, e) /\ m.stack = Append(below, x)
  BY <1>3 DEF PushEntry
<1> HIDE DEF e, x
<1>6. Last(m.stack) = x
  BY <1>3, <1>4, <1>5, AppendIs DEF Last
<1>7. stack' = below \o <<Top, x>>
  BY <1>6 DEF PutBack
<1>8. /\ stack' \in Stacks /\ Len(stack') = Len(below) + 2
      /\ \A i \in 1..Len(below) : stack'[i] = below[i]
      /\ stack'[Len(below) + 1] = Top /\ stack'[Len(below) + 2] = x
  <2>1. PICK top \in [ov : Overlays, id : Nat, href : Href] : top = Top
    BY <1>3
  <2>2. PICK t : t = below \o <<top, x>>
    OBVIOUS
  <2>3. below \in Stacks /\ x \in [ov : Overlays, id : Nat, href : Href]
    BY <1>3, <1>4
  <2>4. TwoMore(below, top, x, t)
    BY <2>2, <2>3, PutBackIs
  <2>5. stack' = t
    BY <1>7, <2>1, <2>2
  <2> QED BY <2>1, <2>4, <2>5 DEF TwoMore
<1>9. /\ hist' \in Histories /\ hist'[1] = n.hist[1] /\ hist'[c + 1] = e /\ Len(hist') = c + 1
      /\ MarkersGrow(hist', seq + 1)
  <2>1. PICK g : g = Pushed(n.hist, c, e)
    OBVIOUS
  <2>2. PICK t : t = Append(below, x)
    OBVIOUS
  <2>3. c \in 1..Len(n.hist) /\ n.hist \in Histories /\ below \in Stacks /\ seq \in Nat
        /\ MarkersGrow(n.hist, seq) /\ StackGrows(below, seq)
    BY <1>1, <1>3
  <2>4. OnePushed(n.hist, below, c, seq, e, x, g, t)
    BY <1>4, <2>1, <2>2, <2>3, PushKeeps
  <2> QED BY <1>5, <2>1, <2>4 DEF OnePushed
<1>10. StackGrows(stack', seq + 1)
  <2>1. \A i \in 1..Len(stack') : i \in 1..Len(below) \/ i = Len(below) + 1 \/ i = Len(below) + 2
    BY <1>3, <1>8
  <2>2. \A i \in 1..(Len(below) + 1) : i \in 1..Len(stack) /\ stack'[i].id = stack[i].id
    <3> TAKE i \in 1..(Len(below) + 1)
    <3>1. CASE i \in 1..Len(below)
      <4>1. i \in 1..Len(stack)
        BY <1>1, <1>3, <3>1
      <4>2. stack'[i] = below[i] /\ below[i].id = stack[i].id
        BY <1>3, <1>8, <3>1
      <4> QED BY <4>1, <4>2
    <3>2. CASE i = Len(below) + 1
      <4>1. i = Len(stack)
        BY <1>1, <1>3, <3>2
      <4> QED BY <1>3, <1>8, <3>2, <4>1 DEF Top
    <3> QED BY <1>3, <3>1, <3>2
  <2>3. \A i \in 1..(Len(below) + 1) : stack'[i].id \in 1..seq
    BY <1>1, <2>2 DEF StackGrows
  <2>4. stack'[Len(below) + 2].id = seq + 1
    BY <1>4, <1>8
  <2>5. \A i \in 1..Len(stack') : i \in 1..(Len(below) + 1) \/ i = Len(below) + 2
    BY <1>3, <1>8
  <2>6. \A i \in 1..Len(stack') : stack'[i].id \in 1..(seq + 1)
    <3>1. \A z \in 1..seq : z \in 1..(seq + 1)
      BY <1>1
    <3>2. seq + 1 \in 1..(seq + 1)
      BY <1>1
    <3> QED BY <2>3, <2>4, <2>5, <3>1, <3>2
  <2>7. ASSUME NEW i \in 1..Len(stack'), NEW j \in 1..Len(stack'), i < j PROVE stack'[i].id < stack'[j].id
    <3>1. i \in 1..(Len(below) + 1)
      BY <1>3, <1>8, <2>7
    <3>2. CASE j \in 1..(Len(below) + 1)
      BY <1>1, <2>2, <2>7, <3>1, <3>2 DEF StackGrows
    <3>3. CASE j = Len(below) + 2
      <4>1. stack'[i].id \in 1..seq /\ stack'[j].id = seq + 1
        BY <2>3, <2>4, <3>1, <3>3
      <4> QED BY <1>1, <4>1
    <3> QED BY <2>5, <3>2, <3>3
  <2> QED BY <2>6, <2>7 DEF StackGrows
<1>11. Typed'
  <2>1. c + 1 \in 1..Len(hist')
    BY <1>1, <1>9
  <2>2. closing \subseteq 1..seq /\ seeded \in 0..seq
    BY DEF Always, Typed
  <2>3. closing \subseteq 1..(seq + 1)
    BY <1>1, <2>2
  <2>4. seeded \in 0..(seq + 1) /\ seq + 1 \in 0..MaxIds
    BY <1>1, <2>2, OverlayAssumption
  <2> QED BY <1>2, <1>3, <1>4, <1>8, <1>9, <2>1, <2>3, <2>4 DEF Always, Typed
<1> QED BY <1>3, <1>4, <1>9, <1>10, <1>11 DEF Always, OnPage, NotInstalled

LEMMA PopRefusedKeeps ==
  ASSUME OverlayInv, PopRefused
  PROVE  OverlayInv'
<1>1. PICK c \in 1..Len(hist) : c = cur + Head(queue) /\ ClosesTop(c)
  BY DEF PopRefused
<1>2. PICK n : n = CarryUrl(hist, stack, c, Top.href)
  OBVIOUS
<1>3. PICK below : below = Front(n.stack)
  OBVIOUS
<1>4. /\ queue # <<>> /\ ownPops = <<>> /\ queue' = Tail(queue) /\ shown' = n.hist[c].href
      /\ Top.id \notin closing /\ closing' = closing /\ seq < MaxIds /\ seq' = seq + 1 /\ cur' = c + 1
      /\ UNCHANGED <<ownPops, closing, seeded, installed, buried, traversed>>
  BY <1>1, <1>2, <1>3 DEF PopRefused
<1>5. PICK o \in Overlays :
        /\ hist' = PushEntry(o, n.hist, c, below).hist
        /\ \/ stack' = PushEntry(o, n.hist, c, below).stack /\ tangled' = tangled
           \/ tangled' = TRUE /\ stack' = PutBack(below, Top, Last(PushEntry(o, n.hist, c, below).stack))
  BY <1>1, <1>2, <1>3 DEF PopRefused
<1>6. PICK m : m = PushEntry(o, n.hist, c, below)
  OBVIOUS
<1>7. CASE stack' = PushEntry(o, n.hist, c, below).stack /\ tangled' = tangled
  <2>1. hist' = m.hist /\ stack' = m.stack
    BY <1>5, <1>6, <1>7
  <2> QED BY <1>1, <1>2, <1>3, <1>4, <1>6, <1>7, <2>1, TopPushedKeeps
<1>8. CASE tangled' = TRUE /\ stack' = PutBack(below, Top, Last(PushEntry(o, n.hist, c, below).stack))
  <2>1. hist' = m.hist /\ stack' = PutBack(below, Top, Last(m.stack))
    BY <1>5, <1>6, <1>8
  <2>2. Always'
    BY <1>1, <1>2, <1>3, <1>4, <1>6, <2>1, PutBackKeeps DEF OverlayInv
  <2> QED BY <1>8, <2>2 DEF OverlayInv
<1> QED BY <1>5, <1>7, <1>8

-----------------------------------------------------------------------------
(* The invariant *)

LEMMA InitHolds ==
  ASSUME Init
  PROVE  OverlayInv
<1>1. PICK p \in Pages, qy \in Queries :
        /\ hist = [i \in 1..2 |-> [href |-> [page |-> p, query |-> qy], marker |-> 0]]
        /\ shown = [page |-> p, query |-> qy]
  BY DEF Init
<1>2. /\ cur = 2 /\ queue = <<>> /\ ownPops = <<>> /\ stack = <<>> /\ closing = {}
      /\ seq = 0 /\ seeded = 0 /\ installed = FALSE
  BY DEF Init
<1> DEFINE e == [href |-> [page |-> p, query |-> qy], marker |-> 0]
<1>3. e \in [href : Href, marker : Nat] /\ e.marker = 0 /\ e.href = shown /\ shown \in Href
  BY <1>1 DEF Href
<1>4. hist = [i \in 1..2 |-> e]
  BY <1>1
<1> HIDE DEF e
<1>5. hist \in Histories /\ Len(hist) = 2 /\ hist[1] = e /\ hist[2] = e
  <2>1. hist \in [1..2 -> [href : Href, marker : Nat]]
    BY <1>3, <1>4
  <2>2. Len(hist) = 2
    BY <1>4
  <2> QED BY <1>4, <2>1, <2>2 DEF Histories
<1>6. /\ stack \in Stacks /\ queue \in Seq({-1, 1}) /\ ownPops \in Seq(Href)
      /\ Len(stack) = 0 /\ Len(queue) = 0 /\ Len(ownPops) = 0
  BY <1>2, EmptySeq DEF Stacks
<1>7. Typed
  BY <1>2, <1>3, <1>5, <1>6, OverlayAssumption DEF Typed
<1>8. MarkersGrow(hist, seq)
  <2>1. \A k \in 1..Len(hist) : hist[k].marker = 0
    BY <1>3, <1>4, <1>5
  <2> QED BY <1>2, <2>1 DEF MarkersGrow
<1>9. StackGrows(stack, seq) /\ OnPage /\ NotInstalled
  BY <1>2, <1>3, <1>5, <1>6 DEF StackGrows, OnPage, NotInstalled
<1>10. Untangled
  <2>1. Mirrors(hist, stack, cur) /\ Uncovered /\ OwnPop /\ LeftAhead /\ Ahead
    BY <1>2, <1>6 DEF Mirrors, Uncovered, OwnPop, LeftAhead, Ahead
  <2>2. Packed /\ OnTop
    BY <1>2, <1>6 DEF Packed, OnTop, Stays
  <2>3. ByButtons
    BY <1>2, <1>3, <1>5, <1>6 DEF ByButtons, currentMarker
  <2> QED BY <2>1, <2>2, <2>3 DEF Untangled
<1> QED BY <1>7, <1>8, <1>9, <1>10 DEF OverlayInv, Always

LEMMA StepKeeps ==
  ASSUME OverlayInv, [Next]_vars
  PROVE  OverlayInv'
<1>1. ASSUME NEW o \in Overlays, Open(o) PROVE OverlayInv'
  BY <1>1, OpenKeeps
<1>2. ASSUME NEW o \in Overlays, Close(o) PROVE OverlayInv'
  BY <1>2, CloseKeeps
<1>3. ASSUME NEW id \in closing, RemovalTimer(id) PROVE OverlayInv'
  BY <1>3, TimerKeeps
<1>4. ASSUME NEW p \in Pages, NEW q \in Queries, Navigate(p, q) PROVE OverlayInv'
  BY <1>4, NavigateKeeps
<1>5. ASSUME NEW q \in Queries, ReplaceUrl(q) PROVE OverlayInv'
  BY <1>5, ReplaceUrlKeeps
<1>6. ASSUME NEW d \in {-1, 1}, UserTraverse(d) PROVE OverlayInv'
  BY <1>6, UserTraverseKeeps
<1>7. CASE Reload
  BY <1>7, ReloadKeeps
<1>8. CASE PopOther
  BY <1>8, PopOtherKeeps
<1>9. CASE PopTop
  BY <1>9, PopTopKeeps
<1>10. CASE PopRefused
  BY <1>10, PopRefusedKeeps
<1>11. CASE PopNowhere
  BY <1>11, PopNowhereKeeps
<1>12. CASE UNCHANGED vars
  BY <1>12 DEF vars, OverlayInv, Always, Typed, OnPage, NotInstalled, Untangled, Uncovered, OwnPop,
               LeftAhead, Ahead, Packed, OnTop, Stays, ByButtons, Top, currentMarker
<1> QED BY <1>1, <1>2, <1>3, <1>4, <1>5, <1>6, <1>7, <1>8, <1>9, <1>10, <1>11, <1>12 DEF Next

\* useBackToClose keeps its stack and the browser's history in step, whatever
\* the user does while nothing is under way.
THEOREM OverlaysInvariant == Spec => []OverlayInv
<1>1. Init => OverlayInv
  BY InitHolds
<1>2. OverlayInv /\ [Next]_vars => OverlayInv'
  BY StepKeeps
<1> QED BY <1>1, <1>2, PTL DEF Spec

-----------------------------------------------------------------------------
(* The properties *)

\* With any number of overlays open, Back reaches the top one before it
\* reaches a page, and closes it at once when none closed from beneath
\* another (onPopState, remove).
THEOREM BackClosesTopHolds == Spec => []BackClosesTop
<1>1. OverlayInv => BackClosesTop
  <2> SUFFICES ASSUME OverlayInv, queue = <<>>, closing = {}, ~tangled, stack # <<>>
               PROVE  /\ ~buried => currentMarker = Top.id
                      /\ \E k \in 1..cur : hist[k].marker = Top.id /\ \A m \in k..cur : hist[m].marker # 0
    BY DEF BackClosesTop, Quiet
  <2>1. /\ Always /\ Untangled /\ stack \in Stacks /\ Len(stack) \in Nat /\ cur \in 1..Len(hist)
        /\ Len(hist) \in Nat /\ StackGrows(stack, seq) /\ seq \in Nat
    BY StateIs DEF OverlayInv
  <2>2. Len(stack) \in 1..Len(stack)
    BY <2>1, EmptySeq DEF Stacks
  <2>3. ~buried => currentMarker = Top.id
    BY <2>1, <2>2 DEF Untangled, OnTop, Stays
  <2>4. PICK k \in 1..cur : hist[k].marker = Top.id
    BY <2>1, <2>2 DEF Untangled, Mirrors, Top
  <2>5. Clear(hist, stack, Len(stack)) /\ Top.id # 0
    BY <2>1, <2>2 DEF Untangled, Uncovered, StackGrows, Top
  <2>6. ASSUME NEW m \in k..cur PROVE hist[m].marker # 0
    <3>1. m \in 1..Len(hist) /\ k \in 1..Len(hist) /\ (m = k \/ k < m)
      BY <2>1
    <3> QED BY <2>4, <2>5, <3>1 DEF Clear, Top
  <2> QED BY <2>3, <2>4, <2>6
<1> QED BY <1>1, OverlaysInvariant, PTL

\* Overlays closed by their own buttons, any number of them and in any order,
\* leave no entry to rest on (remove, its timer and the stale entries that
\* onPopState steps over).
THEOREM NoStaleEntryHolds == Spec => []NoStaleEntry
<1>1. OverlayInv => NoStaleEntry
  BY DEF OverlayInv, Untangled, ByButtons, NoStaleEntry, Quiet
<1> QED BY <1>1, OverlaysInvariant, PTL

\* The stack in memory and the tagged entries of the browser's history agree
\* (pushEntry, remove, onPopState, the seed of a page load).
THEOREM EntriesMatchStackHolds == Spec => []EntriesMatchStack
<1>1. OverlayInv => EntriesMatchStack
  <2> SUFFICES ASSUME OverlayInv PROVE EntriesMatchStack
    OBVIOUS
  <2>1. /\ Always /\ Typed /\ hist \in Histories /\ stack \in Stacks /\ cur \in 1..Len(hist)
        /\ Len(hist) \in Nat /\ MarkersGrow(hist, seq) /\ StackGrows(stack, seq) /\ seq \in Nat
    BY StateIs DEF OverlayInv, Always
  <2>2. DOMAIN hist = 1..Len(hist) /\ DOMAIN stack = 1..Len(stack)
        /\ (\A k \in 1..Len(hist) : hist[k] \in [href : Href, marker : Nat])
        /\ (\A i \in 1..Len(stack) : stack[i].ov \in Overlays /\ stack[i].href \in Href)
    BY <2>1, Sizes
  <2>3. seq \in 0..MaxIds /\ MaxIds \in Nat
    BY <2>1, OverlayAssumption DEF Typed
  <2>4. \A k \in 1..Len(hist) : hist[k] \in HistoryEntry
    <3> TAKE k \in 1..Len(hist)
    <3>1. hist[k] \in [href : Href, marker : Nat] /\ hist[k].marker <= seq
      BY <2>1, <2>2 DEF MarkersGrow
    <3>2. hist[k].marker \in 0..MaxIds
      BY <2>1, <2>3, <3>1
    <3> QED BY <3>1, <3>2 DEF HistoryEntry
  <2>5. \A i \in DOMAIN queue : queue[i] \in {-1, 1}
    <3>1. queue \in Seq({-1, 1})
      BY <2>1 DEF Typed
    <3>2. DOMAIN queue = 1..Len(queue)
      BY <3>1, LenProperties
    <3> QED BY <3>1, <3>2, ElementOfSeq
  <2>6. TypeOK
    BY <2>1, <2>2, <2>3, <2>4, <2>5 DEF TypeOK, Typed, StackGrows
  <2>7. StackOrdered
    BY <2>1, <2>2 DEF StackOrdered, StackGrows
  <2>8. EntryPerOverlay
    BY <2>2 DEF EntryPerOverlay, OverlayInv, Untangled, Mirrors, Quiet
  <2> QED BY <2>6, <2>7, <2>8 DEF EntriesMatchStack
<1> QED BY <1>1, OverlaysInvariant, PTL

\* A URL replaced while an overlay was open survives leaving its entry
\* (carryUrl): no close changes what the router shows.
THEOREM ClosingKeepsUrlHolds == Spec => ClosingKeepsUrl
<1>1. ASSUME OverlayInv, ~tangled, PopTop \/ PopRefused \/ (PopOther /\ ownPops # <<>>)
      PROVE  shown' = shown
  <2>1. Always /\ Untangled
    BY <1>1 DEF OverlayInv
  <2>2. ASSUME PopTop \/ PopRefused PROVE shown' = shown
    <3>1. queue # <<>> /\ ownPops = <<>>
      BY <2>2 DEF PopTop, PopRefused
    <3>2. PICK c \in 1..Len(hist) : c = cur + Head(queue) /\ ClosesTop(c)
      BY <2>2 DEF PopTop, PopRefused
    <3>3. PICK n : n = CarryUrl(hist, stack, c, Top.href)
      OBVIOUS
    <3>4. PICK below : below = Front(n.stack)
      OBVIOUS
    <3>5. shown' = n.hist[c].href
      BY <2>2, <3>2, <3>3 DEF PopTop, PopRefused
    <3>6. TopLifted(c, n, below) /\ TopGone(c, n, below)
      BY <2>1, <3>1, <3>2, <3>3, <3>4, TopCarried, TopGoes
    <3> QED BY <3>5, <3>6 DEF TopLifted, TopGone
  <2>3. ASSUME PopOther, ownPops # <<>> PROVE shown' = shown
    <3>1. ownPops = <<shown>> /\ Head(ownPops) = shown
      BY <2>1, <2>3 DEF Untangled, OwnPop
    <3>2. PICK c \in 1..Len(hist) : c = cur + Head(queue)
      BY <2>3 DEF PopOther
    <3>3. PICK n : n = CarryUrl(hist, stack, c, shown)
      OBVIOUS
    <3>4. shown' = n.hist[c].href
      BY <2>3, <3>1, <3>2, <3>3 DEF PopOther, Landed
    <3>5. OneCarried(hist, stack, c, shown, n)
      BY <2>1, <3>3, StateIs, CarryIs
    <3> QED BY <3>4, <3>5 DEF OneCarried
  <2> QED BY <1>1, <2>2, <2>3
<1>2. OverlayInv /\ [Next]_vars =>
        [(PopTop \/ PopRefused \/ (PopOther /\ ownPops # <<>>)) /\ ~tangled => shown' = shown]_vars
  BY <1>1
<1> QED BY <1>2, OverlaysInvariant, PTL DEF Spec, ClosingKeepsUrl
=============================================================================
