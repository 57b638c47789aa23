--------------------------- MODULE ActivityDigest ---------------------------
(***************************************************************************)
(* The email half of activity_email.run_once for one recipient: which rows *)
(* go out at once, which wait for the weekly digest, what a digest leaves  *)
(* for the next one, and how the three stamps keep a row from being mailed *)
(* twice.  Concurrent runs never share a row (FOR UPDATE SKIP LOCKED, see  *)
(* NotificationDelivery), so a run is one step here.                       *)
(***************************************************************************)
EXTENDS Naturals, FiniteSets

CONSTANTS
  MaxNotifications, \* notifications of the recipient (a bound)
  Features,         \* the feature buckets of FEATURE_BY_KIND
  FeatureOf,        \* FeatureOf[r]: the bucket of the r-th notification
  MaxItems,         \* what a combined digest shows (digest_max_items)
  Cap,              \* max_notifications_per_user of an admin's "send now"
  MaxExcused,       \* resends and lost runs per row (a bound)
  DigestFaults      \* which of DigestFaultKinds this environment exhibits

DigestFaultKinds ==
  { "toggle",  \* an admin reroutes a feature between instant and digest
    "prefer",  \* the recipient changes an email preference
    "expire",  \* a row outlives _MAX_AGE
    "resend",  \* an admin resends
    "fail",    \* the mail provider refuses
    "crash" }  \* the process dies between sending and committing

Notifications == 1..MaxNotifications

ASSUME DigestAssumption ==
  /\ MaxNotifications \in Nat /\ MaxItems \in Nat \ {0} /\ Cap \in Nat \ {0}
  /\ MaxExcused \in Nat
  /\ FeatureOf \in [Notifications -> Features]
  /\ DigestFaults \subseteq DigestFaultKinds

VARIABLES
  created,    \* rows 1..created exist, in the order of created_at
  expired,    \* rows older than _MAX_AGE
  emailedAt,  \* emailed_at: consumed by the digest path
  instantly,  \* instant_emailed_at: consumed by the instant path
  instant,    \* features with the admin's instant switch on
  wanted,     \* features whose email the recipient keeps on
  optedIn,    \* digest_email_enabled
  slot,       \* today's scheduled digest time has come, in the user's zone
  lastDigest, \* last_digest_sent_at: "never", "today" or "earlier"
  rerouted,   \* rows that existed when their feature was rerouted (history)
  scheduled,  \* digests the schedule sent today (history)
  mails,      \* mails[r]: emails that carried row r (history)
  excused,    \* excused[r]: ... of them resent, or sent by a run that died
  refused     \* rows considered while unwanted, or refused by the provider
              \* (history)

digestVars == <<created, expired, emailedAt, instantly, instant, wanted, optedIn, slot,
          lastDigest, rerouted, scheduled, mails, excused, refused>>

DigestTypeOK ==
  /\ created \in 0..MaxNotifications
  /\ expired \subseteq 1..created /\ emailedAt \subseteq 1..created /\ instantly \subseteq 1..created
  /\ instant \subseteq Features /\ wanted \subseteq Features
  /\ optedIn \in BOOLEAN /\ slot \in BOOLEAN
  /\ lastDigest \in {"never", "today", "earlier"}
  /\ rerouted \subseteq 1..created
  /\ scheduled \in Nat
  /\ mails \in [Notifications -> Nat] /\ excused \in [Notifications -> Nat]
  /\ refused \subseteq 1..created

DigestInit ==
  /\ created = 0
  /\ expired = {} /\ emailedAt = {} /\ instantly = {}
  /\ instant \in SUBSET Features
  /\ wanted = Features
  /\ optedIn = TRUE
  /\ slot = FALSE
  /\ lastDigest = "never"
  /\ rerouted = {}
  /\ scheduled = 0
  /\ mails = [r \in Notifications |-> 0]
  /\ excused = [r \in Notifications |-> 0]
  /\ refused = {}

-----------------------------------------------------------------------------
Notify ==
  /\ created < MaxNotifications
  /\ created' = created + 1
  /\ UNCHANGED <<expired, emailedAt, instantly, instant, wanted, optedIn, slot,
                 lastDigest, rerouted, scheduled, mails, excused, refused>>

Reroute(f) ==
  /\ "toggle" \in DigestFaults
  /\ instant' = IF f \in instant THEN instant \ {f} ELSE instant \cup {f}
  /\ rerouted' = rerouted \cup {r \in 1..created : FeatureOf[r] = f}
  /\ UNCHANGED <<created, expired, emailedAt, instantly, wanted, optedIn, slot,
                 lastDigest, scheduled, mails, excused, refused>>

Prefer ==
  /\ "prefer" \in DigestFaults
  /\ wanted' \in SUBSET Features
  /\ optedIn' \in BOOLEAN
  /\ UNCHANGED <<created, expired, emailedAt, instantly, instant, slot,
                 lastDigest, rerouted, scheduled, mails, excused, refused>>

(* Rows created before the cutoff are no longer selected. *)
Expire(r) ==
  /\ "expire" \in DigestFaults
  /\ r <= created
  /\ expired' = expired \cup 1..r
  /\ UNCHANGED <<created, emailedAt, instantly, instant, wanted, optedIn, slot,
                 lastDigest, rerouted, scheduled, mails, excused, refused>>

(* The recipient's clock: a digest day's hour comes, then the day is over. *)
EnterSlot ==
  /\ ~slot
  /\ slot' = TRUE
  /\ UNCHANGED <<created, expired, emailedAt, instantly, instant, wanted, optedIn,
                 lastDigest, rerouted, scheduled, mails, excused, refused>>

NewDay ==
  /\ slot
  /\ slot' = FALSE
  /\ lastDigest' = IF lastDigest = "today" THEN "earlier" ELSE lastDigest
  /\ scheduled' = 0
  /\ UNCHANGED <<created, expired, emailedAt, instantly, instant, wanted, optedIn,
                 rerouted, mails, excused, refused>>

-----------------------------------------------------------------------------
Of(F) == {r \in 1..created : FeatureOf[r] \in F}

Newest(S, n) == {r \in S : Cardinality({q \in S : q > r}) < n}

Modes == {"job", "tick", "admin", "resend"}

(* _apply_cap: an admin's run keeps the newest Cap rows of each path. *)
Capped(S, mode) == IF mode \in {"admin", "resend"} THEN Newest(S, Cap) ELSE S

(* _slot_status *)
InSlot == slot /\ lastDigest # "today"

(* Mutant: the instant path looks at the digest's stamp. *)
InstantRowsByDigest(mode) ==
  Capped({r \in Of(instant) \ expired : mode = "resend" \/ r \notin emailedAt}, mode)

(* Rows considered for an instant email, on every run. *)
InstantRows(mode) ==
  Capped({r \in Of(instant) \ expired : mode = "resend" \/ r \notin instantly}, mode)

(* Rows considered for the digest: never in the job's run, only in the slot
   on a tick, and not when the feature's instant email owns them. *)
DigestRows(mode) ==
  IF mode = "job" \/ (mode = "tick" /\ ~InSlot) THEN {}
  ELSE Capped({r \in Of(Features \ instant) \ expired :
                 mode = "resend" \/ r \notin emailedAt}, mode)

(* _send_combined_digests: nothing when the recipient opted out of digests. *)
Digested(mode) == IF optedIn THEN DigestRows(mode) \cap Of(wanted) ELSE {}

(* _balance_sections keeps the newest. *)
Rendered(mode) == Newest(Digested(mode), MaxItems)

Count(f, S) == [r \in Notifications |-> IF r \in S THEN f[r] + 1 ELSE f[r]]

(* Rows of one run that reach the recipient: ok says whether the digest is
   accepted, okF the features whose instant email is. *)
Mailed(mode, ok, okF) ==
  (IF ok THEN Rendered(mode) ELSE {}) \cup (InstantRows(mode) \cap Of(wanted \cap okF))

(* Rows that a run considers and that nobody is to get, or does not get
   because the provider says no. *)
Refused(mode, ok, okF) ==
  (DigestRows(mode) \ (IF ok THEN Digested(mode) ELSE {}))
    \cup (InstantRows(mode) \ Of(wanted \cap okF))

(* Mutant: the rows a digest had no room for are stamped with the others. *)
DigestStampsAll(mode, ok) == emailedAt \cup DigestRows(mode)

(* Every row considered is stamped, sent or not, but for the rows cut from a
   digest that went out. *)
DigestStamps(mode, ok) ==
  emailedAt \cup (DigestRows(mode) \ (IF ok THEN Digested(mode) \ Rendered(mode) ELSE {}))

DigestedToday(mode) == IF DigestRows(mode) # {} THEN "today" ELSE lastDigest

ProviderAnswers(ok, okF) ==
  "fail" \in DigestFaults \/ (ok /\ okF = Features)

Excusable(mode) == \A r \in Mailed(mode, TRUE, Features) : excused[r] < MaxExcused

RunOnce(mode, ok, okF) ==
  /\ mode = "resend" => "resend" \in DigestFaults /\ Excusable(mode)
  /\ ProviderAnswers(ok, okF)
  /\ emailedAt' = DigestStamps(mode, ok)
  /\ instantly' = instantly \cup InstantRows(mode)
  /\ lastDigest' = DigestedToday(mode)
  /\ scheduled' = IF mode = "tick" /\ ok /\ Digested(mode) # {} THEN scheduled + 1 ELSE scheduled
  /\ mails' = Count(mails, Mailed(mode, ok, okF))
  /\ excused' = IF mode = "resend" THEN Count(excused, Mailed(mode, ok, okF)) ELSE excused
  /\ refused' = refused \cup Refused(mode, ok, okF)
  /\ UNCHANGED <<created, expired, instant, wanted, optedIn, slot, rerouted>>

(* The process dies after sending: no stamp is committed. *)
RunDies(mode) ==
  /\ "crash" \in DigestFaults
  /\ Excusable(mode)
  /\ mails' = Count(mails, Mailed(mode, TRUE, Features))
  /\ excused' = Count(excused, Mailed(mode, TRUE, Features))
  /\ UNCHANGED <<created, expired, emailedAt, instantly, instant, wanted, optedIn,
                 slot, lastDigest, rerouted, scheduled, refused>>

DigestNext ==
  \/ Notify
  \/ \E f \in Features : Reroute(f)
  \/ Prefer
  \/ \E r \in Notifications : Expire(r)
  \/ EnterSlot
  \/ NewDay
  \/ \E mode \in Modes, ok \in BOOLEAN, okF \in SUBSET Features : RunOnce(mode, ok, okF)
  \/ \E mode \in Modes \ {"resend"} : RunDies(mode)

DigestSpec == DigestInit /\ [][DigestNext]_digestVars

(* Days pass, and on every digest day the tick gets to run in the slot. *)
DigestFairSpec ==
  /\ DigestSpec
  /\ WF_digestVars(EnterSlot)
  /\ WF_digestVars(NewDay)
  /\ SF_digestVars(InSlot /\ RunOnce("tick", TRUE, Features))

-----------------------------------------------------------------------------
(* A row is mailed once, by the digest or at once; a second mail needs a
   run that died after sending, an admin's resend, or a feature rerouted
   under the row. *)
MailedAtMostOnce == \A r \in Notifications \ rerouted : mails[r] <= 1 + excused[r]

(* "A notification is emailed on at most one path: instant_emailed_at and
   emailed_at are never both set for the same row", unless its feature was
   rerouted between the two. *)
AtMostOnePath == emailedAt \cap instantly \subseteq rerouted

(* The schedule sends one digest a day. *)
OneDigestPerDay == scheduled <= 1

(* The digest, the instant mail and the schedule together: a row is mailed
   once, on one path, and one digest a day is scheduled. *)
MailedOnce == DigestTypeOK /\ MailedAtMostOnce /\ AtMostOnePath /\ OneDigestPerDay

(* "Rows cut from the combined digest stay unstamped and roll into the next
   digest": every row reaches the recipient in the end, unless it expired
   first, or was unwanted or refused when its turn came.  An admin who forces
   a run before the slot of every digest day takes the schedule its digests. *)
EveryRowMailed ==
  []<>InSlot =>
    \A r \in Notifications : r <= created ~> mails[r] > 0 \/ r \in expired \cup refused

=============================================================================
