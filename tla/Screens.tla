------------------------------ MODULE Screens ------------------------------
(***************************************************************************)
(* Which screen a session sees and what that screen offers it.             *)
(*                                                                         *)
(* The front end is one page: App.tsx routes a path to a page component,   *)
(* behind AppAccessGate (the feature flag that closes the app to guests),  *)
(* ProtectedRoute (one route), SectionLayout (the tribe section) and       *)
(* OnboardingGate (first sign-in).  Each gate may send the session on, with *)
(* the path it came from as ?next=, so arriving anywhere is a chain of      *)
(* redirects.  A page shows components, those show more, and each offers    *)
(* requests of api.ts; the server refuses a request of a session that is    *)
(* not signed in, not an editor of the program or not an admin.             *)
(*                                                                         *)
(* One definition per component, in PageScreens, ComponentScreens and       *)
(* AdminScreens, gives its parts (ScreenParts); ScreenTable collects them.  *)
(*                                                                         *)
(* at is a cursor on one mounted component: any path through the mounted    *)
(* tree can be walked, so an invariant about at is one about all of them.   *)
(***************************************************************************)
EXTENDS Naturals, FiniteSets, Sequences, ScreenParts

CONSTANTS
    Components,  \* the parts of every component, by its name
    Page,        \* route table of AppShell: the page of a path
    Legacy       \* the routes that only send the path on, with where they send it

VARIABLES
    session,     \* AuthContext: "pending" while fetchMe runs, "guest", or who is signed in
    onboard,     \* user.needs_onboarding
    flag,        \* FeatureFlagsContext: "pending", or appAuthGateEnabled "on" / "off"
    path,        \* location.pathname, as the route that matches it
    next,        \* ?next= of the login and onboarding paths, the inner ?next= of the path it holds behind it
    background,  \* location.state.backgroundLocation
    wanted,      \* history: the page last asked for
    at,          \* the component looked at
    kept,        \* the render gates between App and at
    opener       \* the session when at was entered

screenVars == <<session, onboard, flag, path, next, background, wanted, at, kept, opener>>

\* Request role of the server: api/deps.py and the route dependencies.
MemberCalls ==
    {"ackPassportMilestones", "addEventTicketLink", "addOverviewItemToMyPlan", "addToMyPlan",
    "approveFollowRequest", "cancelOrganizerClaim", "checkHandleAvailable", "claimEvents",
    "completeOnboarding", "createInterestProfile", "createMyPlanShare", "createPassportShare",
    "declineFollowRequest", "deleteEventAsset", "deleteEventMessage", "deleteEventPromoCode",
    "deleteInterestProfile", "deleteMyRating", "deleteOwnSuggestion", "deleteUserAvatar",
    "dismissSuggestion", "downloadMyPlanIcs", "fetchEventAssetSummaries", "fetchEventAssets",
    "fetchEventReviews", "fetchEventSeriesRollup", "fetchEventSimilar", "fetchFollowRequests",
    "fetchFollowingMostActive", "fetchFollowingReviews", "fetchFriendMemorySummaries",
    "fetchInterestProfiles", "fetchMe", "fetchMyFollowers", "fetchMyFollowing", "fetchMyFriends",
    "fetchMyHosting", "fetchMyOrganizerClaims", "fetchMyPendingReviews", "fetchMyPlan",
    "fetchMyPlanCounts", "fetchMyPlanShare", "fetchMyRatings", "fetchMyReferral",
    "fetchMySubmissions", "fetchMySubscribers", "fetchMySubscriptions", "fetchMySuggestions",
    "fetchNotifications", "fetchNotificationsUnreadCount", "fetchOnboardingSuggestions",
    "fetchOverviewItemAttendanceSummary", "fetchOverviewItemAttendees", "fetchOwnEventChanges",
    "fetchOwnSuggestion", "fetchOwnSuggestionForEvent", "fetchPassport", "fetchPassportEvents",
    "fetchPassportShare", "fetchPassportTimeline", "fetchPeoplePrompt", "fetchRatingAggregate",
    "fetchReviewHomePrompt", "fetchSeriesReviews", "fetchSeriesRollup",
    "fetchSessionAttendanceSummary", "fetchSessionAttendees", "fetchSingleSessionAttendanceSummary",
    "fetchSubscribedEvents", "followUser", "importSuggestionImageFromUrl",
    "markAllNotificationsRead", "markNotificationOpened", "markNotificationRead",
    "muteEventMessages", "postEventMessage", "postPeoplePromptImpression",
    "postReviewHomePromptImpression", "proposeEventChange", "redeemReferral", "redeemShareFollow",
    "removeEventFromClaim", "removeFromMyPlan", "removeMyFollower", "removeMySubscriber",
    "removeOverviewItemFromMyPlan", "reportAppInstalled", "reportEventMessage",
    "requestOwnSuggestionPublic", "revokeMyPlanShare", "revokePassportShare", "setFollowNotify",
    "setTicketNotNeeded", "submitEventPromoCode", "submitFeedback", "submitOrganizerClaim",
    "submitSuggestion", "unfollowUser", "updateEventAsset", "updateEventPromoCode",
    "updateInterestProfile", "updateMyBio", "updateMyPlanAudience", "updateMySocialLinks",
    "updateMyVisibility", "updateNotificationPreferences", "updateOwnSuggestion",
    "updateUserPreferences", "updateUserProfile", "uploadEventAsset", "uploadSuggestionImage",
    "uploadUserAvatar", "withdrawOwnEventChange", "withdrawOwnSuggestion",
    "withdrawOwnSuggestionChanges"}
EditorCalls ==
    {"applyScheduleImport", "createAdminEventSchedule", "createScheduleActivityType",
    "createScheduleContributor", "createScheduleLevel", "createScheduleOverviewItem",
    "createScheduleRoom", "createScheduleSession", "createScheduleVenue",
    "deleteScheduleActivityType", "deleteScheduleContributor", "deleteScheduleLevel",
    "deleteScheduleOverviewItem", "deleteScheduleRoom", "deleteScheduleSession",
    "deleteScheduleVenue", "downloadPublishedProgramExport", "duplicateScheduleSession",
    "exportEventSchedule", "fetchAdminEventSchedule", "fetchOptionalAdminEventSchedule",
    "fetchProgramNotifyCandidates", "fetchPublishedProgramExport", "fetchScheduleImportSchema",
    "fetchSchedulePlanners", "fetchSchedulePublishPreview", "notifyProgram",
    "previewScheduleImport", "publishEventSchedule", "republishEventSchedule",
    "revertScheduleChange", "unpublishEventSchedule", "updateAdminEventSchedule",
    "updateScheduleActivityType", "updateScheduleContributor", "updateScheduleLevel",
    "updateScheduleOverviewItem", "updateScheduleRoom", "updateScheduleSession",
    "updateScheduleVenue"}
AdminCalls ==
    {"abortSyncJob", "addCalendar", "addEventsToSeries", "addScheduleEditor", "adminBlockUser",
    "adminBulkEngagement", "adminDeleteUser", "adminMergeUsers", "adminResetOnboarding",
    "adminRevokeUserBlock", "adminSendInstallEmail", "adminSetAdminManaged",
    "adminSetEventOrganizer", "adminSetForceEnablePush", "adminSetForceInstallPrompt",
    "adminUpdateInterestProfile", "adminUpdateUserOrganizer", "applyEventRevision",
    "approveAdminPromoCode", "approveRating", "approveSeriesGroup", "approveSuggestion",
    "approveTagSuggestion", "bulkAssignTags", "bulkRetryGeocoding", "bulkReviewEvents",
    "bulkReviewTagSuggestions", "createAdminPromoCode", "createCalendarCurationRule", "createTag",
    "createTagGroup", "createTagSynonym", "decideAdminChange", "decideOrganizerClaim",
    "deleteCalendarCurationRule", "deleteEventImage", "deleteEventSchedule",
    "deleteMockSourceEvent", "deleteTag", "deleteTagSynonym", "discardAdminEventDraft",
    "discardEventRevision", "discoverCalendars", "dismissDuplicateGroup", "dismissSeriesGroup",
    "editMockSourceEvent", "fetchAdminChanges", "fetchAdminEvent", "fetchAdminEventIds",
    "fetchAdminEventMapPoints", "fetchAdminEventModeration", "fetchAdminEventNotificationStats",
    "fetchAdminEvents", "fetchAdminInterestProfileClusters", "fetchAdminInterestProfiles",
    "fetchAdminNotificationActivity", "fetchAdminOrganizedEvents", "fetchAdminOrganizerClaims",
    "fetchAdminPromoCodes", "fetchAdminRatings", "fetchAdminSuggestion", "fetchAdminTagGroups",
    "fetchAdminTagSuggestionCount", "fetchAdminTagSuggestions", "fetchAdminUsers",
    "fetchAssetPromptCandidates", "fetchCalendarDefaultTags", "fetchDuplicateGroups",
    "fetchDuplicateScanHistory", "fetchEventDuplicateCandidates", "fetchEventFilterOptions",
    "fetchEventSeriesCandidates", "fetchExportStats", "fetchMergePreview", "fetchMockSourceEvent",
    "fetchMostAttendedEvents", "fetchMostSavedEvents", "fetchMostViewedEvents",
    "fetchNotificationToggleCounts", "fetchOverlappingEvents", "fetchPeopleDiscoveryStats",
    "fetchReviewPromptCandidates", "fetchReviewPromptStats", "fetchScheduleEditors",
    "fetchSeriesDetectionSettings", "fetchSeriesGroups", "fetchSeriesScanHistory",
    "fetchSourceBreakdown", "fetchSuggestionAudit", "fetchSuggestionOccurrences",
    "fetchSuggestions", "fetchSyncJobs", "fetchTagSynonyms", "fetchTopLinks",
    "fetchWebPushSubscriberCount", "flagEventsAsDuplicates", "forcePeopleJoined",
    "forcePeoplePrompt", "forceSendInterestMatches", "getCurrentSyncJob", "getSyncJob",
    "groupEventsAsSeries", "keepDuplicateEvent", "listCalendarCurationRules", "mergeEvents",
    "previewInterestMatches", "publishAdminEventDraft", "rejectAdminPromoCode", "rejectRating",
    "rejectSuggestion", "rejectTagSuggestion", "removeScheduleEditor", "renameSeries",
    "retryCalendarInJob", "retryGeocodingSingle", "revertEventRevision", "reviewEvent",
    "runTagSuggestionsBulk", "runTagSuggestionsForEvent", "scanEventDuplicates", "searchAddress",
    "sendAssetPromptNow", "sendDigestNow", "sendReviewPromptNow", "setAdminEventStatus",
    "setEventImageFromUrl", "splitSeriesMember", "startSyncJob", "syncSuggestionToGoogle",
    "triggerDuplicateScan", "triggerSeriesScan", "updateAdminEventDraft", "updateAdminPromoCode",
    "updateCalendar", "updateCalendarCurationRule", "updateCalendarDefaultTags", "updateEvent",
    "updateEventTags", "updateSeriesDetectionSettings", "updateSettings", "updateSuggestion",
    "updateTag", "updateTagGroup", "uploadEventImage"}
Level == [guest |-> 0, pending |-> 0, member |-> 1, editor |-> 2, admin |-> 3]
Needs(call) ==
    IF call \in AdminCalls THEN 3 ELSE IF call \in EditorCalls THEN 2
    ELSE IF call \in MemberCalls THEN 1 ELSE 0

-----------------------------------------------------------------------------
(* Routes *)

Routes == DOMAIN Page \cup DOMAIN Legacy

\* The routes rendered over the page that opened them.
Overlays == {"/event/:eventId/program", "/event/:eventId/program/plan", "/suggest",
    "/suggest/:suggestionId/edit", "/event/:eventId/suggest-change"}

OnboardingRoutes == {"/onboarding", "/onboarding/preferences", "/onboarding/local",
    "/onboarding/follow"}
AdminRoutes == {"/admin", "/admin/:tab", "/admin/events/:eventId/schedule"}
ProtectedRoutes == AdminRoutes \cup {"/event/:eventId/program/edit",
    "/event/:eventId/program/export", "/tribe/activity", "/passport", "/people/discover",
    "/notifications"}
WithoutBottomNav == (OnboardingRoutes \ {"/onboarding"}) \cup AdminRoutes
    \cup {"/login", "/shared/:token", "/shared/passport/:token", "/shared/plan/:token"}
SectionRoutes == {"/tribe/calendars", "/tribe/activity", "/tribe/network", "/tribe/reviews"}
EventRoutes == {"/event/:eventId", "/event/:eventId/program", "/event/:eventId/program/plan",
    "/event/:eventId/program/edit", "/event/:eventId/program/export", "/event/:eventId/review",
    "/event/:eventId/ticket", "/event/:eventId/memories", "/event/:eventId/ask",
    "/event/:eventId/suggest-change"}

\* PUBLIC_EXACT_PATHS and the routes with one of the PUBLIC_PATH_PREFIXES.
PublicRoutes ==
    {"/login", "/privacy", "/terms", "/legal", "/invite", "/install"}
    \cup EventRoutes \cup {"/r/:code", "/series/:seriesId", "/u/:handle",
        "/shared/:token", "/shared/passport/:token", "/shared/plan/:token"}
\* Mutant: the prefix '/s' for series and shared links lets the search in.
PublicPathWide(p) == p \in PublicRoutes \cup {"/search"}
\* isPublicPath: open to guests although the app is closed to them.
PublicPath(p) == p \in PublicRoutes

\* SKIP_PREFIXES of OnboardingGate: paths that do not ask for onboarding.
SkipsOnboarding(p) ==
    p \in OnboardingRoutes \cup AdminRoutes \cup {"/login", "/r/:code", "/privacy", "/terms", "/legal"}

\* Mutant: ProtectedRoute without requireAdmin.
RouteGateMember(p) == IF p \in ProtectedRoutes THEN "member" ELSE "any"
\* The gate a route puts around its page: ProtectedRoute, SectionLayout, or none.
RouteGate(p) ==
    IF p \in AdminRoutes THEN "admin" ELSE IF p \in ProtectedRoutes THEN "member"
    ELSE IF p \in SectionRoutes THEN "unlessGuest" ELSE "any"

-----------------------------------------------------------------------------
(* Gates *)

SignedIn(s) == s \notin {"pending", "guest"}

\* AppAccessGate: lets the session in, waits for the session and the flag, or sends it on.
AccessGate(s, f, p) ==
    IF SignedIn(s) \/ PublicPath(p) THEN "open"
    ELSE IF s = "pending" \/ f = "pending" THEN "waiting"
    ELSE IF f = "on" THEN "login"
    ELSE IF p = "/" THEN "browse" ELSE "open"

\* The condition a component puts on one of its parts.
Passes(gate, s, f, p) ==
    \/ gate = "any"
    \/ gate = "open" /\ AccessGate(s, f, p) = "open"
    \/ gate = "chrome" /\ p # "/login"
    \/ gate = "bottomNav" /\ p \notin WithoutBottomNav
    \/ gate = "unlessGuest" /\ s # "guest"
    \/ gate \in {"member", "editor", "admin"} /\ Level[s] >= Level[gate]

Open == AccessGate(session, flag, path) = "open"
None == "none"

\* The location the main Routes of AppShell render, and the parts AppShell has because of it.
ShownPath == IF background = None THEN path ELSE background
Routed ==
    (IF ShownPath \in DOMAIN Page THEN Shows(RouteGate(ShownPath), {Page[ShownPath]}) ELSE {})
    \cup (IF ShownPath \in SectionRoutes THEN Shows("any", {"SectionLayout"}) ELSE {})
    \cup (IF background # None /\ path \in Overlays THEN Shows("any", {Page[path]}) ELSE {})
PartsOf(c) == Components[c] \cup (IF c = "AppShell" THEN Routed ELSE {})
Parts == PartsOf(at)
Offered == {t \in Parts : Passes(t[2], session, flag, path)}

\* Requests a component offers to a session the server will refuse, as the code stands: the
\* first fetchMe and the open mark of a notification are sent to find out, the others show
\* the refusal as an error.
Unchecked == {<<"AuthProvider", "fetchMe">>, <<"AppShell", "markNotificationOpened">>,
    <<"SuggestEventWizard", "fetchOwnSuggestion">>, <<"EventProgramPage", "fetchAdminEventSchedule">>,
    <<"EventProgramExportPage", "fetchPublishedProgramExport">>,
    <<"SearchProfileEditorPage", "createInterestProfile">>,
    <<"InterestProfilesManager", "createInterestProfile">>,
    <<"DiscussionThread", "reportEventMessage">>, <<"NewDiscussionSheet", "postEventMessage">>}
    \cup {<<"OnboardingFlowContent", r>> : r \in {"fetchInterestProfiles", "fetchOnboardingSuggestions",
        "followUser", "unfollowUser", "createInterestProfile", "updateInterestProfile",
        "deleteInterestProfile", "completeOnboarding"}}

\* The pages that may be open to guests while the app requires a sign-in: legal pages, sign-in,
\* installation, invitations and what is reached by a shared link.
PublishedPages == {"Login", "Privacy", "Terms", "LegalNotice", "InstallPage", "InvitePage",
    "ReferralLanding", "EventDetailPage", "EventProgramPage", "SuggestEventRoute", "SeriesPage",
    "ProfilePage", "SharedCalendarPage", "SharedPassportPage", "SharedMyPlanPage"}
PageNames == {Page[p] : p \in DOMAIN Page}

-----------------------------------------------------------------------------
(* What the tables promise *)

Gates == {"open", "chrome", "bottomNav", "unlessGuest", "member", "editor", "admin"}
AllGates == Gates \cup {"any"}

\* The role a gate asks for, and a route for its page; "unlessGuest" counts as a member's, the
\* session that is still pending aside.
Rank(gate) ==
    IF gate \in {"member", "editor", "admin"} THEN Level[gate] ELSE IF gate = "unlessGuest" THEN 1 ELSE 0
PageRank(p) ==
    IF p \in AdminRoutes THEN 3 ELSE IF p \in ProtectedRoutes \cup SectionRoutes THEN 1 ELSE 0
GatesUpTo(l) == {g \in AllGates : Rank(g) <= l}

\* The edges of the component tree whose kind and gate are among the given ones.
Leads(kinds, gates) ==
    UNION {{<<c, t[3]>> : t \in {u \in Components[c] : u[1] \in kinds /\ u[2] \in gates}}
            : c \in DOMAIN Components}
Rendered == {"shows", "opens"}
\* What can be reached from the components of a set along a set of edges.
Below(start, edges) ==
    LET Grown[n \in 0..Cardinality(DOMAIN Components)] ==
          IF n = 0 THEN start
          ELSE LET before == Grown[n - 1]
               IN before \cup {e[2] : e \in {d \in edges : d[1] \in before}}
    IN Grown[Cardinality(DOMAIN Components)]
ClosedUnder(edges, comps) == \A e \in edges : e[1] \in comps => e[2] \in comps

\* MetAt[l]: the components a session of level l can come to; a sheet that a pending session
\* opened stays open when the session turns out to be a guest's.
MetEdges(l) == Leads(Rendered, GatesUpTo(l)) \cup Leads({"opens"}, {"unlessGuest"})
MetStart(l) == {"App", "SectionLayout"} \cup {Page[p] : p \in {q \in DOMAIN Page : PageRank(q) <= l}}
MetAt == [l \in 0..3 |-> Below(MetStart(l), MetEdges(l))]
\* Outside of AppAccessGate; under the pages open to guests; on the login page of a guest; away
\* from the onboarding pages.
OuterParts == Below({"App"}, Leads(Rendered, AllGates \ {"open"}))
PublicParts == Below({"App", "AppShell"} \cup PublishedPages, Leads(Rendered, AllGates))
LoginGates == {"any", "open", "bottomNav", "unlessGuest"}
LoginParts == Below({"App", "AppShell", Page["/login"]}, Leads(Rendered, LoginGates))
AwayParts ==
    Below({"App", "AppShell", "SectionLayout"} \cup {Page[p] : p \in DOMAIN Page \ OnboardingRoutes},
          Leads(Rendered, AllGates))

\* What a part names exists: a component, a route of the table, a place to return to.
ASSUME TablesAgree ==
    /\ \A c \in DOMAIN Components : \A t \in Components[c] :
        /\ t = <<t[1], t[2], t[3]>> /\ t[2] \in AllGates
        /\ t[1] \in Rendered => t[3] \in DOMAIN Components
        /\ t[1] = "links" => t[3] \in Routes
        /\ t[1] = "signs" => t[3] \in (Routes \ {"/login"}) \cup {"here", "nowhere"}
    /\ {"App", "AppShell", "SectionLayout"} \subseteq DOMAIN Components
    /\ \A p \in DOMAIN Page : Page[p] \in DOMAIN Components
    /\ \A p \in DOMAIN Legacy : Legacy[p] \in DOMAIN Page \ (OnboardingRoutes \cup {"/login"})

\* The routes the code names in its gates and redirects are in the table.
ASSUME RoutesKnown ==
    /\ {"/", "/browse", "/login", "/admin"} \cup OnboardingRoutes \cup Overlays \subseteq DOMAIN Page
    /\ DOMAIN Page \cap DOMAIN Legacy = {} /\ None \notin Routes

\* Every request a component offers is one that the sessions that come to it may send.
ASSUME RolesAgree ==
    \A l \in 0..3 :
        /\ MetStart(l) \subseteq MetAt[l] /\ ClosedUnder(MetEdges(l), MetAt[l])
        /\ \A m \in l..3 : MetAt[l] \subseteq MetAt[m]
        /\ \A c \in MetAt[l] : \A t \in Components[c] :
            t[1] = "calls" /\ Rank(t[2]) <= l => Needs(t[3]) <= l \/ <<c, t[3]>> \in Unchecked

\* No page is outside of AppAccessGate or part of a page open to guests; a guest's login page
\* starts no other sign-in; onboarding runs on its own pages.
ASSUME PlacesAgree ==
    /\ "App" \in OuterParts /\ ClosedUnder(Leads(Rendered, AllGates \ {"open"}), OuterParts)
    /\ OuterParts \cap (PageNames \cup {"AppShell"}) = {} /\ Leads({"opens"}, {"open"}) = {}
    /\ {"App", "AppShell"} \cup PublishedPages \subseteq PublicParts
    /\ ClosedUnder(Leads(Rendered, AllGates), PublicParts)
    /\ PublicParts \cap PageNames \subseteq PublishedPages
    /\ \A p \in (PublicRoutes \ ProtectedRoutes) \cap DOMAIN Page : Page[p] \in PublishedPages
    /\ {"App", "AppShell", Page["/login"]} \subseteq LoginParts
    /\ ClosedUnder(Leads(Rendered, LoginGates), LoginParts)
    /\ \A c \in LoginParts : \A t \in Components[c] : t[1] = "signs" => t[2] \notin LoginGates
    /\ {"App", "AppShell", "SectionLayout"} \subseteq AwayParts
    /\ \A p \in DOMAIN Page \ OnboardingRoutes : Page[p] \in AwayParts
    /\ ClosedUnder(Leads(Rendered, AllGates), AwayParts) /\ "OnboardingFlowContent" \notin AwayParts

-----------------------------------------------------------------------------
(* The machine *)

Sessions == {"pending", "guest", "member", "editor", "admin"}

\* Login and onboarding are ways to a page, the page they return to is what was asked for.
Asked(p) == IF p \in OnboardingRoutes \cup {"/login"} THEN "/" ELSE p
Destination(p, n) == Asked(IF n = <<>> THEN p ELSE n[Len(n)])

\* navigate(safeNext ?? '/'): the path asked for and the ?next= of its own.
Return == IF next = <<>> THEN "/" ELSE Head(next)
ReturnNext == IF next = <<>> THEN <<>> ELSE Tail(next)

\* The app is opened at any path, before the session and the flags are known.
ScreensInit ==
    /\ session = "pending" /\ onboard = FALSE /\ flag = "pending"
    /\ path \in Routes /\ next = <<>> /\ background = None /\ wanted = Asked(path)
    /\ at = "App" /\ kept = {} /\ opener = "pending"

\* The cursor starts over at the top of the tree.
AtTop(s) == at' = "App" /\ kept' = {} /\ opener' = s

\* A change of the session or the flag re-renders the gates: what they no longer pass unmounts.
Rerender(s, f) ==
    IF \A g \in kept : Passes(g, s, f, path) THEN UNCHANGED <<at, kept, opener>> ELSE AtTop(s)

Arrive(p, n, b) == path' = p /\ next' = n /\ background' = b /\ AtTop(session)

\* AppAccessGate sends a guest of a closed app to sign in.
GateCloses == AccessGate(session, flag, path) = "login"
\* Mutant: without ?next=.
GateRedirectForgets ==
    GateCloses /\ Arrive("/login", <<>>, None) /\ UNCHANGED <<session, onboard, flag, wanted>>
\* <Navigate> of AppAccessGate for a guest of a closed app.
GateRedirect ==
    /\ GateCloses
    /\ Arrive("/login", <<path>> \o next, None) /\ UNCHANGED <<session, onboard, flag, wanted>>

HomeIsBrowse == AccessGate(session, flag, path) = "browse"
\* <Navigate> of AppAccessGate: the home page of a guest is the list of events.
HomeRedirect ==
    /\ HomeIsBrowse
    /\ Arrive("/browse", <<>>, None) /\ wanted' = "/browse" /\ UNCHANGED <<session, onboard, flag>>

\* SectionLayout shows a guest its call to sign in instead of the index routes of the section.
RouteMoves ==
    /\ Open /\ ShownPath \in DOMAIN Legacy
    /\ session # "guest" \/ ShownPath \notin {"/tribe", "/tribe/discover"}
\* LegacyRedirect and the index routes of the tribe section.
RouteRedirect ==
    /\ RouteMoves
    /\ Arrive(Legacy[ShownPath], <<>>, None) /\ wanted' = Legacy[ShownPath]
    /\ UNCHANGED <<session, onboard, flag>>

\* A guest on a protected route outside of the section.
NeedsSession == Open /\ session = "guest" /\ ShownPath \in ProtectedRoutes \ SectionRoutes
\* ProtectedRoute without a session; inside the main Routes the location is the page behind.
ProtectedRedirect ==
    /\ NeedsSession
    /\ Arrive("/login", <<ShownPath>>, None) /\ wanted' = ShownPath
    /\ UNCHANGED <<session, onboard, flag>>

NeedsAdmin == Open /\ session \in {"member", "editor"} /\ ShownPath \in AdminRoutes
\* Mutant: the session that is not an admin is sent to sign in.
AdminRedirectToLogin ==
    NeedsAdmin /\ Arrive("/login", <<ShownPath>>, None) /\ UNCHANGED <<session, onboard, flag, wanted>>
\* ProtectedRoute with requireAdmin for a session that is not an admin's.
AdminRedirect ==
    /\ NeedsAdmin
    /\ Arrive("/", <<>>, None) /\ wanted' = "/" /\ UNCHANGED <<session, onboard, flag>>

NeedsOnboarding == SignedIn(session) /\ onboard /\ ~SkipsOnboarding(path)
\* The effect of OnboardingGate.
OnboardingRedirect ==
    /\ NeedsOnboarding
    /\ Arrive("/onboarding/preferences", <<path>>, None) /\ UNCHANGED <<session, onboard, flag, wanted>>

LoginDone == SignedIn(session) /\ path = "/login"
\* The effect of Login once there is a user: admins go to the admin page.
LoginRedirect ==
    /\ LoginDone
    /\ IF session = "admin" THEN Arrive("/admin", <<>>, None) ELSE Arrive(Return, ReturnNext, None)
    /\ wanted' = IF session = "admin" THEN "/admin" ELSE wanted
    /\ UNCHANGED <<session, onboard, flag>>

Redirect ==
    \/ GateRedirect \/ HomeRedirect \/ RouteRedirect \/ ProtectedRedirect
    \/ AdminRedirect \/ OnboardingRedirect \/ LoginRedirect

\* React redirects while rendering or right after it: nothing can be clicked before.
NoneDue ==
    ~ (\/ GateCloses \/ HomeIsBrowse \/ RouteMoves \/ NeedsSession
       \/ NeedsAdmin \/ NeedsOnboarding \/ LoginDone)

\* fetchMe answers: AuthContext knows the session.
AuthSettles ==
    /\ session = "pending"
    /\ session' \in Sessions \ {"pending"}
    /\ onboard' \in IF SignedIn(session') THEN BOOLEAN ELSE {FALSE}
    /\ Rerender(session', flag)
    /\ UNCHANGED <<flag, path, next, background, wanted>>

\* The feature flags are loaded.
FlagsSettle ==
    /\ flag = "pending" /\ flag' \in {"on", "off"}
    /\ Rerender(session, flag')
    /\ UNCHANGED <<session, onboard, path, next, background, wanted>>

\* The cursor goes on to a component that is rendered or can be opened here.
Descend ==
    /\ NoneDue
    /\ \E t \in Offered :
        /\ t[1] \in {"shows", "opens"} /\ at' = t[3]
        /\ kept' = IF t[1] = "shows" /\ t[2] # "any" THEN kept \cup {t[2]} ELSE kept
        /\ opener' = IF Level[opener] > Level[session] THEN opener ELSE session
    /\ UNCHANGED <<session, onboard, flag, path, next, background, wanted>>

\* A link or a navigate call of the component; an overlay keeps the page that opened it.
Follow ==
    /\ NoneDue
    /\ \E t \in Offered : \E b \in {None, ShownPath} :
        /\ t[1] = "links"
        /\ b # None => t[3] \in Overlays /\ ShownPath \notin Overlays \cup OnboardingRoutes \cup {"/login"}
        /\ Arrive(t[3], <<>>, b) /\ wanted' = Asked(t[3])
    /\ UNCHANGED <<session, onboard, flag>>

\* A guest starts to sign in: the login page, with the page to return to.
StartSignIn ==
    /\ NoneDue /\ session = "guest"
    /\ \E t \in Offered :
        /\ t[1] = "signs"
        /\ LET back == IF t[3] = "here" THEN <<path>> \o next ELSE IF t[3] = "nowhere" THEN <<>> ELSE <<t[3]>>
           IN Arrive("/login", back, None) /\ wanted' = Destination("/", back)
    /\ UNCHANGED <<session, onboard, flag>>

\* AuthPanel, on the login page or in the sign-in sheet, is answered.
SignIn ==
    /\ NoneDue /\ session = "guest" /\ at = "AuthPanel"
    /\ session' \in {"member", "editor", "admin"} /\ onboard' \in BOOLEAN
    /\ Rerender(session', flag)
    /\ UNCHANGED <<flag, path, next, background, wanted>>

\* saveAll of OnboardingFlow: the user is onboarded, then the path goes on.
FinishOnboarding ==
    /\ NoneDue /\ SignedIn(session) /\ at = "OnboardingFlowContent"
    /\ onboard' = FALSE
    /\ Arrive(Return, ReturnNext, None) /\ UNCHANGED <<session, flag, wanted>>

\* Sign out from the menu, the account page or the admin page.
Logout ==
    /\ NoneDue /\ SignedIn(session) /\ at \in {"MenuDrawer", "Account", "Admin"}
    /\ session' = "guest" /\ onboard' = FALSE
    /\ path' = (IF at = "Admin" THEN "/login" ELSE "/") /\ next' = <<>> /\ background' = None
    /\ wanted' = "/" /\ AtTop("guest") /\ UNCHANGED flag

\* refreshUser finds that the session is gone.
Expire ==
    /\ NoneDue /\ SignedIn(session)
    /\ session' = "guest" /\ onboard' = FALSE
    /\ Rerender("guest", flag)
    /\ UNCHANGED <<flag, path, next, background, wanted>>

ScreensNext ==
    \/ Redirect \/ AuthSettles \/ FlagsSettle \/ Descend \/ Follow \/ StartSignIn
    \/ SignIn \/ FinishOnboarding \/ Logout \/ Expire

\* fetchMe and the flags are answered, and React renders a redirect it has.
ScreensSpec ==
    ScreensInit /\ [][ScreensNext]_screenVars
    /\ WF_screenVars(Redirect) /\ WF_screenVars(AuthSettles) /\ WF_screenVars(FlagsSettle)

-----------------------------------------------------------------------------
(* Properties *)

\* The shape of the state; a path is always one the route table knows, so no link of any
\* component leads to the blank page of an unknown path.
ScreensTypeOK ==
    /\ session \in Sessions /\ onboard \in BOOLEAN /\ flag \in {"pending", "on", "off"}
    /\ path \in Routes /\ next \in {<<>>} \cup {<<p>> : p \in Routes} \cup Routes \X Routes
    /\ background \in Routes \cup {None}
    /\ wanted \in Routes /\ at \in DOMAIN Components /\ kept \subseteq Gates /\ opener \in Sessions

\* Whatever way a component was reached, through pages, gates, sheets and dialogs, the server
\* takes every request it offers from the session that opened it (deps.py and the components'
\* own conditions agree), but for the requests listed above.
OffersPermitted ==
    opener # "pending" =>
        \A t \in Offered : t[1] = "calls" =>
            \/ Needs(t[3]) <= Level[opener] \/ Needs(t[3]) <= Level[session]
            \/ <<at, t[3]>> \in Unchecked

\* What a gate of the code keeps from a session is not on its screen, after a session that
\* ended on the page too; and while the app requires a sign-in a guest sees no page but the
\* published ones (the page behind an overlay excepted: AppAccessGate looks at the overlay).
GatesHold ==
    /\ \A g \in kept : Passes(g, session, flag, path)
    /\ session = "guest" /\ flag = "on" /\ background = None /\ at \in PageNames => at \in PublishedPages

\* The page asked for exists and is not lost: every link of every component leads to a route
\* of the table, and the session is always on the page, on one that redirects to it, or on the
\* login or onboarding page that returns to it, through any nesting of ?next=.
WantedKept == ScreensTypeOK /\ Destination(path, next) = wanted

\* Redirects come to an end: no chain of gates sends a session round in circles.
RedirectsEnd == []<>NoneDue
=============================================================================
