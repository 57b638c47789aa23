----------------------------- MODULE PageScreens ------------------------------
(***************************************************************************)
(* The parts of the shell (App.tsx, the context providers) and of the pages *)
(* guests and members reach.                                               *)
(***************************************************************************)
EXTENDS ScreenParts

\* App.tsx
SuggestEventRoute ==
    UNION {Shows("any", {"SuggestEventWizard"}),
        Links("any", {"/", "/event/:eventId"})}
BrowseRoute == Shows("any", {"Home"})
App == Shows("any", {"AppAccessGate", "AuthProvider", "ConsentProvider", "FeatureFlagsProvider"})
AppShell ==
    UNION {Calls("any", {"markNotificationEmailClicked", "markNotificationOpened"}),
        Shows("any", {"AppPrompts", "InstallPrompt", "NotificationsProvider"}),
        Shows("chrome", {"DesktopNav", "ExplorerEventSearch", "HeaderUserMenu", "NotificationBell",
            "ShareReferralBanner", "SignUpBanner", "UserSearchBox"}),
        Shows("bottomNav", {"BottomNav"}),
        Links("any", {"/legal", "/privacy", "/terms"}),
        Links("chrome", {"/", "/event/:eventId", "/search", "/suggest"})}

\* context/AttendanceSummariesContext.tsx
AttendanceSummariesProvider == Calls("any", {"fetchAttendanceSummaryBatch"})

\* context/AttendingEventsContext.tsx
AttendingEventsProvider == Calls("any", {"fetchMyAttendingEvents", "trackEventAttendance"})

\* context/AuthContext.tsx
AuthProvider ==
    UNION {Calls("any", {"fetchMe", "verifyEmailCode"}),
        Calls("member", {"redeemReferral"})}

\* context/ConsentContext.tsx
ConsentProvider == Calls("any", {"fetchAppInfo"})

\* context/EventAssetSummaryContext.tsx
EventAssetSummaryProvider == Calls("member", {"fetchEventAssetSummaries"})

\* context/FeatureFlagsContext.tsx
FeatureFlagsProvider == Calls("any", {"fetchSettings"})

\* context/MessageCountsContext.tsx
MessageCountsProvider == Calls("any", {"fetchEventMessageCounts"})

\* context/MyPlanCountContext.tsx
MyPlanCountProvider == Calls("member", {"fetchMyPlanCounts"})

\* context/MyRatingsContext.tsx
MyRatingsProvider == Calls("member", {"fetchMyRatings"})

\* context/NotificationsContext.tsx
NotificationsProvider ==
    UNION {Calls("member", {"fetchNotifications", "fetchNotificationsUnreadCount",
            "markAllNotificationsRead", "markNotificationRead"}),
        Links("member", {"/u/:handle"})}

\* context/PreferencesContext.tsx
PreferencesProvider == Calls("member", {"updateUserPreferences"})

\* context/RatingAggregatesContext.tsx
RatingAggregatesProvider == Calls("any", {"fetchRatingAggregates"})

\* context/SavedEventsContext.tsx
SavedEventsProvider == Calls("any", {"fetchMySavedEvents", "trackEventSave"})

\* context/SignInSheetContext.tsx
SignInSheetProvider == Shows("any", {"AuthSheet"})

\* pages/Account.tsx
Account ==
    UNION {Calls("member", {"checkHandleAvailable", "updateUserProfile"}),
        Shows("any", {"PushNotificationSettings"}),
        Shows("member", {"AvatarEditor", "BioEditor", "NotificationSettings",
            "OrganizerClaimSection", "ProfileLinksEditor", "ReferralCard", "VisibilitySection"}),
        Links("member", {"/", "/privacy"}),
        Signs("any", {"nowhere"})}

\* pages/DiscoverPeoplePage.tsx
DiscoverPeoplePage ==
    UNION {Calls("any", {"dismissSuggestion", "fetchMySuggestions", "followUser", "searchUsers"}),
        Shows("any", {"PeopleSearchResults"}),
        Links("any", {"/invite", "/tribe/network", "/u/:handle"})}

\* pages/DiscoveryProfilesPage.tsx
DiscoveryProfilesPage == Shows("any", {"InterestProfilesManager"})

\* pages/EventDetailPage.tsx
EventDetailPage ==
    UNION {Calls("any", {"fetchEvent", "trackEventView", "trackShare"}),
        Calls("admin", {"updateEvent"}),
        Shows("any", {"AboutTab", "DiscussionTab", "EventActionDock", "EventMemoriesTab",
            "EventPromoCodes", "EventSummary", "LocationTab", "OrganizerStrip", "PastEventBanner",
            "PeopleTab", "ReviewsTab", "SummaryHeader", "TicketAction"}),
        Shows("member", {"OwnSuggestionActions"}),
        Shows("admin", {"AdminEventDetailContent", "EventImageEditor", "GoingButton",
            "SaveEventButton", "ShareButton"}),
        Opens("member", {"TicketSheet"}),
        Opens("admin", {"AdminEventDetailPanel"}),
        Links("any", {"/", "/event/:eventId", "/event/:eventId/program",
            "/event/:eventId/program/plan", "/event/:eventId/suggest-change"}),
        Signs("any", {"here"})}

\* pages/EventProgramExportPage.tsx
EventProgramExportPage ==
    UNION {Calls("any", {"fetchPublishedProgramExport"}),
        Opens("editor", {"ProgramExportPanel"}),
        Links("any", {"/event/:eventId/program"})}

\* pages/EventProgramPage.tsx
EventProgramPage ==
    UNION {Calls("any", {"fetchAdminEventSchedule", "fetchEvent", "fetchEventSchedule"}),
        Calls("member", {"addOverviewItemToMyPlan", "addToMyPlan", "fetchEventScheduleEditorAccess",
            "fetchMyPlan", "fetchOverviewItemAttendanceSummary", "fetchSessionAttendanceSummary",
            "fetchSingleSessionAttendanceSummary", "removeFromMyPlan",
            "removeOverviewItemFromMyPlan", "updateMyPlanAudience"}),
        Shows("any", {"OverviewItemSheet", "PlanAttendanceFeedbackSheet", "SessionDetailsSheet",
            "ShareButton"}),
        Shows("member", {"MyPlanUtilityMenu"}),
        Links("any", {"/event/:eventId", "/event/:eventId/program", "/event/:eventId/program/edit",
            "/event/:eventId/program/export", "/event/:eventId/program/plan"})}

\* pages/FollowingReviewsPage.tsx
ReviewCard == Links("any", {"/event/:eventId"})
FollowingReviewsList ==
    UNION {Calls("any", {"fetchFollowingReviews"}),
        Shows("any", {"ReviewCard"})}
FollowingReviewsPage == Shows("any", {"FollowingReviewsList"})

\* pages/ForYouPage.tsx
TribeGoingEmptyState == Links("any", {"/tribe/network"})
LensTrail == Shows("any", {"EventCard", "RailEventCard", "TribeGoingCard"})
ForYouPage ==
    UNION {Calls("any", {"fetchEventsPage", "trackEventView"}),
        Calls("member", {"dismissSuggestion", "fetchEventsByIds", "fetchMyPendingReviews",
            "fetchMySuggestions", "followUser"}),
        Shows("any", {"EventModal", "ExploreSearchEntry", "LensTrail", "PeopleSuggestionsTrail"}),
        Shows("member", {"ShareExperienceCard", "TribeGoingEmptyState", "YourNextEventsRail"}),
        Links("member", {"/saved-searches", "/tribe/calendars"})}

\* pages/Home.tsx
ExplorerList ==
    UNION {Shows("any", {"EventListPanel"}),
        Links("any", {"/suggest"})}
ExplorerMap ==
    UNION {Shows("any", {"EventMap", "MyEventsMapPreview"}),
        Links("any", {"/", "/account", "/browse", "/calendar"})}
ExplorerMobileList ==
    UNION {Shows("any", {"EventListPanel"}),
        Links("any", {"/suggest"})}
ExplorerCalendar ==
    UNION {Shows("any", {"CalendarMapWorkspace", "EventMap"}),
        Links("any", {"/event/:eventId"})}
ExplorerOverlays ==
    UNION {Calls("any", {"fetchEvents"}),
        Shows("any", {"EventAnchoredDetailPanel", "EventModal"}),
        Shows("member", {"SearchProfileFlow"}),
        Opens("admin", {"AdminEventDetailPanel"}),
        Links("any", {"/", "/browse", "/calendar", "/suggest"})}
ExplorerView ==
    UNION {Calls("any", {"fetchSettings", "fetchTagGroups", "trackEventView"}),
        Calls("member", {"createInterestProfile", "deleteInterestProfile", "fetchInterestProfiles",
            "fetchMyFollowing", "updateInterestProfile"}),
        Shows("any", {"AreaEditor", "PeopleFilterPanel", "TrendingEventsBanner"}),
        Signs("any", {"here"}),
        ExplorerList,
        ExplorerMap,
        ExplorerMobileList,
        ExplorerCalendar,
        ExplorerOverlays}
Home == Shows("any", {"ExplorerView"})
TribeCalendarsView == Shows("any", {"ExplorerView"})

\* pages/HostingPage.tsx
HostingPage ==
    UNION {Calls("member", {"fetchMyHosting"}),
        Shows("member", {"CancelEventSheet", "MySubmissionsSection", "OrganizerClaimSheet"}),
        Links("member", {"/event/:eventId", "/event/:eventId/suggest-change", "/suggest"}),
        Signs("any", {"here"})}

\* pages/InstallPage.tsx
InstallPage == {}

\* pages/InvitePage.tsx
InvitePage ==
    UNION {Shows("member", {"ReferralCard"}),
        Signs("any", {"here"})}

\* pages/LegalNotice.tsx
LegalNotice == Shows("any", {"LegalDocument"})

\* pages/Login.tsx
Login ==
    UNION {Shows("any", {"AuthPanel"}),
        Links("any", {"/"})}

\* pages/MyCalendar.tsx
CalendarMine ==
    UNION {Calls("any", {"createShareToken", "exportIcs", "exportXlsx"}),
        Shows("member", {"MySubscribersBadge"})}
CalendarSubscriptions ==
    UNION {Shows("any", {"InterestFilterChips"}),
        Links("any", {"/", "/tribe/discover"})}
CalendarGrid ==
    Shows("any", {"EventListPanel", "EventMap", "EventModal"})
LegacyCalendar ==
    UNION {Calls("any", {"fetchEventsByIds", "trackEventView", "trackExport"}),
        Calls("member", {"fetchMyFriends", "fetchMySubscriptions", "fetchSubscribedEvents"}),
        Signs("any", {"/my-events", "/tribe/calendars"}),
        CalendarMine,
        CalendarSubscriptions,
        CalendarGrid}
MyCalendar == Shows("any", {"LegacyCalendar", "MyEventsExperience", "TribeCalendarsView"})

\* pages/MyEventsExperience.tsx
MyEventsExperience ==
    UNION {Calls("any", {"fetchEventsByIds"}),
        Shows("any", {"CalendarMapWorkspace", "EventMap", "EventModal", "MyEventsAddSearch",
            "MyEventsList", "MyEventsMapPreview", "MyEventsUtilityMenu"}),
        Links("any", {"/passport", "/suggest"})}

\* pages/MyReviewsPage.tsx
MyReviewCard == Links("any", {"/event/:eventId"})
MyReviewsPage ==
    UNION {Calls("any", {"fetchAspectTagGroups", "fetchAudienceTagGroups"}),
        Calls("member", {"fetchEventsByIds", "fetchMyPendingReviews", "fetchMyRatings"}),
        Shows("member", {"EventModal", "EventReviewCard", "FollowingReviewsList", "MyReviewCard",
            "RateEventModal"}),
        Signs("any", {"here"})}

\* pages/MySubmissionsPage.tsx
SubmissionCard == Links("any", {"/event/:eventId"})
MySubmissionsPage ==
    UNION {Shows("member", {"MySubmissionsSection"}),
        Links("member", {"/hosting"}),
        Signs("any", {"here"})}
MySubmissionsSection ==
    UNION {Calls("any", {"deleteOwnSuggestion", "fetchMySubmissions", "requestOwnSuggestionPublic",
            "withdrawOwnSuggestion", "withdrawOwnSuggestionChanges"}),
        Shows("any", {"SubmissionCard", "SuggestedChanges"}),
        Links("any", {"/suggest", "/suggest/:suggestionId/edit"})}
SuggestedChanges ==
    UNION {Calls("any", {"fetchOwnEventChanges", "withdrawOwnEventChange"}),
        Links("any", {"/event/:eventId"})}

\* pages/NetworkPage.tsx
NetworkPage == Shows("any", {"NetworkPanel"})

\* pages/Notifications.tsx
NotificationsPage ==
    UNION {Calls("any", {"fetchNotifications"}),
        Shows("any", {"NotificationRow"}),
        Links("any", {"/saved-searches"})}

\* pages/PassportPage.tsx
SharePassportModal ==
    Calls("any", {"createPassportShare", "fetchPassportShare", "fetchPublicProfile",
            "revokePassportShare", "updateMyVisibility"})
SharePassportMenu == Shows("any", {"SharePassportCardModal", "SharePassportModal"})
SharePassportCardModal == Calls("any", {"fetchPassportEvents", "fetchPublicProfile"})
DancingSinceControl == Calls("any", {"updateMyVisibility"})
AttendedEventConfirmModal ==
    UNION {Calls("any", {"fetchEvent"}),
        Links("any", {"/event/:eventId"})}
AddPastEventControl == Shows("any", {"AttendedEventConfirmModal", "ExplorerEventSearch"})
PassportPage ==
    UNION {Calls("any", {"ackPassportMilestones", "fetchPassport", "fetchPassportEvents",
            "fetchPassportTimeline"}),
        Shows("any", {"AddPastEventControl", "DancingSinceControl", "PassportView"}),
        Shows("member", {"SharePassportMenu"}),
        Links("any", {"/suggest"})}

\* pages/Privacy.tsx
Privacy ==
    UNION {Shows("any", {"LegalDocument"}),
        Links("any", {"/account"})}

\* pages/ProfilePage.tsx
ProfilePage ==
    UNION {Calls("any", {"fetchPublicProfile"}),
        Calls("member", {"followUser", "setFollowNotify", "unfollowUser"}),
        Shows("any", {"ProfileHeader", "ProfileTabs"}),
        Links("any", {"/u/:handle"}),
        Signs("any", {"here", "nowhere"})}
ProfileHeader ==
    UNION {Shows("any", {"MutualSubscribersLine"}),
        Links("any", {"/account"})}
ProfileTabs == Shows("any", {"PassportTabContent", "PrivateTabPlaceholder", "ProfileTabContent"})
ProfileTabContent ==
    Shows("any", {"CalendarTabContent", "HostingTabContent", "PassportTabContent",
            "SuggestedTabContent"})
HostingTabContent ==
    UNION {Calls("any", {"fetchUserHosting"}),
        Shows("any", {"ProfileEventRow"})}
PassportTabContent ==
    UNION {Calls("any", {"fetchProfilePassport"}),
        Shows("any", {"PassportView"})}
SuggestedTabContent ==
    UNION {Calls("any", {"fetchUserSuggested"}),
        Shows("any", {"ProfileEventRow"})}
CalendarTabContent ==
    UNION {Calls("any", {"fetchUserCalendar"}),
        Shows("any", {"ProfileCalendarRow"})}
ProfileCalendarRow ==
    UNION {Shows("any", {"EventModal"}),
        Links("any", {"/event/:eventId"})}
ProfileEventRow ==
    UNION {Shows("any", {"EventModal"}),
        Links("any", {"/event/:eventId"})}
MutualSubscribersLine == Links("any", {"/u/:handle"})
PrivateTabPlaceholder == Links("any", {"/"})

\* pages/ReferralLanding.tsx
ReferralLanding ==
    UNION {Calls("member", {"redeemReferral"}),
        Links("any", {"/"}),
        Signs("any", {"nowhere"})}

\* pages/SearchProfileEditorPage.tsx
SearchProfileEditorPage ==
    UNION {Calls("any", {"createInterestProfile", "fetchTagGroups"}),
        Calls("member", {"deleteInterestProfile", "fetchInterestProfiles", "updateInterestProfile"}),
        Shows("any", {"ProfileDraftEditor"}),
        Links("any", {"/saved-searches"})}

\* pages/SeriesPage.tsx
SeriesPage ==
    UNION {Calls("any", {"fetchAspectTagGroups"}),
        Calls("member", {"fetchSeriesRollup"}),
        Shows("any", {"EventIdModal"}),
        Links("any", {"/", "/event/:eventId"}),
        Signs("any", {"here"})}

\* pages/SharedCalendarPage.tsx
SharedCalendarPage ==
    UNION {Calls("any", {"fetchSharedCalendar", "trackEventView"}),
        Shows("any", {"EventListPanel", "EventMap", "EventModal"}),
        Links("any", {"/", "/my-events"})}

\* pages/SharedMyPlanPage.tsx
SharedMyPlanPage ==
    UNION {Calls("any", {"fetchSharedMyPlan"}),
        Links("any", {"/", "/event/:eventId", "/event/:eventId/program"})}

\* pages/SharedPassportPage.tsx
SharedPassportPage ==
    UNION {Calls("any", {"fetchSharedPassport"}),
        Shows("any", {"PassportFollowCta", "PassportView"}),
        Links("any", {"/"}),
        Signs("any", {"nowhere"})}

\* pages/Terms.tsx
Terms ==
    UNION {Shows("any", {"LegalDocument"}),
        Links("any", {"/legal", "/privacy"})}

\* pages/TextSearchPage.tsx
TextSearchPage ==
    UNION {Calls("any", {"fetchEventsByIds", "searchEventsPage", "trackEventView"}),
        Shows("any", {"EventModal", "SearchEventCard"}),
        Links("any", {"/", "/event/:eventId", "/search", "/search/results"})}

\* App.tsx
\* App: what the gate renders when it lets the session in.
AppAccessGate ==
    Shows("open", {"AppShell", "AttendanceSummariesProvider", "MyPlanCountProvider",
        "SavedEventsProvider", "PreferencesProvider", "RatingAggregatesProvider",
        "MessageCountsProvider", "MyRatingsProvider", "AttendingEventsProvider",
        "EventAssetSummaryProvider", "QaTestPlanProvider", "SignInSheetProvider"})
===============================================================================
