---------------------------- MODULE ScreenTable -----------------------------
(* The front end as Screens takes it: its components by name, the pages of  *)
(* its routes and the routes that only send the path on.                   *)
EXTENDS TLC, PageScreens, ComponentScreens, AdminScreens

ComponentTable == [
    AppAccessGate |-> AppAccessGate, SuggestEventRoute |-> SuggestEventRoute,
    BrowseRoute |-> BrowseRoute, App |-> App, AppShell |-> AppShell,
    AddressAutocomplete |-> AddressAutocomplete,
    AdminAssetPromptSendNow |-> AdminAssetPromptSendNow,
    AdminAutoTagSuggestions |-> AdminAutoTagSuggestions,
    AdminEventDetailContent |-> AdminEventDetailContent,
    AdminEventDetailPanel |-> AdminEventDetailPanel,
    AdminEventModerationSection |-> AdminEventModerationSection,
    AdminEventNotificationsSection |-> AdminEventNotificationsSection,
    AdminEventOrganizerField |-> AdminEventOrganizerField,
    AdminEventOverviewModal |-> AdminEventOverviewModal,
    AdminEventPromoCodes |-> AdminEventPromoCodes, AdminMockSourceEditor |-> AdminMockSourceEditor,
    EventLink |-> EventLink, ItemList |-> ItemList, ActivityRow |-> ActivityRow,
    RecipientGroup |-> RecipientGroup, AdminNotificationsTab |-> AdminNotificationsTab,
    AdminOrganizerSheet |-> AdminOrganizerSheet,
    AdminPeopleDiscoverySettings |-> AdminPeopleDiscoverySettings,
    AdminReviewHomePromptSettings |-> AdminReviewHomePromptSettings,
    EditProfileSheet |-> EditProfileSheet,
    AdminUserSearchProfilesSheet |-> AdminUserSearchProfilesSheet,
    AdminSearchProfilesPanel |-> AdminSearchProfilesPanel,
    AdminTagCategories |-> AdminTagCategories, AdminUserMultiPicker |-> AdminUserMultiPicker,
    AdminUsersTab |-> AdminUsersTab, MergeUsersDialog |-> MergeUsersDialog,
    AppPrompts |-> AppPrompts, AreaEditor |-> AreaEditor,
    AttendeeAvatarStack |-> AttendeeAvatarStack, AttendeeFollowPill |-> AttendeeFollowPill,
    AudiencePicker |-> AudiencePicker, AvatarEditor |-> AvatarEditor, BioEditor |-> BioEditor,
    BottomNav |-> BottomNav, Calendar |-> Calendar,
    CalendarCurationRulesPanel |-> CalendarCurationRulesPanel,
    CalendarDaySheet |-> CalendarDaySheet, CalendarDetailDrawer |-> CalendarDetailDrawer,
    CalendarMapWorkspace |-> CalendarMapWorkspace, CalendarRunPanel |-> CalendarRunPanel,
    CancelEventSheet |-> CancelEventSheet, CardActionCluster |-> CardActionCluster,
    CardReviewsLine |-> CardReviewsLine, CityRadiusEditor |-> CityRadiusEditor,
    DesktopNav |-> DesktopNav, DuplicatesPanel |-> DuplicatesPanel,
    EventActionDock |-> EventActionDock, EventAnchoredDetailPanel |-> EventAnchoredDetailPanel,
    EventCard |-> EventCard, EventDetailsPanel |-> EventDetailsPanel,
    EventImageEditor |-> EventImageEditor, EventListCard |-> EventListCard,
    EventListPanel |-> EventListPanel, EventPopupContent |-> EventPopupContent,
    MarkerClusterLayer |-> MarkerClusterLayer, EventMap |-> EventMap,
    EventMemoriesTab |-> EventMemoriesTab, TrailRow |-> TrailRow,
    EventMessagesModal |-> EventMessagesModal, EventMessagesSection |-> EventMessagesSection,
    EventIdModal |-> EventIdModal, EventModal |-> EventModal,
    EventPromoCodeDialog |-> EventPromoCodeDialog, EventPromoCodes |-> EventPromoCodes,
    EventReviewCard |-> EventReviewCard, ReviewDetailModal |-> ReviewDetailModal,
    EventReviewsSection |-> EventReviewsSection, EventSeriesLink |-> EventSeriesLink,
    EventSummary |-> EventSummary, EventsPanel |-> EventsPanel,
    ExploreSearchEntry |-> ExploreSearchEntry, ExplorerEventSearch |-> ExplorerEventSearch,
    FeedbackPanel |-> FeedbackPanel, FollowRequestsPanel |-> FollowRequestsPanel,
    GoingButton |-> GoingButton, HeaderUserMenu |-> HeaderUserMenu,
    HomePeoplePrompt |-> HomePeoplePrompt, HomeReviewPrompt |-> HomeReviewPrompt,
    InlineTagsPicker |-> InlineTagsPicker, InstallPrompt |-> InstallPrompt,
    FollowingPersonRail |-> FollowingPersonRail, FollowingPersonSearch |-> FollowingPersonSearch,
    InterestFilterChips |-> InterestFilterChips,
    InterestProfilesManager |-> InterestProfilesManager, JobDetailDrawer |-> JobDetailDrawer,
    LegalDocument |-> LegalDocument, MemoriesStrip |-> MemoriesStrip, MenuDrawer |-> MenuDrawer,
    MergeEventsDialog |-> MergeEventsDialog, MyEventsAddSearch |-> MyEventsAddSearch,
    MyEventRow |-> MyEventRow, MyEventsList |-> MyEventsList,
    MyEventsMapPreview |-> MyEventsMapPreview, MyEventsUtilityMenu |-> MyEventsUtilityMenu,
    MyPlanUtilityMenu |-> MyPlanUtilityMenu, MySubscribersBadge |-> MySubscribersBadge,
    SubscribersModal |-> SubscribersModal, NetworkPanel |-> NetworkPanel,
    FollowingView |-> FollowingView, MostActiveView |-> MostActiveView, PersonList |-> PersonList,
    PersonRow |-> PersonRow, NextUpEventCard |-> NextUpEventCard,
    NotificationBell |-> NotificationBell, NotificationRow |-> NotificationRow,
    NotificationSettings |-> NotificationSettings, NotificationsPanel |-> NotificationsPanel,
    OrganizerClaimSection |-> OrganizerClaimSection, OrganizerClaimSheet |-> OrganizerClaimSheet,
    ProfileChecklist |-> ProfileChecklist, EventPicker |-> EventPicker,
    OrganizerClaimsAdminPanel |-> OrganizerClaimsAdminPanel, ClaimReviewSheet |-> ClaimReviewSheet,
    OrganizerStrip |-> OrganizerStrip, OverlappingEventsSection |-> OverlappingEventsSection,
    PassportFollowCta |-> PassportFollowCta, TimelineEventMemories |-> TimelineEventMemories,
    JourneyEntryRow |-> JourneyEntryRow, PassportFullscreenMap |-> PassportFullscreenMap,
    FilterableEventMap |-> FilterableEventMap, PlacesPanel |-> PlacesPanel,
    PassportView |-> PassportView, TribeRow |-> TribeRow, InviteOverlay |-> InviteOverlay,
    PeopleFilterPanel |-> PeopleFilterPanel, PeopleSearchResults |-> PeopleSearchResults,
    PeopleSuggestionsTrail |-> PeopleSuggestionsTrail, BringSomeoneAlong |-> BringSomeoneAlong,
    PostRsvpSocial |-> PostRsvpSocial, PostRsvpPopover |-> PostRsvpPopover,
    ProfileDraftEditor |-> ProfileDraftEditor, ProgramAction |-> ProgramAction,
    PromoCodesAdminPanel |-> PromoCodesAdminPanel,
    PushNotificationSettings |-> PushNotificationSettings,
    QaTestPlanProvider |-> QaTestPlanProvider, QaTestPlanPanelInner |-> QaTestPlanPanelInner,
    RailEventCard |-> RailEventCard, RateEventButton |-> RateEventButton,
    RateEventModal |-> RateEventModal, RatingReviewModal |-> RatingReviewModal,
    ReferralCard |-> ReferralCard, ChangeDetail |-> ChangeDetail, ReviewPanel |-> ReviewPanel,
    ReviewSuccessSheet |-> ReviewSuccessSheet, RsvpPeopleSection |-> RsvpPeopleSection,
    RsvpVisibilitySheet |-> RsvpVisibilitySheet, SaveEventButton |-> SaveEventButton,
    SearchEventCard |-> SearchEventCard, SearchProfileFlow |-> SearchProfileFlow,
    SectionTabs |-> SectionTabs, SectionLayout |-> SectionLayout,
    SeriesDetailPanel |-> SeriesDetailPanel,
    SeriesDetectionSettingsForm |-> SeriesDetectionSettingsForm, SeriesPanel |-> SeriesPanel,
    ShareButton |-> ShareButton, ShareExperienceCard |-> ShareExperienceCard,
    ShareReferralBanner |-> ShareReferralBanner, SignUpBanner |-> SignUpBanner,
    SimilarEventsRail |-> SimilarEventsRail, SubmissionDetails |-> SubmissionDetails,
    SyncJobsHistoryTable |-> SyncJobsHistoryTable, SyncProgressCard |-> SyncProgressCard,
    TagSuggestionReviewModal |-> TagSuggestionReviewModal,
    TagSuggestionsPanel |-> TagSuggestionsPanel, TagSynonymsEditor |-> TagSynonymsEditor,
    TicketActionButton |-> TicketActionButton, TicketAction |-> TicketAction,
    TicketSheet |-> TicketSheet, TrendingEventsBanner |-> TrendingEventsBanner, Avatar |-> Avatar,
    TribeGoingCard |-> TribeGoingCard, TypicalExperienceCard |-> TypicalExperienceCard,
    UnsyncedSuggestionsPanel |-> UnsyncedSuggestionsPanel, UserSearchBox |-> UserSearchBox,
    UserRow |-> UserRow, VisibilitySection |-> VisibilitySection,
    ProfileLinksEditor |-> ProfileLinksEditor, SocialHandleRow |-> SocialHandleRow,
    ShareAttendanceDefaultPicker |-> ShareAttendanceDefaultPicker,
    YourNextEventsRail |-> YourNextEventsRail, AdminEventsMap |-> AdminEventsMap,
    AuthPanel |-> AuthPanel, AuthSheet |-> AuthSheet, DiscussionThread |-> DiscussionThread,
    NewDiscussionSheet |-> NewDiscussionSheet, EventActions |-> EventActions, LinksRow |-> LinksRow,
    PastEventBanner |-> PastEventBanner, PeopleProofRow |-> PeopleProofRow,
    SummaryHeader |-> SummaryHeader, SummaryMiniMap |-> SummaryMiniMap, AboutTab |-> AboutTab,
    DiscussionTab |-> DiscussionTab, LocationTab |-> LocationTab, PersonCard |-> PersonCard,
    Section |-> Section, PeopleTab |-> PeopleTab, ReviewsTab |-> ReviewsTab,
    OnboardingFlow |-> OnboardingFlow, OnboardingFlowContent |-> OnboardingFlowContent,
    HomeEditor |-> HomeEditor, ProfileStep |-> ProfileStep,
    ProgramExportPanel |-> ProgramExportPanel, SessionDetailsSheet |-> SessionDetailsSheet,
    OverviewItemSheet |-> OverviewItemSheet, PlanAttendeesSheet |-> PlanAttendeesSheet,
    PlanAttendanceFeedbackSheet |-> PlanAttendanceFeedbackSheet, ImagePage |-> ImagePage,
    LocationPage |-> LocationPage, OwnSuggestionActions |-> OwnSuggestionActions,
    Step1Event |-> Step1Event, Step2Details |-> Step2Details,
    SuggestEventWizard |-> SuggestEventWizard, PeoplePanel |-> PeoplePanel,
    AttendanceSummariesProvider |-> AttendanceSummariesProvider,
    AttendingEventsProvider |-> AttendingEventsProvider, AuthProvider |-> AuthProvider,
    ConsentProvider |-> ConsentProvider, EventAssetSummaryProvider |-> EventAssetSummaryProvider,
    FeatureFlagsProvider |-> FeatureFlagsProvider, MessageCountsProvider |-> MessageCountsProvider,
    MyPlanCountProvider |-> MyPlanCountProvider, MyRatingsProvider |-> MyRatingsProvider,
    NotificationsProvider |-> NotificationsProvider, PreferencesProvider |-> PreferencesProvider,
    RatingAggregatesProvider |-> RatingAggregatesProvider,
    SavedEventsProvider |-> SavedEventsProvider, SignInSheetProvider |-> SignInSheetProvider,
    Account |-> Account, FeatureEmailCard |-> FeatureEmailCard, Admin |-> Admin,
    AdminEventSchedulePage |-> AdminEventSchedulePage, SettingsPanel |-> SettingsPanel,
    DeleteProgramSection |-> DeleteProgramSection, ProgramEditorsPanel |-> ProgramEditorsPanel,
    PlannerRoster |-> PlannerRoster, ScheduleImportPanel |-> ScheduleImportPanel,
    SessionEditor |-> SessionEditor, OverviewItemEditor |-> OverviewItemEditor,
    ConfigEditor |-> ConfigEditor, PublishDialog |-> PublishDialog,
    ProgramNotifyDialog |-> ProgramNotifyDialog, VisibilityDialog |-> VisibilityDialog,
    PreviewDialog |-> PreviewDialog, DiscoverPeoplePage |-> DiscoverPeoplePage,
    DiscoveryProfilesPage |-> DiscoveryProfilesPage, EventDetailPage |-> EventDetailPage,
    EventProgramExportPage |-> EventProgramExportPage, EventProgramPage |-> EventProgramPage,
    ReviewCard |-> ReviewCard, FollowingReviewsList |-> FollowingReviewsList,
    FollowingReviewsPage |-> FollowingReviewsPage, TribeGoingEmptyState |-> TribeGoingEmptyState,
    LensTrail |-> LensTrail, ForYouPage |-> ForYouPage, ExplorerView |-> ExplorerView,
    Home |-> Home, TribeCalendarsView |-> TribeCalendarsView, HostingPage |-> HostingPage,
    InstallPage |-> InstallPage, InvitePage |-> InvitePage, LegalNotice |-> LegalNotice,
    Login |-> Login, LegacyCalendar |-> LegacyCalendar, MyCalendar |-> MyCalendar,
    MyEventsExperience |-> MyEventsExperience, MyReviewCard |-> MyReviewCard,
    MyReviewsPage |-> MyReviewsPage, SubmissionCard |-> SubmissionCard,
    MySubmissionsPage |-> MySubmissionsPage, MySubmissionsSection |-> MySubmissionsSection,
    SuggestedChanges |-> SuggestedChanges, NetworkPage |-> NetworkPage,
    NotificationsPage |-> NotificationsPage, SharePassportModal |-> SharePassportModal,
    SharePassportMenu |-> SharePassportMenu, SharePassportCardModal |-> SharePassportCardModal,
    DancingSinceControl |-> DancingSinceControl,
    AttendedEventConfirmModal |-> AttendedEventConfirmModal,
    AddPastEventControl |-> AddPastEventControl, PassportPage |-> PassportPage, Privacy |-> Privacy,
    ProfilePage |-> ProfilePage, ProfileHeader |-> ProfileHeader, ProfileTabs |-> ProfileTabs,
    ProfileTabContent |-> ProfileTabContent, HostingTabContent |-> HostingTabContent,
    PassportTabContent |-> PassportTabContent, SuggestedTabContent |-> SuggestedTabContent,
    CalendarTabContent |-> CalendarTabContent, ProfileCalendarRow |-> ProfileCalendarRow,
    ProfileEventRow |-> ProfileEventRow, MutualSubscribersLine |-> MutualSubscribersLine,
    PrivateTabPlaceholder |-> PrivateTabPlaceholder, ReferralLanding |-> ReferralLanding,
    SearchProfileEditorPage |-> SearchProfileEditorPage, SeriesPage |-> SeriesPage,
    SharedCalendarPage |-> SharedCalendarPage, SharedMyPlanPage |-> SharedMyPlanPage,
    SharedPassportPage |-> SharedPassportPage, Terms |-> Terms, TextSearchPage |-> TextSearchPage]

\* Route table of AppShell: the page of a path.
PageTable ==
    "/" :> "ForYouPage" @@ "/onboarding" :> "OnboardingFlow"
    @@ "/onboarding/preferences" :> "OnboardingFlow" @@ "/onboarding/local" :> "OnboardingFlow"
    @@ "/onboarding/follow" :> "OnboardingFlow" @@ "/r/:code" :> "ReferralLanding"
    @@ "/calendar" :> "BrowseRoute" @@ "/browse" :> "BrowseRoute"
    @@ "/search" :> "TextSearchPage" @@ "/search/results" :> "TextSearchPage"
    @@ "/event/:eventId" :> "EventDetailPage" @@ "/event/:eventId/program" :> "EventProgramPage"
    @@ "/event/:eventId/program/plan" :> "EventProgramPage"
    @@ "/event/:eventId/program/edit" :> "AdminEventSchedulePage"
    @@ "/event/:eventId/program/export" :> "EventProgramExportPage"
    @@ "/event/:eventId/review" :> "EventDetailPage"
    @@ "/event/:eventId/ticket" :> "EventDetailPage"
    @@ "/event/:eventId/memories" :> "EventDetailPage"
    @@ "/event/:eventId/ask" :> "EventDetailPage" @@ "/series/:seriesId" :> "SeriesPage"
    @@ "/tribe/calendars" :> "MyCalendar" @@ "/tribe/activity" :> "NotificationsPage"
    @@ "/tribe/network" :> "NetworkPage" @@ "/tribe/reviews" :> "FollowingReviewsPage"
    @@ "/my-events" :> "MyCalendar" @@ "/passport" :> "PassportPage"
    @@ "/people/discover" :> "DiscoverPeoplePage" @@ "/reviews" :> "MyReviewsPage"
    @@ "/me/submissions" :> "MySubmissionsPage" @@ "/hosting" :> "HostingPage"
    @@ "/saved-searches" :> "DiscoveryProfilesPage"
    @@ "/saved-searches/new" :> "SearchProfileEditorPage"
    @@ "/saved-searches/:profileId/edit" :> "SearchProfileEditorPage"
    @@ "/shared/:token" :> "SharedCalendarPage"
    @@ "/shared/passport/:token" :> "SharedPassportPage"
    @@ "/shared/plan/:token" :> "SharedMyPlanPage" @@ "/privacy" :> "Privacy"
    @@ "/terms" :> "Terms" @@ "/legal" :> "LegalNotice" @@ "/install" :> "InstallPage"
    @@ "/invite" :> "InvitePage" @@ "/login" :> "Login" @@ "/account" :> "Account"
    @@ "/notifications" :> "NotificationsPage" @@ "/u/:handle" :> "ProfilePage"
    @@ "/suggest" :> "SuggestEventRoute" @@ "/suggest/:suggestionId/edit" :> "SuggestEventRoute"
    @@ "/event/:eventId/suggest-change" :> "SuggestEventRoute"
    @@ "/admin/events/:eventId/schedule" :> "AdminEventSchedulePage" @@ "/admin" :> "Admin"
    @@ "/admin/:tab" :> "Admin"

\* Routes that only send the path on.
LegacyTable ==
    "/explore" :> "/" @@ "/for-you" :> "/" @@ "/mine" :> "/" @@ "/mine/calendar" :> "/my-events"
    @@ "/mine/passport" :> "/passport" @@ "/mine/reviews" :> "/reviews"
    @@ "/mine/profiles" :> "/saved-searches" @@ "/mine/profiles/new" :> "/saved-searches/new"
    @@ "/mine/profiles/:profileId/edit" :> "/saved-searches/:profileId/edit"
    @@ "/tribe" :> "/tribe/calendars" @@ "/tribe/discover" :> "/tribe/network"
=============================================================================
