------------------------------ MODULE UserLoads -------------------------------
(***************************************************************************)
(* The loads of the screens of guests and members, one definition each, named *)
(* Component_request.  PageLoads explains what a load is made of.          *)
(***************************************************************************)
EXTENDS PageLoads, ApiCalls

AreaEditor_runSearch ==
    Load({OwnSuggestionApi.searchSuggestionAddress}, "keyed", "none", "keep", "keep",
         "default", "each")
AttendeeList_AttendanceSummary ==
    Load({PeopleSearchApi.fetchAttendanceSummary}, "keyed", "cancel", "keep", "keep",
         "tell", "each")
AttendeeList_EventAttendees ==
    Load({EventInterestApi.fetchEventAttendees}, "gated", "cancel", "keep", "clear",
         "keep", "no")
BioEditor_load ==
    Load({fetchPublicProfile}, "keyed", "none", "clear", "keep", "tell", "each")
CityRadiusEditor_PopularCities ==
    Load({OrganizerClaimApi.fetchPopularCities}, "once", "none", "keep", "keep",
         "default", "no")
EventAssetsSection_load ==
    Load({AssetApi.fetchEventAssets}, "keyed", "none", "keep", "keep", "default", "no")
EventMessagesSection_load ==
    Load({MessageAndPassportApi.fetchEventMessages}, "keyed", "none", "keep", "keep",
         "default", "each")
EventMessagesTeaser_EventMessages ==
    Load({MessageAndPassportApi.fetchEventMessages}, "keyed", "cancel", "keep",
         "keep", "default", "no")
EventModal_Event ==
    Load({ProgramEditorApi.fetchEvent}, "keyed", "cancel", "keep", "keep", "leave", "no")
EventPromoCodes_EventPromoCodes ==
    Load({ShareAndPromoCodeApi.fetchEventPromoCodes}, "gated", "cancel", "keep",
         "keep", "keep", "no")
EventReviewsSection_loadAggregate ==
    Load({RatingApi.fetchRatingAggregate}, "keyed", "none", "keep", "keep",
         "default", "no")
EventReviewsSection_loadSeries ==
    Load({EventReviewApi.fetchEventSeriesRollup}, "keyed", "cancel", "keep", "keep",
         "default", "no")
EventReviewsSection_loadEarlier ==
    Load({EventReviewApi.fetchEventReviews}, "keyed", "none", "keep", "keep",
         "default", "no")
EventReviewsSection_AspectTagGroups ==
    Load({ShareAndPromoCodeApi.fetchAspectTagGroups}, "once", "none", "keep", "keep",
         "default", "no")
EventSeriesLink_EventSeriesRollup ==
    Load({EventReviewApi.fetchEventSeriesRollup}, "gated", "cancel", "keep", "clear",
         "default", "no")
EventSummary_EventMessages ==
    Load({MessageAndPassportApi.fetchEventMessages}, "keyed", "cancel", "keep",
         "keep", "default", "no")
EventTagEditor_TagGroups ==
    Load({TrackingApi.fetchTagGroups}, "once", "none", "keep", "keep", "keep", "no")
FollowRequestsPanel_load ==
    Load({FollowApi.fetchFollowRequests}, "again", "none", "keep", "keep", "tell", "no")
GoingWedge_GoingWedge ==
    Load({NetworkApi.fetchGoingWedge}, "gated", "cancel", "keep", "settle", "keep",
         "each")
InlineTagsPicker_TagGroups ==
    Load({TrackingApi.fetchTagGroups}, "once", "none", "keep", "keep", "keep", "no")
InterestFilter_MyFollowing ==
    Load({NetworkApi.fetchMyFollowing, EventInterestApi.fetchInterestSummary},
         "keyed", "cancel", "keep", "keep", "default", "each")
InterestFilter_MyFollowing166 ==
    Load({NetworkApi.fetchMyFollowing, EventInterestApi.fetchInterestSummary},
         "keyed", "cancel", "keep", "keep", "default", "each")
InterestProfilesManager_TagGroups ==
    Load({TrackingApi.fetchTagGroups}, "once", "none", "keep", "keep", "default", "no")
InterestSection_AttendanceSummary ==
    Load({PeopleSearchApi.fetchAttendanceSummary}, "keyed", "cancel", "keep", "keep",
         "keep", "each")
InterestSection_EventAttendees ==
    Load({EventInterestApi.fetchEventAttendees}, "gated", "cancel", "keep", "clear",
         "keep", "no")
InterestSection_GoingWedge ==
    Load({NetworkApi.fetchGoingWedge}, "gated", "cancel", "keep", "clear", "keep", "no")
MyEventsList_AspectTagGroups ==
    Load({ShareAndPromoCodeApi.fetchAspectTagGroups,
         ShareAndPromoCodeApi.fetchAudienceTagGroups}, "gated", "cancel", "keep",
         "keep", "default", "no")
MyEventsUtilityMenu_ShareToken ==
    Load({ShareTokenApi.getShareToken}, "gated", "none", "keep", "keep", "default",
         "each")
MyPlanUtilityMenu_MyPlanShare ==
    Load({ProgramExchangeApi.fetchMyPlanShare}, "gated", "cancel", "keep", "keep",
         "default", "each")
MySubscribersBadge_MySubscribers ==
    Load({SubscriberApi.fetchMySubscribers}, "once", "cancel", "keep", "keep",
         "tell", "no")
MySubscribersBadge_MySubscribers101 ==
    Load({SubscriberApi.fetchMySubscribers}, "once", "none", "keep", "keep", "tell", "no")
NetworkPanel_loadCounts ==
    Load({NetworkApi.fetchMyFollowing, NetworkApi.fetchMyFollowers,
         FollowApi.fetchMyFriends, FollowApi.fetchFollowRequests}, "again", "none",
         "keep", "keep", "keep", "no")
NetworkPanel_FollowingMostActive ==
    Load({fetchFollowingMostActive}, "gated", "cancel", "clear", "keep", "tell", "no")
NetworkPanel_searchUsers ==
    Load({PeopleSearchApi.searchUsers}, "gated", "cancel", "keep", "clear",
         "default", "each")
NotificationsPanel_load ==
    Load({NotificationApi.fetchNotifications}, "again", "none", "keep", "keep",
         "tell", "no")
OrganizerClaimSection_load ==
    Load({fetchPublicProfile, OrganizerClaimApi.fetchMyOrganizerClaims}, "keyed",
         "none", "keep", "keep", "keep", "first")
OrganizerClaimSheet_PublicProfile ==
    Load({fetchPublicProfile, OrganizerClaimApi.fetchMyOrganizerClaims}, "keyed",
         "cancel", "keep", "keep", "keep", "no")
OrganizerClaimSheet_searchEvents ==
    Load({searchEvents}, "gated", "none", "keep", "settle", "default", "each")
PeopleFilterPanel_load ==
    Load({NetworkApi.fetchMyFollowing}, "again", "none", "keep", "keep", "keep", "no")
PeopleYouMayKnowCard_load ==
    Load({PeopleSuggestionApi.fetchMySuggestions}, "again", "none", "keep", "keep",
         "default", "no")
PeopleYouMayKnowCard_loadMore ==
    Load({PeopleSuggestionApi.fetchMySuggestions}, "again", "none", "keep", "keep",
         "escape", "each")
PreferencesSection_TagGroups ==
    Load({TrackingApi.fetchTagGroups}, "once", "none", "keep", "keep", "default", "first")
QaTestPlanPanel_AppInfo ==
    Load({ModerationApi.fetchAppInfo}, "once", "none", "keep", "keep", "keep", "no")
QaTestPlanPanel_TestPlan ==
    Load({ModerationApi.fetchTestPlan}, "gated", "none", "keep", "clear", "keep", "each")
RateEventModal_EventSeriesRollup ==
    Load({EventReviewApi.fetchEventSeriesRollup}, "gated", "cancel", "keep", "keep",
         "default", "no")
RateEventModal_AspectTagGroups ==
    Load({ShareAndPromoCodeApi.fetchAspectTagGroups,
         ShareAndPromoCodeApi.fetchAudienceTagGroups, ProgramEditorApi.fetchEvent},
         "keyed", "none", "keep", "keep", "default", "no")
ReferralCard_MyReferral ==
    Load({fetchMyReferral}, "once", "cancel", "keep", "keep", "tell", "no")
ReviewPanel_AdminCalendars ==
    Load({CalendarApi.fetchAdminCalendars}, "gated", "none", "keep", "keep",
         "default", "no")
RsvpPeopleSection_EventAttendees ==
    Load({EventInterestApi.fetchEventAttendees}, "gated", "cancel", "keep", "keep",
         "default", "no")
ShareReferralBanner_ShareSource ==
    Load({fetchShareSource}, "gated", "cancel", "clear", "keep", "default", "no")
SubscribedEventsPanel_MySubscriptions ==
    Load({SubscriptionApi.fetchMySubscriptions}, "once", "cancel", "keep", "keep",
         "keep", "no")
SubscribedEventsPanel_load ==
    Load({fetchSubscribedEvents}, "keyed", "none", "keep", "keep", "tell", "no")
SubscribersPanel_MySubscribers ==
    Load({SubscriberApi.fetchMySubscribers}, "once", "cancel", "keep", "keep",
         "tell", "no")
SubscriptionsPanel_load ==
    Load({SubscriptionApi.fetchMySubscriptions}, "again", "none", "keep", "keep",
         "tell", "no")
UserInterestPicker_searchUsers ==
    Load({PeopleSearchApi.searchUsers, NetworkApi.fetchMyFollowing,
         PeopleSearchApi.fetchCurators}, "keyed", "cancel", "keep", "keep",
         "default", "each")
UserInterestPicker_InterestSummary ==
    Load({EventInterestApi.fetchInterestSummary}, "gated", "cancel", "keep", "clear",
         "default", "no")
UserSearchBox_searchUsers ==
    Load({PeopleSearchApi.searchUsers}, "gated", "cancel", "keep", "settle",
         "default", "each")
UserSearchBox_Curators ==
    Load({PeopleSearchApi.fetchCurators}, "gated", "cancel", "keep", "settle",
         "default", "each")
VisibilitySection_load ==
    Load({fetchPublicProfile}, "keyed", "none", "clear", "keep", "tell", "each")
VisibilitySection_load327 ==
    Load({fetchPublicProfile}, "keyed", "none", "clear", "keep", "tell", "each")
AuthPanel_AuthMode ==
    Load({fetchAuthMode}, "once", "none", "keep", "keep", "default", "no")
AuthPanel_DevUsers ==
    Load({SessionApi.fetchDevUsers}, "keyed", "none", "keep", "keep", "default", "no")
DiscussionTab_load ==
    Load({MessageAndPassportApi.fetchEventMessages}, "keyed", "none", "keep", "keep",
         "default", "each")
PeopleTab_EventAttendees ==
    Load({EventInterestApi.fetchEventAttendees}, "keyed", "cancel", "keep", "keep",
         "default", "each")
OnboardingFlow_TagGroups ==
    Load({TrackingApi.fetchTagGroups, InterestProfileApi.fetchInterestProfiles},
         "once", "cancel", "keep", "keep", "tell", "first")
OnboardingFlow_OnboardingSuggestions ==
    Load({fetchOnboardingSuggestions}, "latched", "cancel", "keep", "keep", "tell",
         "each")
OnboardingFlow_searchUsers ==
    Load({PeopleSearchApi.searchUsers}, "gated", "cancel", "keep", "settle",
         "default", "each")
LocationPage_searchSuggestionAddress ==
    Load({OwnSuggestionApi.searchSuggestionAddress}, "gated", "latest", "keep",
         "keep", "replace", "each")
OwnSuggestionActions_OwnSuggestionForEvent ==
    Load({OwnSuggestionApi.fetchOwnSuggestionForEvent}, "keyed", "cancel", "keep",
         "keep", "default", "no")
SuggestEventWizard_OwnSuggestion ==
    Load({OwnSuggestionApi.fetchOwnSuggestion}, "gated", "cancel", "keep", "keep",
         "tell", "no")
SuggestEventWizard_Event ==
    Load({ProgramEditorApi.fetchEvent}, "gated", "cancel", "keep", "keep", "tell", "no")
SuggestEventWizard_TagGroups ==
    Load({TrackingApi.fetchTagGroups, SettingsApi.fetchSettings}, "once", "none",
         "keep", "keep", "default", "no")
PeoplePanel_MyFollowing ==
    Load({NetworkApi.fetchMyFollowing}, "keyed", "cancel", "keep", "keep", "default",
         "each")
PeoplePanel_MySuggestions ==
    Load({PeopleSuggestionApi.fetchMySuggestions}, "gated", "cancel", "keep", "keep",
         "default", "each")
PeoplePanel_searchUsers ==
    Load({PeopleSearchApi.searchUsers}, "gated", "cancel", "keep", "clear",
         "default", "no")
FeatureFlagsContext_Settings ==
    Load({SettingsApi.fetchSettings}, "once", "none", "keep", "keep", "keep", "first")
MyRatingsContext_MyRatings ==
    Load({MessageAndPassportApi.fetchMyRatings}, "gated", "none", "keep", "settle",
         "default", "each")
useActiveProfile_InterestProfiles ==
    Load({InterestProfileApi.fetchInterestProfiles}, "gated", "cancel", "keep",
         "clear", "default", "each")
useAreaEventPreview_EventsPage ==
    Load({fetchEventsPage}, "gated", "latest", "keep", "keep", "default", "no")
useCommunityExperience_RatingAggregate ==
    Load({RatingApi.fetchRatingAggregate}, "gated", "cancel", "keep", "clear",
         "default", "no")
useCommunityExperience_EventSeriesRollup ==
    Load({EventReviewApi.fetchEventSeriesRollup}, "gated", "cancel", "keep", "clear",
         "default", "no")
useEventAssets_load ==
    Load({AssetApi.fetchEventAssets}, "keyed", "none", "keep", "keep", "default", "no")
useForYouLens_fetchAt ==
    Load({fetchEventsPage}, "keyed", "latest", "keep", "keep", "keep", "each")
useInterestProfiles_reload ==
    Load({InterestProfileApi.fetchInterestProfiles}, "again", "none", "keep", "keep",
         "escape", "no")
useInterestProfiles_InterestProfiles ==
    Load({InterestProfileApi.fetchInterestProfiles}, "gated", "cancel", "keep",
         "clear", "tell", "no")
usePeopleSuggestions_load ==
    Load({PeopleSuggestionApi.fetchMySuggestions}, "keyed", "latest", "keep", "keep",
         "escape", "no")
Account_checkHandleAvailable ==
    Load({checkHandleAvailable}, "gated", "latest", "keep", "clear", "tell", "no")
DiscoverPeoplePage_searchUsers ==
    Load({PeopleSearchApi.searchUsers}, "gated", "cancel", "keep", "clear",
         "default", "each")
DiscoverPeoplePage_reload ==
    Load({PeopleSuggestionApi.fetchMySuggestions}, "again", "none", "keep", "keep",
         "tell", "no")
DiscoverPeoplePage_loadMore ==
    Load({PeopleSuggestionApi.fetchMySuggestions}, "keyed", "none", "keep", "keep",
         "tell", "each")
EventDetailPage_Event ==
    Load({ProgramEditorApi.fetchEvent}, "gated", "cancel", "keep", "keep", "tell",
         "first")
EventDetailPage_handleTagsUpdated ==
    Load({ProgramEditorApi.fetchEvent}, "keyed", "none", "keep", "keep", "keep", "no")
EventDetailPage_handleAdminEventUpdated ==
    Load({ProgramEditorApi.fetchEvent}, "keyed", "none", "keep", "keep", "keep", "no")
EventProgramPage_MyPlan ==
    Load({MyPlanApi.fetchMyPlan}, "gated", "none", "keep", "keep", "default", "no")
EventProgramPage_EventScheduleEditorAccess ==
    Load({ProgramEditorApi.fetchEventScheduleEditorAccess}, "gated", "cancel",
         "keep", "clear", "default", "no")
EventProgramPage_SessionAttendanceSummary ==
    Load({ProgramEditorApi.fetchSessionAttendanceSummary}, "gated", "cancel", "keep",
         "clear", "default", "no")
FollowingReviewsPage_FollowingReviews ==
    Load({EventReviewApi.fetchFollowingReviews}, "once", "cancel", "keep", "keep",
         "default", "no")
ForYouPage_MyPendingReviews ==
    Load({MessageAndPassportApi.fetchMyPendingReviews}, "gated", "cancel", "keep",
         "keep", "keep", "no")
Home_MyFollowing ==
    Load({NetworkApi.fetchMyFollowing}, "gated", "cancel", "keep", "keep", "keep", "no")
Home_Events ==
    Load({fetchEvents, SettingsApi.fetchSettings, TrackingApi.fetchTagGroups},
         "keyed", "none", "keep", "keep", "tell", "each")
Home_Events1299 ==
    Load({fetchEvents}, "gated", "cancel", "clear", "keep", "default", "no")
Home_handleCloseEdit ==
    Load({fetchEvents}, "keyed", "none", "keep", "keep", "keep", "no")
HostingPage_load ==
    Load({PersonalListsApi.fetchMyHosting}, "keyed", "none", "keep", "keep", "tell", "no")
MineHub_Passport ==
    Load({MessageAndPassportApi.fetchPassport,
         MessageAndPassportApi.fetchPassportEvents,
         MessageAndPassportApi.fetchMyPendingReviews,
         InterestProfileApi.fetchInterestProfiles}, "gated", "cancel", "keep",
         "settle", "default", "each")
MyCalendar_MySubscriptions ==
    Load({SubscriptionApi.fetchMySubscriptions, FollowApi.fetchMyFriends}, "gated",
         "cancel", "keep", "clear", "keep", "no")
MyCalendar_SubscribedEvents ==
    Load({fetchSubscribedEvents}, "gated", "cancel", "keep", "settle", "default", "each")
MyCalendar_SubscribedEvents208 ==
    Load({fetchSubscribedEvents}, "gated", "cancel", "keep", "clear", "default", "no")
MyReviewsPage_AspectTagGroups ==
    Load({ShareAndPromoCodeApi.fetchAspectTagGroups,
         ShareAndPromoCodeApi.fetchAudienceTagGroups}, "once", "cancel", "keep",
         "keep", "default", "no")
MyReviewsPage_handleSubmitted ==
    Load({MessageAndPassportApi.fetchMyRatings}, "again", "none", "keep", "keep",
         "keep", "no")
MyReviewsPage_handlePendingRatingChanged ==
    Load({MessageAndPassportApi.fetchMyRatings}, "again", "none", "keep", "keep",
         "keep", "no")
MyReviewsPage_handleReviewedRatingChanged ==
    Load({MessageAndPassportApi.fetchMyPendingReviews,
         MessageAndPassportApi.fetchMyRatings}, "again", "none", "keep", "keep",
         "keep", "no")
MySubmissionsPage_load ==
    Load({OwnSuggestionApi.fetchMySubmissions}, "again", "none", "keep", "keep",
         "replace", "no")
MySubmissionsPage_OwnEventChanges ==
    Load({OwnSuggestionApi.fetchOwnEventChanges}, "keyed", "none", "keep", "keep",
         "default", "no")
Notifications_load ==
    Load({NotificationApi.fetchNotifications}, "keyed", "none", "keep", "keep",
         "tell", "no")
Notifications_handleLoadMore ==
    Load({NotificationApi.fetchNotifications}, "keyed", "none", "keep", "keep",
         "tell", "each")
OnboardingWizard_TagGroups ==
    Load({TrackingApi.fetchTagGroups}, "once", "cancel", "keep", "keep", "default",
         "first")
OnboardingWizard_OnboardingSuggestions ==
    Load({fetchOnboardingSuggestions}, "once", "none", "keep", "keep", "tell", "no")
OnboardingWizard_searchUsers ==
    Load({PeopleSearchApi.searchUsers}, "gated", "cancel", "keep", "settle",
         "default", "each")
OnboardingWizard_PopularCities ==
    Load({OrganizerClaimApi.fetchPopularCities}, "once", "none", "keep", "keep",
         "default", "no")
OnboardingWizard_searchSuggestionAddress ==
    Load({OwnSuggestionApi.searchSuggestionAddress}, "gated", "cancel", "keep",
         "settle", "escape", "each")
PassportPage_PublicProfile ==
    Load({fetchPublicProfile}, "keyed", "cancel", "keep", "keep", "keep", "no")
PassportPage_PassportShare ==
    Load({MessageAndPassportApi.fetchPassportShare}, "once", "cancel", "keep",
         "keep", "keep", "no")
PassportPage_PassportEvents ==
    Load({MessageAndPassportApi.fetchPassportEvents, fetchPublicProfile}, "keyed",
         "cancel", "keep", "keep", "tell", "no")
PassportPage_Event ==
    Load({ProgramEditorApi.fetchEvent}, "keyed", "cancel", "keep", "keep", "tell", "no")
PassportPage_loadMore ==
    Load({MessageAndPassportApi.fetchPassportTimeline}, "keyed", "none", "keep",
         "keep", "tell", "each")
PassportPage_searchTimeline ==
    Load({MessageAndPassportApi.fetchPassportTimeline}, "keyed", "latest", "keep",
         "keep", "tell", "no")
PassportPage_loadMapEvents ==
    Load({MessageAndPassportApi.fetchPassportEvents}, "again", "none", "keep",
         "keep", "tell", "no")
ProfilePage_load ==
    Load({fetchPublicProfile}, "keyed", "none", "keep", "keep", "tell", "each")
ProfilePage_UserHosting ==
    Load({ProfileEventsApi.fetchUserHosting}, "keyed", "cancel", "keep", "keep",
         "tell", "each")
ProfilePage_ProfilePassport ==
    Load({FollowApi.fetchProfilePassport}, "keyed", "cancel", "keep", "keep", "tell",
         "each")
ProfilePage_UserSuggested ==
    Load({PersonalListsApi.fetchUserSuggested}, "keyed", "cancel", "keep", "keep",
         "tell", "each")
ProfilePage_UserCalendar ==
    Load({PersonalListsApi.fetchUserCalendar}, "keyed", "cancel", "keep", "keep",
         "tell", "each")
SearchProfileEditorPage_TagGroups ==
    Load({TrackingApi.fetchTagGroups}, "once", "none", "keep", "keep", "default", "no")
SeriesPage_SeriesRollup ==
    Load({EventReviewApi.fetchSeriesRollup}, "gated", "cancel", "keep", "keep",
         "tell", "each")
SeriesPage_AspectTagGroups ==
    Load({ShareAndPromoCodeApi.fetchAspectTagGroups}, "once", "none", "keep", "keep",
         "default", "no")
SharedCalendarPage_SharedCalendar ==
    Load({fetchSharedCalendar}, "gated", "none", "keep", "keep", "replace", "each")
SharedMyPlanPage_SharedMyPlan ==
    Load({ProgramExchangeApi.fetchSharedMyPlan}, "gated", "cancel", "keep", "keep",
         "replace", "each")
SharedPassportPage_SharedPassport ==
    Load({ShareAndPromoCodeApi.fetchSharedPassport}, "gated", "none", "keep", "keep",
         "replace", "each")
NetworkPanel_list ==
    Load({FollowApi.fetchMyFriends, NetworkApi.fetchMyFollowers,
         NetworkApi.fetchMyFollowing}, "gated", "cancel", "clear", "keep", "tell", "no")
usePendingReviewCount_loadCount ==
    Load({MessageAndPassportApi.fetchMyPendingReviews}, "gated", "cancel", "clear",
         "keep", "default", "no")
useProgramEditorAccess_delegatedAccess ==
    Load({ProgramEditorApi.fetchEventScheduleEditorAccess}, "gated", "cancel",
         "clear", "keep", "default", "no")
EventProgramPage_SelectedAttendance ==
    Load({ProgramEditorApi.fetchSingleSessionAttendanceSummary,
         ProgramEditorApi.fetchOverviewItemAttendanceSummary}, "gated", "cancel",
         "clear", "settle", "default", "each")
SessionSheets_attendees ==
    Load({ProgramEditorApi.fetchSessionAttendees,
         ProgramEditorApi.fetchOverviewItemAttendees}, "keyed", "cancel", "keep",
         "keep", "tell", "no")
SessionSheets_retry ==
    Load({ProgramEditorApi.fetchSessionAttendees,
         ProgramEditorApi.fetchOverviewItemAttendees}, "keyed", "none", "clear",
         "keep", "tell", "no")
ExplorerEventSearch_search ==
    Load({searchEvents, SuggestionReviewApi.fetchEventsByIds}, "gated", "cancel",
         "keep", "settle", "default", "each")
MyEventsList_effect ==
    Load({AssetApi.fetchEventAssetSummaries}, "gated", "cancel", "keep", "keep",
         "default", "no")
PassportView_effect ==
    Load({AssetApi.fetchFriendMemorySummaries}, "gated", "cancel", "clear", "keep",
         "keep", "no")
SimilarEventsRail_fetch ==
    Load({ReviewPromptApi.fetchEventSimilar, SuggestionReviewApi.fetchEventsByIds},
         "keyed", "cancel", "keep", "keep", "keep", "no")
useHomeReviewPrompt_fetch ==
    Load({ReviewPromptApi.fetchReviewHomePrompt}, "gated", "cancel", "keep", "keep",
         "default", "no")
usePeoplePrompt_fetch ==
    Load({PeoplePromptApi.fetchPeoplePrompt}, "gated", "cancel", "keep", "keep",
         "keep", "no")
ForYouPage_effect ==
    Load({SuggestionReviewApi.fetchEventsByIds}, "gated", "cancel", "keep", "settle",
         "keep", "first")
MineHub_effect ==
    Load({SuggestionReviewApi.fetchEventsByIds}, "gated", "cancel", "keep", "clear",
         "default", "no")
MyCalendar_effect ==
    Load({SuggestionReviewApi.fetchEventsByIds}, "gated", "none", "keep", "settle",
         "default", "each")
MyEventsExperience_effect ==
    Load({SuggestionReviewApi.fetchEventsByIds}, "gated", "cancel", "keep", "keep",
         "default", "first")
MyReviewsPage_load ==
    Load({MessageAndPassportApi.fetchMyPendingReviews,
         MessageAndPassportApi.fetchMyRatings, SuggestionReviewApi.fetchEventsByIds},
         "gated", "none", "keep", "clear", "default", "no")
PassportPage_effect ==
    Load({MessageAndPassportApi.fetchPassport,
         MessageAndPassportApi.fetchPassportTimeline}, "gated", "cancel", "keep",
         "keep", "tell", "each")
PassportPage_handlePastEventAdded ==
    Load({MessageAndPassportApi.fetchPassport,
         MessageAndPassportApi.fetchPassportTimeline}, "keyed", "none", "keep",
         "keep", "tell", "no")
TextSearchPage_search ==
    Load({searchEventsPage, SuggestionReviewApi.fetchEventsByIds}, "gated", "cancel",
         "keep", "clear", "default", "each")
TextSearchPage_loadMore ==
    Load({searchEventsPage, SuggestionReviewApi.fetchEventsByIds}, "keyed", "none",
         "keep", "keep", "escape", "each")

\* Every load above.
LoadsOfUsers ==
    {AreaEditor_runSearch, AttendeeList_AttendanceSummary,
     AttendeeList_EventAttendees, BioEditor_load, CityRadiusEditor_PopularCities,
     EventAssetsSection_load, EventMessagesSection_load,
     EventMessagesTeaser_EventMessages, EventModal_Event,
     EventPromoCodes_EventPromoCodes, EventReviewsSection_loadAggregate,
     EventReviewsSection_loadSeries, EventReviewsSection_loadEarlier,
     EventReviewsSection_AspectTagGroups, EventSeriesLink_EventSeriesRollup,
     EventSummary_EventMessages, EventTagEditor_TagGroups,
     FollowRequestsPanel_load, GoingWedge_GoingWedge, InlineTagsPicker_TagGroups,
     InterestFilter_MyFollowing, InterestFilter_MyFollowing166,
     InterestProfilesManager_TagGroups, InterestSection_AttendanceSummary,
     InterestSection_EventAttendees, InterestSection_GoingWedge,
     MyEventsList_AspectTagGroups, MyEventsUtilityMenu_ShareToken,
     MyPlanUtilityMenu_MyPlanShare, MySubscribersBadge_MySubscribers,
     MySubscribersBadge_MySubscribers101, NetworkPanel_loadCounts,
     NetworkPanel_FollowingMostActive, NetworkPanel_searchUsers,
     NotificationsPanel_load, OrganizerClaimSection_load,
     OrganizerClaimSheet_PublicProfile, OrganizerClaimSheet_searchEvents,
     PeopleFilterPanel_load, PeopleYouMayKnowCard_load,
     PeopleYouMayKnowCard_loadMore, PreferencesSection_TagGroups,
     QaTestPlanPanel_AppInfo, QaTestPlanPanel_TestPlan,
     RateEventModal_EventSeriesRollup, RateEventModal_AspectTagGroups,
     ReferralCard_MyReferral, ReviewPanel_AdminCalendars,
     RsvpPeopleSection_EventAttendees, ShareReferralBanner_ShareSource,
     SubscribedEventsPanel_MySubscriptions, SubscribedEventsPanel_load,
     SubscribersPanel_MySubscribers, SubscriptionsPanel_load,
     UserInterestPicker_searchUsers, UserInterestPicker_InterestSummary,
     UserSearchBox_searchUsers, UserSearchBox_Curators, VisibilitySection_load,
     VisibilitySection_load327, AuthPanel_AuthMode, AuthPanel_DevUsers,
     DiscussionTab_load, PeopleTab_EventAttendees, OnboardingFlow_TagGroups,
     OnboardingFlow_OnboardingSuggestions, OnboardingFlow_searchUsers,
     LocationPage_searchSuggestionAddress,
     OwnSuggestionActions_OwnSuggestionForEvent,
     SuggestEventWizard_OwnSuggestion, SuggestEventWizard_Event,
     SuggestEventWizard_TagGroups, PeoplePanel_MyFollowing,
     PeoplePanel_MySuggestions, PeoplePanel_searchUsers,
     FeatureFlagsContext_Settings, MyRatingsContext_MyRatings,
     useActiveProfile_InterestProfiles, useAreaEventPreview_EventsPage,
     useCommunityExperience_RatingAggregate,
     useCommunityExperience_EventSeriesRollup, useEventAssets_load,
     useForYouLens_fetchAt, useInterestProfiles_reload,
     useInterestProfiles_InterestProfiles, usePeopleSuggestions_load,
     Account_checkHandleAvailable, DiscoverPeoplePage_searchUsers,
     DiscoverPeoplePage_reload, DiscoverPeoplePage_loadMore,
     EventDetailPage_Event, EventDetailPage_handleTagsUpdated,
     EventDetailPage_handleAdminEventUpdated, EventProgramPage_MyPlan,
     EventProgramPage_EventScheduleEditorAccess,
     EventProgramPage_SessionAttendanceSummary,
     FollowingReviewsPage_FollowingReviews, ForYouPage_MyPendingReviews,
     Home_MyFollowing, Home_Events, Home_Events1299, Home_handleCloseEdit,
     HostingPage_load, MineHub_Passport, MyCalendar_MySubscriptions,
     MyCalendar_SubscribedEvents, MyCalendar_SubscribedEvents208,
     MyReviewsPage_AspectTagGroups, MyReviewsPage_handleSubmitted,
     MyReviewsPage_handlePendingRatingChanged,
     MyReviewsPage_handleReviewedRatingChanged, MySubmissionsPage_load,
     MySubmissionsPage_OwnEventChanges, Notifications_load,
     Notifications_handleLoadMore, OnboardingWizard_TagGroups,
     OnboardingWizard_OnboardingSuggestions, OnboardingWizard_searchUsers,
     OnboardingWizard_PopularCities, OnboardingWizard_searchSuggestionAddress,
     PassportPage_PublicProfile, PassportPage_PassportShare,
     PassportPage_PassportEvents, PassportPage_Event, PassportPage_loadMore,
     PassportPage_searchTimeline, PassportPage_loadMapEvents, ProfilePage_load,
     ProfilePage_UserHosting, ProfilePage_ProfilePassport,
     ProfilePage_UserSuggested, ProfilePage_UserCalendar,
     SearchProfileEditorPage_TagGroups, SeriesPage_SeriesRollup,
     SeriesPage_AspectTagGroups, SharedCalendarPage_SharedCalendar,
     SharedMyPlanPage_SharedMyPlan, SharedPassportPage_SharedPassport,
     NetworkPanel_list, usePendingReviewCount_loadCount,
     useProgramEditorAccess_delegatedAccess, EventProgramPage_SelectedAttendance,
     SessionSheets_attendees, SessionSheets_retry, ExplorerEventSearch_search,
     MyEventsList_effect, PassportView_effect, SimilarEventsRail_fetch,
     useHomeReviewPrompt_fetch, usePeoplePrompt_fetch, ForYouPage_effect,
     MineHub_effect, MyCalendar_effect, MyEventsExperience_effect,
     MyReviewsPage_load, PassportPage_effect, PassportPage_handlePastEventAdded,
     TextSearchPage_search, TextSearchPage_loadMore}
===============================================================================
