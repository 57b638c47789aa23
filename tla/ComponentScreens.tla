--------------------------- MODULE ComponentScreens ---------------------------
(***************************************************************************)
(* The parts of the components the screens of guests and members are made of. *)
(***************************************************************************)
EXTENDS ScreenParts

\* components/AddressAutocomplete.tsx
AddressAutocomplete == Calls("any", {"searchAddress"})

\* components/AdminAutoTagSuggestions.tsx
AdminAutoTagSuggestions ==
    Calls("any", {"approveTagSuggestion", "bulkReviewTagSuggestions",
            "fetchAdminTagSuggestions", "rejectTagSuggestion", "runTagSuggestionsForEvent"})

\* components/AdminEventDetailContent.tsx
AdminEventDetailContent ==
    UNION {Calls("any", {"fetchAdminCalendars", "retryGeocodingSingle"}),
        Shows("any", {"AddressAutocomplete", "AdminAutoTagSuggestions", "AdminEventPromoCodes",
            "InlineTagsPicker"})}

\* components/AdminEventDetailPanel.tsx
DetailPanelHeader ==
    Calls("any", {"fetchAdminEvent", "fetchAdminEventModeration", "updateAdminEventDraft",
            "updateEvent"})
DetailPanelBody ==
    UNION {Calls("any", {"addEventsToSeries", "dismissDuplicateGroup", "fetchAdminEvent",
            "fetchAdminEventModeration", "fetchSeriesGroups", "keepDuplicateEvent",
            "scanEventDuplicates", "splitSeriesMember", "updateAdminEventDraft", "updateEvent"}),
        Shows("any", {"AdminEventDetailContent", "AdminEventModerationSection",
            "AdminEventNotificationsSection", "AdminEventOrganizerField", "AdminMockSourceEditor",
            "EventImageEditor", "EventMap", "EventMessagesSection", "EventReviewsSection",
            "OverlappingEventsSection"})}
DetailPanelFooter ==
    UNION {Calls("any", {"fetchAdminEvent", "fetchAdminEventModeration", "rejectSuggestion",
            "setAdminEventStatus", "updateEvent"}),
        Links("any", {"/admin/events/:eventId/schedule", "/event/:eventId"})}
DetailPanelSheets ==
    UNION {Calls("any", {"fetchAdminEvent", "fetchAdminEventModeration", "rejectSuggestion",
            "setAdminEventStatus"}),
        Links("any", {"/admin/events/:eventId/schedule", "/event/:eventId"})}
DetailPanelDialogs ==
    UNION {Calls("any", {"fetchAdminEvent", "fetchAdminEventModeration",
            "fetchEventDuplicateCandidates", "flagEventsAsDuplicates"}),
        Shows("any", {"AdminEventOverviewModal", "MergeEventsDialog"})}
AdminEventDetailPanel ==
    UNION {Calls("any", {"fetchAdminEvents", "fetchEventSeriesCandidates",
            "fetchOptionalAdminEventSchedule"}),
        DetailPanelHeader,
        DetailPanelBody,
        DetailPanelFooter,
        DetailPanelSheets,
        DetailPanelDialogs}

\* components/AdminEventModerationSection.tsx
SubmissionCardActions ==
    UNION {Calls("any", {"approveSuggestion", "rejectSuggestion", "updateEvent", "updateSuggestion"}),
        Shows("any", {"SubmissionDetails"}),
        Links("any", {"/u/:handle"})}
DraftBar ==
    Calls("any", {"discardAdminEventDraft", "publishAdminEventDraft"})
OpenRevisionCards ==
    Calls("any", {"applyEventRevision", "discardEventRevision"})
RevisionHistory ==
    Calls("any", {"revertEventRevision"})
AdminEventModerationSection ==
    UNION {Calls("any", {"fetchAdminCalendars"}),
        SubmissionCardActions,
        DraftBar,
        OpenRevisionCards,
        RevisionHistory}

\* components/AdminEventNotificationsSection.tsx
AdminEventNotificationsSection == Calls("any", {"fetchAdminEventNotificationStats"})

\* components/AdminEventOrganizerField.tsx
AdminEventOrganizerField == Calls("any", {"adminSetEventOrganizer", "fetchAdminUsers"})

\* components/AdminEventOverviewModal.tsx
AdminEventOverviewModal == Calls("any", {"fetchAdminEvent"})

\* components/AdminEventPromoCodes.tsx
AdminEventPromoCodes ==
    Calls("any", {"approveAdminPromoCode", "createAdminPromoCode", "fetchAdminPromoCodes",
            "rejectAdminPromoCode", "updateAdminPromoCode"})

\* components/AdminMockSourceEditor.tsx
AdminMockSourceEditor ==
    Calls("any", {"deleteMockSourceEvent", "editMockSourceEvent", "fetchMockSourceEvent"})

\* components/AppPrompts.tsx
AppPrompts == Shows("member", {"HomePeoplePrompt", "HomeReviewPrompt"})

\* components/AreaEditor.tsx
AreaEditor == Calls("any", {"searchSuggestionAddress"})

\* components/AttendeeAvatarStack.tsx
AttendeeAvatarStack ==
    UNION {Links("any", {"/event/:eventId"}),
        Signs("any", {"here"})}

\* components/AttendeeFollowPill.tsx
AttendeeFollowPill == Calls("any", {"followUser"})

\* components/AudiencePicker.tsx
AudiencePicker == Links("any", {"/tribe/network"})

\* components/AvatarEditor.tsx
AvatarEditor == Calls("any", {"deleteUserAvatar", "uploadUserAvatar"})

\* components/BioEditor.tsx
BioEditor == Calls("any", {"fetchPublicProfile", "updateMyBio"})

\* components/BottomNav.tsx
BottomNav == Links("any", {"/", "/browse", "/my-events", "/passport", "/tribe"})

\* components/Calendar.tsx
Calendar == Calls("any", {"trackEventView"})

\* components/CalendarDaySheet.tsx
CalendarDaySheet == Calls("any", {"trackEventView"})

\* components/CalendarMapWorkspace.tsx
CalendarMapWorkspace == Shows("any", {"Calendar", "CalendarDaySheet"})

\* components/CancelEventSheet.tsx
CancelEventSheet == Calls("any", {"proposeEventChange"})

\* components/CardActionCluster.tsx
CardActionCluster == Shows("any", {"GoingButton", "SaveEventButton"})

\* components/CardReviewsLine.tsx
CardReviewsLine == Links("any", {"/event/:eventId"})

\* components/CityRadiusEditor.tsx
CityRadiusEditor == Calls("any", {"fetchPopularCities", "searchSuggestionAddress"})

\* components/DesktopNav.tsx
DesktopNav == Links("any", {"/", "/browse", "/my-events", "/passport", "/tribe"})

\* components/EventActionDock.tsx
EventActionDock ==
    UNION {Calls("any", {"fetchEventScheduleEditorAccess"}),
        Shows("any", {"GoingButton", "RateEventButton", "SaveEventButton", "ShareButton"}),
        Opens("member", {"EventPromoCodeDialog", "OrganizerClaimSheet", "TicketSheet"}),
        Links("any", {"/event/:eventId/program/edit"})}

\* components/EventAnchoredDetailPanel.tsx
EventAnchoredDetailPanel == Shows("any", {"EventDetailsPanel"})

\* components/EventCard.tsx
EventCard == Shows("any", {"AttendeeAvatarStack", "CardActionCluster", "CardReviewsLine"})

\* components/EventDetailsPanel.tsx
EventDetailsPanel ==
    UNION {Shows("any", {"EventActions", "EventSummary", "OrganizerStrip", "ProgramAction",
            "TicketAction"}),
        Links("any", {"/event/:eventId"})}

\* components/EventImageEditor.tsx
EventImageEditor == Calls("any", {"deleteEventImage", "setEventImageFromUrl", "uploadEventImage"})

\* components/EventListPanel.tsx
EventListCard ==
    Shows("any", {"AttendeeAvatarStack", "CardActionCluster", "CardReviewsLine", "EventCard",
            "ProgramAction"})
EventListPanel == Shows("any", {"EventListCard"})

\* components/EventMap.tsx
EventPopupContent ==
    UNION {Shows("any", {"EventCard"}),
        Links("any", {"/event/:eventId"})}
MarkerClusterLayer ==
    UNION {Shows("any", {"EventPopupContent"}),
        Links("any", {"/event/:eventId"})}
EventMap == Shows("any", {"MarkerClusterLayer"})

\* components/EventMemoriesTab.tsx
EventMemoriesTab ==
    UNION {Calls("member", {"addEventTicketLink", "deleteEventAsset", "fetchEventAssets",
            "setTicketNotNeeded", "updateEventAsset", "uploadEventAsset"}),
        Shows("member", {"TrailRow"})}
TrailRow == Links("any", {"/u/:handle"})

\* components/EventMessagesModal.tsx
EventMessagesModal ==
    Calls("any", {"deleteEventMessage", "fetchEventMessages", "muteEventMessages",
            "postEventMessage", "reportEventMessage"})

\* components/EventMessagesSection.tsx
EventMessagesSection ==
    UNION {Calls("any", {"fetchEventMessages", "muteEventMessages"}),
        Shows("any", {"EventMessagesModal"})}

\* components/EventModal.tsx
EventIdModal ==
    UNION {Calls("any", {"fetchEvent"}),
        Shows("any", {"EventModal"}),
        Links("any", {"/event/:eventId"})}
EventModal == Shows("any", {"EventDetailsPanel"})

\* components/EventPromoCodeDialog.tsx
EventPromoCodeDialog == Calls("any", {"submitEventPromoCode", "updateEventPromoCode"})

\* components/EventPromoCodes.tsx
EventPromoCodes ==
    UNION {Calls("any", {"fetchEventPromoCodes"}),
        Calls("member", {"deleteEventPromoCode"}),
        Opens("member", {"EventPromoCodeDialog"})}

\* components/EventReviewCard.tsx
EventReviewCard == Shows("any", {"EventCard", "RateEventButton"})

\* components/EventReviewsSection.tsx
ReviewDetailModal == Links("any", {"/event/:eventId"})
EventReviewsSection ==
    UNION {Calls("any", {"fetchAspectTagGroups"}),
        Calls("member", {"fetchEventReviews", "fetchEventSeriesRollup", "fetchRatingAggregate",
            "fetchSeriesReviews"}),
        Shows("any", {"TypicalExperienceCard"}),
        Shows("member", {"ReviewDetailModal"}),
        Links("member", {"/event/:eventId"})}

\* components/EventSeriesLink.tsx
EventSeriesLink ==
    UNION {Calls("member", {"fetchEventSeriesRollup"}),
        Links("any", {"/series/:seriesId"})}

\* components/EventSummary.tsx
EventSummary ==
    UNION {Calls("any", {"fetchEventMessages"}),
        Calls("member", {"fetchEventSeriesRollup", "fetchRatingAggregate"}),
        Shows("any", {"EventActions", "LinksRow", "PastEventBanner", "PeopleProofRow",
            "SummaryHeader", "SummaryMiniMap"}),
        Links("any", {"/series/:seriesId"})}

\* components/ExploreSearchEntry.tsx
ExploreSearchEntry == Links("any", {"/browse", "/search"})

\* components/ExplorerEventSearch.tsx
ExplorerEventSearch ==
    UNION {Calls("any", {"fetchEventsByIds", "searchEvents"}),
        Shows("any", {"SearchEventCard"}),
        Links("any", {"/calendar"})}

\* components/FollowRequestsPanel.tsx
FollowRequestsPanel ==
    UNION {Calls("any", {"approveFollowRequest", "declineFollowRequest", "fetchFollowRequests"}),
        Links("any", {"/u/:handle"})}

\* components/GoingButton.tsx
GoingButton ==
    UNION {Calls("any", {"trackShare"}),
        Shows("any", {"PostRsvpPopover", "PostRsvpSocial", "RsvpVisibilitySheet"}),
        Links("any", {"/event/:eventId"})}

\* components/HeaderUserMenu.tsx
HeaderUserMenu ==
    UNION {Calls("member", {"fetchMyPendingReviews"}),
        Shows("any", {"MenuDrawer"})}

\* components/HomePeoplePrompt.tsx
HomePeoplePrompt ==
    UNION {Calls("any", {"dismissSuggestion", "fetchMySuggestions", "fetchPeoplePrompt", "followUser",
            "postPeoplePromptImpression"}),
        Shows("any", {"PeopleSuggestionsTrail"})}

\* components/HomeReviewPrompt.tsx
HomeReviewPrompt ==
    UNION {Calls("any", {"fetchReviewHomePrompt", "postReviewHomePromptImpression"}),
        Shows("any", {"RateEventModal"})}

\* components/InlineTagsPicker.tsx
InlineTagsPicker == Calls("any", {"fetchTagGroups", "updateEventTags"})

\* components/InstallPrompt.tsx
InstallPrompt ==
    UNION {Calls("any", {"fetchVapidPublicKey", "subscribePush", "unsubscribePush"}),
        Calls("member", {"reportAppInstalled", "updateNotificationPreferences"})}

\* components/InterestFilter.tsx
FollowingPersonRail == Calls("any", {"fetchInterestSummary", "fetchMyFollowing"})
FollowingPersonSearch == Calls("any", {"fetchInterestSummary", "fetchMyFollowing"})
InterestFilterChips ==
    UNION {Shows("member", {"FollowingPersonRail", "FollowingPersonSearch"}),
        Links("any", {"/tribe/calendars"}),
        Links("member", {"/tribe/discover"}),
        Signs("any", {"/tribe/calendars"})}

\* components/InterestProfilesManager.tsx
InterestProfilesManager ==
    UNION {Calls("any", {"createInterestProfile", "fetchTagGroups"}),
        Calls("member", {"deleteInterestProfile", "fetchInterestProfiles", "updateInterestProfile"}),
        Shows("any", {"ProfileDraftEditor"})}

\* components/LegalDocument.tsx
LegalDocument == Links("any", {"/", "/legal", "/privacy", "/terms"})

\* components/MemoriesStrip.tsx
MemoriesStrip == Links("any", {"/event/:eventId"})

\* components/MenuDrawer.tsx
MenuDrawer ==
    UNION {Calls("member", {"fetchMyPendingReviews"}),
        Links("any", {"/", "/account", "/install", "/legal", "/privacy", "/suggest", "/terms"}),
        Links("member", {"/hosting", "/invite", "/me/submissions", "/notifications", "/reviews",
            "/saved-searches", "/tribe/network", "/u/:handle"}),
        Links("admin", {"/admin"}),
        Signs("any", {"here"})}

\* components/MergeEventsDialog.tsx
MergeEventsDialog == Calls("any", {"fetchMergePreview", "mergeEvents"})

\* components/MyEventsAddSearch.tsx
MyEventsAddSearch == Shows("any", {"ExplorerEventSearch"})

\* components/MyEventsList.tsx
MyEventRow ==
    Shows("any", {"EventCard", "EventReviewCard", "MemoriesStrip", "ProgramAction",
            "TicketAction"})
MyEventsList ==
    UNION {Calls("any", {"fetchAspectTagGroups", "fetchAudienceTagGroups"}),
        Calls("member", {"fetchEventAssetSummaries"}),
        Shows("any", {"MyEventRow"})}

\* components/MyEventsMapPreview.tsx
MyEventsMapPreview == Shows("any", {"EventCard", "ProgramAction"})

\* components/MyEventsUtilityMenu.tsx
MyEventsUtilityMenu ==
    UNION {Calls("any", {"exportIcs", "exportXlsx"}),
        Calls("member", {"createShareToken", "getShareToken"})}

\* components/MyPlanUtilityMenu.tsx
MyPlanUtilityMenu ==
    Calls("any", {"createMyPlanShare", "downloadMyPlanIcs", "fetchMyPlanShare",
            "revokeMyPlanShare"})

\* components/MySubscribersBadge.tsx
MySubscribersBadge ==
    UNION {Calls("any", {"fetchMySubscribers"}),
        Shows("any", {"SubscribersModal"})}
SubscribersModal ==
    UNION {Calls("any", {"fetchMySubscribers", "removeMySubscriber"}),
        Links("any", {"/u/:handle"})}

\* components/NetworkPanel.tsx
NetworkPanel ==
    UNION {Calls("any", {"dismissSuggestion", "fetchFollowRequests", "fetchFollowingMostActive",
            "fetchMyFollowers", "fetchMyFollowing", "fetchMyFriends", "fetchMySuggestions",
            "followUser", "removeMyFollower", "searchUsers", "unfollowUser"}),
        Shows("any", {"FollowRequestsPanel", "FollowingView", "PeopleSearchResults",
            "PeopleSuggestionsTrail", "PersonList"}),
        Links("any", {"/invite"})}
FollowingView == Shows("any", {"MostActiveView", "PersonRow"})
MostActiveView == Links("any", {"/u/:handle"})
PersonList == Shows("any", {"PersonRow"})
PersonRow == Links("any", {"/u/:handle"})

\* components/NextUpEventCard.tsx
NextUpEventCard == Shows("any", {"ProgramAction", "TicketActionButton"})

\* components/NotificationBell.tsx
NotificationBell == Shows("member", {"NotificationsPanel"})

\* components/NotificationRow.tsx
NotificationRow ==
    UNION {Calls("any", {"approveFollowRequest", "declineFollowRequest", "followUser"}),
        Links("any", {"/account", "/browse", "/event/:eventId", "/event/:eventId/ask",
            "/event/:eventId/memories", "/event/:eventId/program", "/event/:eventId/program/plan",
            "/event/:eventId/review", "/event/:eventId/ticket", "/hosting", "/me/submissions",
            "/notifications", "/passport", "/saved-searches", "/tribe/network", "/u/:handle"})}

\* components/NotificationSettings.tsx
NotificationSettings == Calls("any", {"updateNotificationPreferences"})

\* components/NotificationsPanel.tsx
NotificationsPanel ==
    UNION {Calls("any", {"fetchNotifications"}),
        Shows("any", {"NotificationRow"}),
        Links("any", {"/account", "/browse", "/event/:eventId", "/event/:eventId/ask",
            "/event/:eventId/memories", "/event/:eventId/program", "/event/:eventId/program/plan",
            "/event/:eventId/review", "/event/:eventId/ticket", "/hosting", "/me/submissions",
            "/notifications", "/passport", "/saved-searches", "/tribe/network", "/u/:handle"})}

\* components/OrganizerClaimSection.tsx
OrganizerClaimSection ==
    UNION {Calls("any", {"cancelOrganizerClaim", "fetchMyOrganizerClaims", "fetchPublicProfile",
            "removeEventFromClaim"}),
        Shows("any", {"OrganizerClaimSheet"}),
        Links("any", {"/hosting"})}

\* components/OrganizerClaimSheet.tsx
OrganizerClaimSheet ==
    UNION {Calls("any", {"claimEvents", "fetchMyOrganizerClaims", "fetchPublicProfile",
            "submitOrganizerClaim"}),
        Shows("any", {"EventPicker", "ProfileChecklist"}),
        Links("any", {"/account"})}
ProfileChecklist ==
    UNION {Calls("any", {"updateMyBio", "updateMySocialLinks"}),
        Links("any", {"/account"})}
EventPicker == Calls("any", {"searchEvents"})

\* components/OrganizerStrip.tsx
OrganizerStrip ==
    UNION {Calls("any", {"fetchEventScheduleEditorAccess"}),
        Links("any", {"/event/:eventId/program/edit", "/event/:eventId/suggest-change"})}

\* components/OverlappingEventsSection.tsx
OverlappingEventsSection == Calls("any", {"fetchOverlappingEvents"})

\* components/PassportFollowCta.tsx
PassportFollowCta == Calls("member", {"followUser"})

\* components/PassportView.tsx
TimelineEventMemories ==
    UNION {Shows("any", {"MemoriesStrip"}),
        Links("any", {"/event/:eventId"})}
JourneyEntryRow ==
    UNION {Shows("any", {"MemoriesStrip", "TimelineEventMemories"}),
        Links("any", {"/event/:eventId"})}
PassportFullscreenMap == Shows("any", {"EventMap", "MyEventsMapPreview"})
FilterableEventMap == Shows("any", {"EventMap", "PassportFullscreenMap"})
PlacesPanel == Shows("any", {"FilterableEventMap"})
PassportView ==
    UNION {Calls("member", {"fetchFriendMemorySummaries"}),
        Shows("any", {"EventIdModal", "EventModal", "JourneyEntryRow", "PlacesPanel"})}

\* components/PeopleFilterPanel.tsx
TribeRow == Calls("any", {"fetchMyFollowing"})
InviteOverlay == Shows("any", {"ReferralCard"})
PeopleFilterPanel == Shows("member", {"InviteOverlay", "PeoplePanel", "TribeRow"})

\* components/PeopleSearchResults.tsx
PeopleSearchResults == Links("any", {"/u/:handle"})

\* components/PeopleSuggestionsTrail.tsx
PeopleSuggestionsTrail == Links("any", {"/people/discover", "/u/:handle"})

\* components/PostRsvpPopover.tsx
BringSomeoneAlong ==
    UNION {Calls("any", {"trackLinkClick", "trackShare"}),
        Calls("member", {"fetchMyReferral"}),
        Links("any", {"/event/:eventId"})}
PostRsvpSocial == Shows("any", {"BringSomeoneAlong", "RsvpPeopleSection"})
PostRsvpPopover ==
    UNION {Shows("any", {"PostRsvpSocial", "RsvpVisibilitySheet"}),
        Links("any", {"/event/:eventId", "/my-events"})}

\* components/ProfileDraftEditor.tsx
ProfileDraftEditor == Shows("any", {"AreaEditor"})

\* components/ProgramAction.tsx
ProgramAction == Links("any", {"/event/:eventId/program", "/event/:eventId/program/plan"})

\* components/PushNotificationSettings.tsx
PushNotificationSettings ==
    UNION {Calls("any", {"fetchVapidPublicKey", "subscribePush", "unsubscribePush"}),
        Calls("member", {"updateNotificationPreferences"})}

\* components/QaTestPlanPanel.tsx
QaTestPlanProvider ==
    UNION {Calls("any", {"fetchAppInfo"}),
        Shows("any", {"QaTestPlanPanelInner"})}
QaTestPlanPanelInner == Calls("any", {"fetchTestPlan"})

\* components/RailEventCard.tsx
RailEventCard == Shows("any", {"AttendeeAvatarStack", "GoingButton", "SaveEventButton"})

\* components/RateEventButton.tsx
RateEventButton ==
    UNION {Shows("member", {"RateEventModal"}),
        Links("any", {"/event/:eventId", "/event/:eventId/review"})}

\* components/RateEventModal.tsx
RateEventModal ==
    UNION {Calls("any", {"deleteMyRating", "fetchAspectTagGroups", "fetchAudienceTagGroups",
            "fetchEvent", "fetchEventSeriesRollup", "fetchMyPendingReviews", "submitFeedback"}),
        Shows("any", {"ReviewSuccessSheet"}),
        Links("any", {"/event/:eventId/review"})}

\* components/ReferralCard.tsx
ReferralCard ==
    UNION {Calls("any", {"fetchMyReferral"}),
        Links("any", {"/invite"})}

\* components/ReviewSuccessSheet.tsx
ReviewSuccessSheet ==
    UNION {Shows("any", {"SimilarEventsRail"}),
        Links("any", {"/browse", "/event/:eventId"})}

\* components/RsvpPeopleSection.tsx
RsvpPeopleSection ==
    UNION {Calls("member", {"fetchEventAttendees"}),
        Shows("member", {"AttendeeFollowPill"}),
        Links("member", {"/event/:eventId", "/u/:handle"})}

\* components/RsvpVisibilitySheet.tsx
RsvpVisibilitySheet ==
    UNION {Calls("member", {"updateMyVisibility"}),
        Shows("any", {"AudiencePicker"})}

\* components/SaveEventButton.tsx
SaveEventButton == Shows("any", {"RsvpVisibilitySheet"})

\* components/SearchEventCard.tsx
SearchEventCard == Shows("any", {"EventCard"})

\* components/SearchProfileFlow.tsx
SearchProfileFlow == Shows("any", {"ProfileDraftEditor"})

\* components/SectionTabs.tsx
SectionTabs ==
    Links("any", {"/tribe/activity", "/tribe/calendars", "/tribe/network", "/tribe/reviews"})
SectionLayout ==
    UNION {Shows("any", {"SectionTabs"}),
        Links("any", {"/mine"}),
        Signs("any", {"here"})}

\* components/ShareButton.tsx
ShareButton == Calls("any", {"trackLinkClick", "trackShare"})

\* components/ShareExperienceCard.tsx
ShareExperienceCard == Shows("any", {"RateEventModal"})

\* components/ShareReferralBanner.tsx
ShareReferralBanner ==
    UNION {Calls("any", {"fetchShareSource"}),
        Calls("member", {"redeemReferral", "redeemShareFollow"}),
        Links("any", {"/event/:eventId"})}

\* components/SignUpBanner.tsx
SignUpBanner == Signs("any", {"here"})

\* components/SimilarEventsRail.tsx
SimilarEventsRail ==
    UNION {Calls("any", {"fetchEventSimilar", "fetchEventsByIds"}),
        Shows("any", {"RailEventCard"}),
        Links("any", {"/browse", "/event/:eventId"})}

\* components/SubmissionDetails.tsx
SubmissionDetails ==
    Calls("any", {"fetchAdminSuggestion", "fetchSuggestionAudit", "fetchSuggestionOccurrences",
            "syncSuggestionToGoogle"})

\* components/TicketAction.tsx
TicketActionButton ==
    UNION {Calls("any", {"setTicketNotNeeded"}),
        Shows("any", {"TicketSheet"})}
TicketAction == Shows("member", {"TicketActionButton"})

\* components/TicketSheet.tsx
TicketSheet ==
    Calls("any", {"addEventTicketLink", "deleteEventAsset", "fetchEventAssets",
            "setTicketNotNeeded", "updateEventAsset", "uploadEventAsset"})

\* components/TrendingEventsBanner.tsx
TrendingEventsBanner == Shows("any", {"EventCard"})

\* components/TribeGoingCard.tsx
Avatar == Links("any", {"/u/:handle"})
TribeGoingCard ==
    UNION {Shows("any", {"Avatar", "GoingButton", "SaveEventButton"}),
        Links("any", {"/event/:eventId"})}

\* components/TypicalExperienceCard.tsx
TypicalExperienceCard == Links("any", {"/series/:seriesId"})

\* components/UserSearchBox.tsx
UserSearchBox ==
    UNION {Calls("any", {"fetchCurators", "searchUsers"}),
        Shows("any", {"UserRow"}),
        Links("any", {"/invite", "/people/discover", "/u/:handle"})}
UserRow == Links("any", {"/u/:handle"})

\* components/VisibilitySection.tsx
VisibilitySection ==
    UNION {Calls("any", {"fetchPublicProfile", "updateMyVisibility"}),
        Shows("any", {"MySubscribersBadge", "ShareAttendanceDefaultPicker"}),
        Links("any", {"/u/:handle"})}
ProfileLinksEditor ==
    UNION {Calls("any", {"fetchPublicProfile"}),
        Shows("any", {"SocialHandleRow"})}
SocialHandleRow == Calls("any", {"updateMySocialLinks"})
ShareAttendanceDefaultPicker ==
    UNION {Calls("any", {"updateMyVisibility"}),
        Shows("any", {"AudiencePicker"})}

\* components/YourNextEventsRail.tsx
YourNextEventsRail ==
    UNION {Shows("any", {"NextUpEventCard"}),
        Links("any", {"/browse", "/event/:eventId", "/my-events"})}

\* components/auth/AuthPanel.tsx
AuthPanel ==
    UNION {Calls("any", {"fetchAuthMode", "fetchDevUsers", "requestEmailCode"}),
        Links("any", {"/privacy", "/terms"})}

\* components/auth/AuthSheet.tsx
AuthSheet == Shows("any", {"AuthPanel"})

\* components/discussion/DiscussionThread.tsx
DiscussionThread ==
    UNION {Calls("any", {"reportEventMessage"}),
        Calls("member", {"deleteEventMessage", "postEventMessage"})}

\* components/discussion/NewDiscussionSheet.tsx
NewDiscussionSheet == Calls("any", {"postEventMessage"})

\* components/event-summary/EventActions.tsx
EventActions ==
    UNION {Calls("any", {"fetchEventScheduleEditorAccess"}),
        Shows("any", {"GoingButton", "RateEventButton", "SaveEventButton", "ShareButton"}),
        Opens("member", {"EventPromoCodeDialog", "OrganizerClaimSheet", "TicketSheet"}),
        Links("any", {"/event/:eventId/program/edit", "/event/:eventId/suggest-change"})}

\* components/event-summary/LinksRow.tsx
LinksRow == Calls("any", {"trackLinkClick"})

\* components/event-summary/PastEventBanner.tsx
PastEventBanner ==
    UNION {Calls("member", {"fetchEventSeriesRollup", "fetchRatingAggregate"}),
        Links("any", {"/event/:eventId"})}

\* components/event-summary/PeopleProofRow.tsx
PeopleProofRow == Shows("any", {"AttendeeAvatarStack"})

\* components/event-summary/SummaryHeader.tsx
SummaryHeader == Links("any", {"/u/:handle"})

\* components/event-summary/SummaryMiniMap.tsx
SummaryMiniMap == Shows("any", {"EventMap"})

\* components/event-tabs/AboutTab.tsx
AboutTab == Shows("any", {"EventSeriesLink", "LinksRow"})

\* components/event-tabs/DiscussionTab.tsx
DiscussionTab ==
    UNION {Calls("any", {"fetchEventMessages"}),
        Shows("any", {"DiscussionThread", "NewDiscussionSheet"})}

\* components/event-tabs/LocationTab.tsx
LocationTab == Shows("any", {"EventMap"})

\* components/event-tabs/PeopleTab.tsx
PersonCard ==
    UNION {Shows("any", {"AttendeeFollowPill"}),
        Links("any", {"/u/:handle"})}
Section == Shows("any", {"PersonCard"})
PeopleTab ==
    UNION {Calls("any", {"fetchEventAttendees"}),
        Shows("member", {"Section"})}

\* components/event-tabs/ReviewsTab.tsx
ReviewsTab ==
    UNION {Shows("any", {"EventReviewsSection"}),
        Shows("member", {"RateEventButton"})}

\* components/onboarding/OnboardingFlow.tsx
OnboardingFlow == Shows("any", {"OnboardingFlowContent"})
OnboardingFlowContent ==
    UNION {Calls("any", {"completeOnboarding", "createInterestProfile", "deleteInterestProfile",
            "fetchInterestProfiles", "fetchOnboardingSuggestions", "fetchTagGroups", "followUser",
            "searchUsers", "unfollowUser", "updateInterestProfile"}),
        Calls("member", {"updateUserProfile"}),
        Shows("any", {"HomeEditor", "ProfileStep"}),
        Links("any", {"/"})}
HomeEditor == Shows("any", {"CityRadiusEditor"})
ProfileStep == Shows("member", {"AvatarEditor"})

\* components/program/ProgramExportPanel.tsx
ProgramExportPanel == Calls("any", {"downloadPublishedProgramExport"})

\* components/program/SessionSheets.tsx
SessionDetailsSheet == Opens("member", {"PlanAttendeesSheet"})
OverviewItemSheet == Opens("member", {"PlanAttendeesSheet"})
PlanAttendeesSheet ==
    UNION {Calls("any", {"fetchOverviewItemAttendees", "fetchSessionAttendees"}),
        Links("any", {"/u/:handle"})}
PlanAttendanceFeedbackSheet == Shows("any", {"AudiencePicker"})

\* components/suggest/ImagePage.tsx
ImagePage == Calls("any", {"importSuggestionImageFromUrl", "uploadSuggestionImage"})

\* components/suggest/LocationPage.tsx
LocationPage == Calls("any", {"searchSuggestionAddress"})

\* components/suggest/OwnSuggestionActions.tsx
OwnSuggestionActions ==
    UNION {Calls("any", {"deleteOwnSuggestion", "fetchOwnSuggestionForEvent",
            "requestOwnSuggestionPublic", "withdrawOwnSuggestion", "withdrawOwnSuggestionChanges"}),
        Links("any", {"/me/submissions", "/suggest/:suggestionId/edit"})}

\* components/suggest/Step1Event.tsx
Step1Event == Shows("any", {"LocationPage"})

\* components/suggest/Step2Details.tsx
Step2Details == Shows("any", {"ImagePage"})

\* components/suggest/SuggestEventWizard.tsx
SuggestEventWizard ==
    UNION {Calls("any", {"fetchEvent", "fetchOwnSuggestion", "fetchSettings", "fetchSimilarEvents",
            "fetchTagGroups"}),
        Calls("unlessGuest", {"proposeEventChange", "submitEventPromoCode", "submitSuggestion",
            "updateOwnSuggestion"}),
        Shows("unlessGuest", {"EventModal", "Step1Event", "Step2Details"}),
        Opens("member", {"CancelEventSheet"}),
        Signs("any", {"/event/:eventId/suggest-change", "/suggest"})}

\* components/tribe/PeoplePanel.tsx
PeoplePanel == Calls("any", {"fetchMyFollowing", "fetchMySuggestions", "followUser", "searchUsers"})
===============================================================================
