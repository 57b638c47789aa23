------------------------------- MODULE ApiCalls -------------------------------
(***************************************************************************)
(* The functions of src/frontend/src/api.ts, section by section of that    *)
(* file.  ApiClient explains what the policy of a function says.           *)
(***************************************************************************)
EXTENDS ApiClient

fetchEvents == Json("GET", {})
fetchEventsPage == Json("GET", {})
ProgramEditorApi ==
    [fetchEvent |-> Body("GET", {}), fetchEventSchedule |-> Json("GET", {}),
     fetchSessionAttendanceSummary |-> Json("GET", {}),
     fetchSingleSessionAttendanceSummary |-> Json("GET", {}),
     fetchOverviewItemAttendanceSummary |-> Json("GET", {}),
     fetchOverviewItemAttendees |-> Json("GET", {}),
     fetchSessionAttendees |-> Json("GET", {}),
     fetchEventScheduleEditorAccess |-> Json("GET", {}),
     fetchAdminEventSchedule |-> Json("GET", {}),
     fetchOptionalAdminEventSchedule |-> Json("GET", {"missing"}),
     createAdminEventSchedule |-> Json("POST", {}),
     updateAdminEventSchedule |-> Json("PATCH", {}),
     createScheduleVenue |-> Json("POST", {}),
     updateScheduleVenue |-> Json("PUT", {}),
     deleteScheduleVenue |-> Json("DELETE", {}),
     createScheduleRoom |-> Json("POST", {}),
     updateScheduleRoom |-> Json("PUT", {}),
     deleteScheduleRoom |-> Json("DELETE", {}),
     createScheduleLevel |-> Json("POST", {}),
     updateScheduleLevel |-> Json("PUT", {}),
     deleteScheduleLevel |-> Json("DELETE", {}),
     createScheduleActivityType |-> Json("POST", {}),
     updateScheduleActivityType |-> Json("PUT", {}),
     deleteScheduleActivityType |-> Json("DELETE", {}),
     createScheduleContributor |-> Json("POST", {})]
ProgramItemApi ==
    [updateScheduleContributor |-> Json("PUT", {}),
     deleteScheduleContributor |-> Json("DELETE", {}),
     createScheduleSession |-> Json("POST", {}),
     updateScheduleSession |-> Json("PATCH", {}),
     deleteScheduleSession |-> Json("DELETE", {}),
     duplicateScheduleSession |-> Json("POST", {}),
     createScheduleOverviewItem |-> Json("POST", {}),
     updateScheduleOverviewItem |-> Json("PUT", {}),
     deleteScheduleOverviewItem |-> Json("DELETE", {})]
publishEventSchedule == Json("POST", {})
fetchSchedulePublishPreview == Json("GET", {})
ProgramPublishApi ==
    [fetchProgramNotifyCandidates |-> Json("GET", {}),
     notifyProgram |-> Json("POST", {}),
     unpublishEventSchedule |-> Json("POST", {}),
     deleteEventSchedule |-> Json("DELETE", {}),
     republishEventSchedule |-> Json("POST", {})]
fetchSchedulePlanners == Json("GET", {})
ProgramEditorsApi ==
    [fetchScheduleEditors |-> Json("GET", {}),
     addScheduleEditor |-> Json("POST", {}),
     removeScheduleEditor |-> Json("DELETE", {}),
     exportEventSchedule |-> Json("GET", {})]
ProgramExchangeApi ==
    [fetchPublishedProgramExport |-> Json("GET", {}),
     downloadPublishedProgramExport |-> File("GET", {}),
     downloadMyPlanIcs |-> File("GET", {}),
     fetchMyPlanShare |-> Json("GET", {}),
     createMyPlanShare |-> Json("POST", {}),
     revokeMyPlanShare |-> Json("DELETE", {}),
     fetchSharedMyPlan |-> Json("GET", {}),
     fetchScheduleImportSchema |-> Json("GET", {}),
     previewScheduleImport |-> Json("POST", {}),
     applyScheduleImport |-> Json("POST", {}),
     revertScheduleChange |-> Json("POST", {})]
MyPlanApi ==
    [fetchMyPlan |-> Json("GET", {}), fetchMyPlanCounts |-> Json("POST", {}),
     updateMyPlanAudience |-> Json("PUT", {}),
     addToMyPlan |-> Json("PUT", {}), removeFromMyPlan |-> Json("DELETE", {}),
     addOverviewItemToMyPlan |-> Json("PUT", {}),
     removeOverviewItemFromMyPlan |-> Json("DELETE", {})]
SettingsApi ==
    [fetchSettings |-> Json("GET", {}), updateSettings |-> Body("PUT", {})]
NotificationConfigApi ==
    [fetchNotificationsEffectiveConfig |-> Json("GET", {}),
     fetchWebPushSubscriberCount |-> Json("GET", {})]
forceSendInterestMatches == Json("POST", {})
previewInterestMatches == Json("POST", {})
sendDigestNow == Json("POST", {})
sendReviewPromptNow == Json("POST", {})
fetchReviewPromptCandidates == Json("GET", {})
ReviewPromptApi ==
    [fetchReviewPromptStats |-> Json("GET", {}),
     fetchReviewHomePrompt |-> Json("GET", {}),
     postReviewHomePromptImpression |-> Sent("POST", {}),
     fetchEventSimilar |-> Json("GET", {})]
fetchAssetPromptCandidates == Json("GET", {})
sendAssetPromptNow == Json("POST", {})
fetchNotificationToggleCounts == Json("GET", {})
CalendarApi ==
    [fetchAdminNotificationActivity |-> Json("GET", {}),
     trackEventView |-> Sent("POST", Refusals),
     fetchAdminCalendars |-> Body("GET", {}),
     fetchCalendars |-> Body("GET", {}), updateCalendar |-> Body("POST", {}),
     discoverCalendars |-> Body("POST", {}), addCalendar |-> Body("POST", {})]
fetchAuthMode == Body("GET", Refusals)
loginWithGoogle == Body("POST", {})
EmailCodeApi ==
    [requestEmailCode |-> Body("POST", {}),
     verifyEmailCode |-> Body("POST", {})]
SessionApi ==
    [fetchDevUsers |-> Body("GET", Refusals), fetchMe |-> Body("GET", {}),
     logout |-> Sent("POST", Refusals),
     deleteMyAccount |-> Sent("DELETE", {}),
     fetchMySavedEventIds |-> Body("GET", Refusals),
     fetchMySavedEvents |-> Body("GET", Refusals),
     fetchMyAttendingEventIds |-> Body("GET", Refusals),
     fetchMyAttendingEvents |-> Body("GET", Refusals)]
updateUserPreferences == Body("PATCH", {})
updateNotificationPreferences == Body("PATCH", {})
InterestProfileApi ==
    [fetchInterestProfiles |-> Json("GET", {}),
     createInterestProfile |-> Json("POST", {}),
     updateInterestProfile |-> Json("PATCH", {})]
AdminInterestApi ==
    [fetchAdminInterestProfileClusters |-> Json("GET", {}),
     fetchAdminInterestProfiles |-> Json("GET", {}),
     adminUpdateInterestProfile |-> Json("PATCH", {}),
     deleteInterestProfile |-> Sent("DELETE", {}),
     fetchVapidPublicKey |-> Body("GET", Refusals)]
PushSubscriptionApi ==
    [subscribePush |-> Sent("POST", {}),
     unsubscribePush |-> Sent("POST", Refusals),
     updateUserProfile |-> Body("PATCH", {})]
AssetApi ==
    [uploadUserAvatar |-> Json("POST", {}),
     deleteUserAvatar |-> Json("DELETE", {}),
     fetchEventAssets |-> Json("GET", {}),
     uploadEventAsset |-> Json("POST", {}),
     addEventTicketLink |-> Json("POST", {}),
     updateEventAsset |-> Json("PATCH", {}),
     deleteEventAsset |-> Json("DELETE", {}),
     setTicketNotNeeded |-> Json("PUT", {}),
     fetchEventAssetSummaries |-> Json("POST", {}),
     fetchFriendMemorySummaries |-> Json("POST", {})]
checkHandleAvailable == Body("GET", {})
fetchPublicProfile == Json("GET", {})
FollowApi ==
    [fetchProfilePassport |-> Json("GET", {}),
     followUser |-> Json("POST", {}), unfollowUser |-> Json("DELETE", {}),
     fetchFollowRequests |-> Json("GET", {"unauthorized"}),
     approveFollowRequest |-> Json("POST", {}),
     declineFollowRequest |-> Sent("POST", {}),
     fetchFollowers |-> Json("GET", {}), fetchFollowing |-> Json("GET", {}),
     fetchMyFriends |-> Json("GET", {})]
fetchFriendsLeaderboard == Json("GET", {})
fetchFollowingMostActive == Json("GET", {})
fetchOnboardingSuggestions == Json("GET", {})
completeOnboarding == Json("POST", {})
PeopleSuggestionApi ==
    [fetchMySuggestions |-> Json("GET", {}),
     dismissSuggestion |-> Sent("POST", {})]
PeoplePromptApi ==
    [fetchPeoplePrompt |-> Json("GET", {}),
     postPeoplePromptImpression |-> Sent("POST", {})]
fetchPeopleDiscoveryStats == Json("GET", {})
forcePeoplePrompt == Json("POST", {})
forcePeopleJoined == Json("POST", {})
fetchMyReferral == Json("GET", {})
redeemReferral == Json("POST", {})
fetchShareSource == Json("GET", {"missing"})
redeemShareFollow == Json("POST", {})
NetworkApi ==
    [fetchGoingWedge |-> Json("GET", {"unauthorized"}),
     fetchMyFollowers |-> Json("GET", {}),
     fetchMyFollowing |-> Json("GET", {}),
     fetchMutualFriends |-> Json("GET", {}),
     removeMyFollower |-> Sent("DELETE", {})]
SubscriptionApi ==
    [subscribeToCalendar |-> Json("POST", {}),
     unsubscribeFromCalendar |-> Json("DELETE", {}),
     fetchMySubscriptions |-> Json("GET", {})]
SubscriberApi ==
    [fetchMySubscribers |-> Json("GET", {}),
     removeMySubscriber |-> Sent("DELETE", {})]
NotificationApi ==
    [fetchNotifications |-> Json("GET", {}),
     fetchNotificationsUnreadCount |-> Json("GET", {}),
     markNotificationRead |-> Json("POST", {}),
     markNotificationOpened |-> Sent("POST", Refusals),
     markNotificationEmailClicked |-> Sent("POST", Refusals),
     markAllNotificationsRead |-> Json("POST", {})]
fetchSubscribedEvents == Json("GET", {})
AdminPeopleApi ==
    [fetchAdminUsers |-> Json("GET", {}),
     adminDeleteUser |-> Json("DELETE", {}),
     adminBlockUser |-> Json("POST", {}),
     adminFetchBlockedUsers |-> Json("GET", {}),
     adminRevokeUserBlock |-> Json("DELETE", {}),
     adminSetVerifiedOrganizer |-> Json("PATCH", {}),
     adminSetForceInstallPrompt |-> Json("PATCH", {}),
     adminSendInstallEmail |-> Json("POST", {}),
     reportAppInstalled |-> Json("POST", {}),
     adminSetForceEnablePush |-> Json("PATCH", {}),
     adminResetOnboarding |-> Json("PATCH", {})]
AccountSettingsApi ==
    [adminSetAdminManaged |-> Json("PATCH", {}),
     adminMergeUsers |-> Json("POST", {}),
     updateMyVisibility |-> Json("PATCH", {}),
     updateMySocialLinks |-> Json("PATCH", {})]
updateMyBio == Json("PATCH", {})
ProfileEventsApi ==
    [fetchProfileEventList |-> Json("GET", {}),
     fetchUserHosting |-> Json("GET", {})]
PersonalListsApi ==
    [fetchMyHosting |-> Json("GET", {}),
     fetchUserGoing |-> ProfileEventsApi.fetchProfileEventList,
     fetchUserSaved |-> ProfileEventsApi.fetchProfileEventList,
     fetchUserSuggested |-> ProfileEventsApi.fetchProfileEventList,
     fetchUserCalendar |-> Json("GET", {}),
     setFollowNotify |-> Json("PATCH", {})]
PeopleSearchApi ==
    [searchUsers |-> Json("GET", {}), fetchCurators |-> Json("GET", {}),
     fetchSuggestedUsers |-> Json("GET", {}),
     fetchAttendanceSummary |-> Body("GET", {}),
     fetchAttendanceSummaryBatch |-> Body("POST", Refusals)]
EventInterestApi ==
    [fetchInterestSummary |-> Body("GET", Refusals),
     fetchEventAttendees |-> Body("GET", {"unauthorized"})]
fetchSyncLogs == Body("GET", {})
SyncJobApi ==
    [startSyncJob |-> Body("POST", {}), getSyncJob |-> Body("GET", {}),
     retryCalendarInJob |-> Body("POST", {}),
     getCurrentSyncJob |-> Body("GET", {}), abortSyncJob |-> Body("POST", {}),
     fetchSyncJobs |-> Body("GET", {})]
AdminEventsApi ==
    [fetchAdminEvents |-> Body("GET", {}),
     fetchEventFilterOptions |-> Body("GET", {}),
     bulkReviewEvents |-> Body("POST", {}),
     bulkRetryGeocoding |-> Body("POST", {}),
     bulkAssignTags |-> Body("POST", {})]
adminBulkEngagement == Json("POST", {})
CurationAndImageApi ==
    [listCalendarCurationRules |-> Json("GET", {}),
     createCalendarCurationRule |-> Json("POST", {}),
     updateCalendarCurationRule |-> Json("PATCH", {}),
     deleteCalendarCurationRule |-> Sent("DELETE", {}),
     fetchAdminEvent |-> Body("GET", {}), updateEvent |-> Body("PATCH", {}),
     uploadEventImage |-> Json("POST", {}),
     setEventImageFromUrl |-> Json("POST", {}),
     deleteEventImage |-> Json("DELETE", {})]
ModerationApi ==
    [searchAddress |-> Body("GET", Refusals),
     fetchAppInfo |-> Body("GET", {}), fetchTestPlan |-> Body("GET", {}),
     fetchAdminEventModeration |-> Json("GET", {}),
     updateAdminEventDraft |-> Json("PUT", {}),
     discardAdminEventDraft |-> Sent("DELETE", {}),
     publishAdminEventDraft |-> Json("POST", {}),
     applyEventRevision |-> Json("POST", {}),
     setAdminEventStatus |-> Json("POST", {}),
     discardEventRevision |-> Json("POST", {}),
     revertEventRevision |-> Json("POST", {})]
fetchAdminChanges == Json("GET", {})
AdminChangeApi ==
    [decideAdminChange |-> Json("POST", {}),
     fetchMockSourceEvent |-> Body("GET", Refusals),
     editMockSourceEvent |-> Json("PATCH", {}),
     deleteMockSourceEvent |-> Json("DELETE", {}),
     reviewEvent |-> Body("POST", {}), submitSuggestion |-> Body("POST", {})]
SuggestionImageApi ==
    [uploadSuggestionImage |-> Json("POST", {}),
     importSuggestionImageFromUrl |-> Json("POST", {})]
OwnSuggestionApi ==
    [fetchSimilarEvents |-> Body("GET", Refusals),
     searchSuggestionAddress |-> Body("GET", Refusals),
     fetchOwnSuggestionForEvent |-> Body("GET", Refusals),
     fetchOwnSuggestion |-> Json("GET", {}),
     updateOwnSuggestion |-> Json("PATCH", {}),
     fetchMySubmissions |-> Json("GET", {}),
     withdrawOwnSuggestionChanges |-> Json("POST", {}),
     proposeEventChange |-> Json("POST", {}),
     fetchOwnEventChanges |-> Json("GET", {}),
     withdrawOwnEventChange |-> Json("DELETE", {}),
     withdrawOwnSuggestion |-> Json("POST", {}),
     requestOwnSuggestionPublic |-> Json("POST", {}),
     deleteOwnSuggestion |-> Json("DELETE", {}),
     fetchSuggestionAudit |-> Json("GET", {}),
     fetchSuggestions |-> Body("GET", {}),
     fetchAdminSuggestion |-> Json("GET", {})]
SuggestionReviewApi ==
    [fetchSuggestionOccurrences |-> Body("GET", {}),
     updateSuggestion |-> Body("PATCH", {}),
     approveSuggestion |-> Body("POST", {}),
     rejectSuggestion |-> Body("POST", {}),
     syncSuggestionToGoogle |-> Body("POST", {}),
     trackEventAttendance |-> Sent("POST", {}),
     trackEventSave |-> Sent("POST", {}),
     fetchEventsByIds |-> Body("POST", {}), exportIcs |-> File("POST", {}),
     exportXlsx |-> File("POST", {})]
ShareTokenApi ==
    [createShareToken |-> Body("POST", {}), getShareToken |-> Body("GET", {})]
fetchSharedCalendar == Body("GET", {})
fetchMostAttendedEvents == Body("GET", {})
fetchMostSavedEvents == Body("GET", {})
fetchMostViewedEvents == Body("GET", {})
fetchSourceBreakdown == Body("GET", {})
fetchTopLinks == Body("GET", {})
TrackingApi ==
    [fetchExportStats |-> Body("GET", {}),
     trackLinkClick |-> Sent("POST", Refusals),
     trackExport |-> Sent("POST", Refusals),
     trackShare |-> Sent("POST", Refusals),
     deleteUserData |-> Body("DELETE", {}),
     fetchTagGroups |-> Json("GET", {})]
TagSuggestionApi ==
    [fetchAdminTagSuggestions |-> Body("GET", {}),
     fetchAdminTagSuggestionCount |-> Json("GET", {}),
     approveTagSuggestion |-> Json("POST", {}),
     rejectTagSuggestion |-> Json("POST", {}),
     bulkReviewTagSuggestions |-> Body("POST", {}),
     runTagSuggestionsForEvent |-> Body("POST", {}),
     runTagSuggestionsBulk |-> Body("POST", {}),
     updateEventTags |-> Sent("PUT", {})]
TagCategoryApi ==
    [fetchAdminTagGroups |-> Body("GET", {}),
     createTagGroup |-> Body("POST", {}),
     updateTagGroup |-> Body("PATCH", {}), createTag |-> Body("POST", {}),
     updateTag |-> Body("PATCH", {}), deleteTag |-> Sent("DELETE", {})]
TagSynonymApi ==
    [fetchTagSynonyms |-> Body("GET", {}),
     createTagSynonym |-> Body("POST", {}),
     deleteTagSynonym |-> Sent("DELETE", {}),
     retryGeocodingSingle |-> Body("POST", {}),
     fetchAdminEventIds |-> Body("GET", {})]
RatingApi ==
    [fetchAdminEventMapPoints |-> Body("GET", {}),
     fetchCalendarDefaultTags |-> Body("GET", {}),
     updateCalendarDefaultTags |-> Body("PUT", {}),
     submitFeedback |-> Json("POST", {}),
     fetchMyRating |-> Json("GET", {"unauthorized"}),
     deleteMyRating |-> Sent("DELETE", {}),
     fetchRatingAggregate |-> Json("GET", {"unauthorized"}),
     fetchRatingAggregates |-> Json("POST", {"unauthorized"})]
EventReviewApi ==
    [fetchEventMessageCounts |-> Json("POST", Refusals),
     fetchEventSeriesRollup |-> Json("GET", {"unauthorized"}),
     fetchSeriesRollup |-> Json("GET", {"unauthorized"}),
     fetchEventReviews |-> Json("GET", {"unauthorized"}),
     fetchSeriesReviews |-> Json("GET", {"unauthorized"}),
     fetchFollowingReviews |-> Json("GET", {"unauthorized"})]
MessageAndPassportApi ==
    [fetchEventMessages |-> Json("GET", {}),
     postEventMessage |-> Json("POST", {}),
     deleteEventMessage |-> Sent("DELETE", {}),
     reportEventMessage |-> Sent("POST", {}),
     muteEventMessages |-> Sent("PUT", {}),
     fetchMyRatings |-> Json("GET", {}),
     fetchMyPendingReviews |-> Json("GET", {}),
     fetchPassport |-> Json("GET", {}),
     fetchPassportEvents |-> Json("GET", {}),
     fetchPassportTimeline |-> Json("GET", {}),
     ackPassportMilestones |-> Json("POST", {}),
     createPassportShare |-> Json("POST", {}),
     fetchPassportShare |-> Json("GET", {})]
ShareAndPromoCodeApi ==
    [revokePassportShare |-> Sent("DELETE", {}),
     fetchSharedPassport |-> Json("GET", {}),
     fetchAspectTagGroups |-> TrackingApi.fetchTagGroups,
     fetchAudienceTagGroups |-> TrackingApi.fetchTagGroups,
     fetchAdminRatings |-> Json("GET", {}),
     approveRating |-> Json("POST", {}), rejectRating |-> Json("POST", {}),
     blockEvent |-> Body("POST", {}), unblockEvent |-> Body("DELETE", {}),
     fetchEventPromoCodes |-> Json("GET", {"missing"}),
     submitEventPromoCode |-> Json("POST", {}),
     updateEventPromoCode |-> Json("PATCH", {}),
     deleteEventPromoCode |-> Sent("DELETE", {}),
     fetchAdminPromoCodes |-> Json("GET", {}),
     approveAdminPromoCode |-> Json("POST", {})]
AdminPromoCodeApi ==
    [rejectAdminPromoCode |-> Json("POST", {}),
     updateAdminPromoCode |-> Json("PATCH", {}),
     createAdminPromoCode |-> Json("POST", {})]
searchEvents == Json("GET", {})
searchEventsPage == Json("GET", {})
OrganizerClaimApi ==
    [fetchPopularCities |-> Json("GET", Refusals),
     fetchMyOrganizerClaims |-> Json("GET", {}),
     submitOrganizerClaim |-> Json("POST", {}),
     cancelOrganizerClaim |-> Sent("DELETE", {}),
     claimEvents |-> Json("POST", {}),
     removeEventFromClaim |-> Sent("DELETE", {}),
     adminSetEventOrganizer |-> Json("PUT", {}),
     adminUpdateUserOrganizer |-> Json("PUT", {}),
     fetchAdminOrganizedEvents |-> Json("GET", {}),
     fetchAdminOrganizerClaims |-> Json("GET", {}),
     decideOrganizerClaim |-> Json("POST", {}),
     fetchDuplicateGroups |-> Json("GET", {}),
     fetchDuplicateScanHistory |-> Json("GET", {}),
     triggerDuplicateScan |-> Json("POST", {})]
DuplicateApi ==
    [flagEventsAsDuplicates |-> Json("POST", {}),
     keepDuplicateEvent |-> Json("POST", {}),
     dismissDuplicateGroup |-> Json("POST", {}),
     fetchEventDuplicateCandidates |-> Json("GET", {}),
     scanEventDuplicates |-> Json("POST", {})]
fetchOverlappingEvents == Json("GET", {})
MergeAndSeriesApi ==
    [fetchMergePreview |-> Json("GET", {}), mergeEvents |-> Json("POST", {}),
     fetchAdminEventNotificationStats |-> Json("GET", {}),
     fetchSeriesGroups |-> Json("GET", {}),
     fetchSeriesScanHistory |-> Json("GET", {}),
     triggerSeriesScan |-> Json("POST", {}),
     fetchSeriesDetectionSettings |-> Json("GET", {}),
     updateSeriesDetectionSettings |-> Json("PUT", {}),
     groupEventsAsSeries |-> Json("POST", {}),
     approveSeriesGroup |-> Json("POST", {}),
     dismissSeriesGroup |-> Json("POST", {}),
     splitSeriesMember |-> Json("POST", {}),
     addEventsToSeries |-> Json("POST", {})]
SeriesTitleApi ==
    [renameSeries |-> Json("PATCH", {}),
     fetchEventSeriesCandidates |-> Json("GET", {})]
===============================================================================
