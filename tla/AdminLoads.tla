------------------------------ MODULE AdminLoads ------------------------------
(***************************************************************************)
(* The loads of the admin screens and the program editor, one definition   *)
(* each, named Component_request.  PageLoads explains what a load is made of. *)
(***************************************************************************)
EXTENDS PageLoads, ApiCalls

AdminAssetPromptSendNow_searchEvents ==
    Load({searchEvents}, "gated", "none", "keep", "keep", "default", "no")
AdminAssetPromptSendNow_load ==
    Load({fetchAssetPromptCandidates}, "keyed", "latest", "keep", "keep", "tell", "no")
AdminAutoTagSuggestions_reload ==
    Load({TagSuggestionApi.fetchAdminTagSuggestions}, "keyed", "none", "keep",
         "keep", "tell", "each")
AdminEventDetailContent_AdminCalendars ==
    Load({CalendarApi.fetchAdminCalendars}, "once", "none", "keep", "keep", "keep", "no")
AdminEventDetailPanel_AdminEvent ==
    Load({CurationAndImageApi.fetchAdminEvent,
         ModerationApi.fetchAdminEventModeration}, "gated", "none", "clear", "clear",
         "tell", "each")
AdminEventDetailPanel_reloadModeration ==
    Load({ModerationApi.fetchAdminEventModeration}, "keyed", "none", "keep", "keep",
         "default", "no")
AdminEventDetailPanel_handleModerationChanged ==
    Load({CurationAndImageApi.fetchAdminEvent}, "keyed", "none", "keep", "keep",
         "keep", "no")
AdminEventDetailPanel_EventDuplicateCandidates ==
    Load({DuplicateApi.fetchEventDuplicateCandidates}, "gated", "none", "keep",
         "clear", "default", "each")
AdminEventDetailPanel_reloadDuplicates ==
    Load({DuplicateApi.fetchEventDuplicateCandidates}, "keyed", "none", "keep",
         "keep", "keep", "no")
AdminEventDetailPanel_AdminEvents ==
    Load({AdminEventsApi.fetchAdminEvents}, "gated", "cancel", "keep", "settle",
         "default", "each")
AdminEventDetailPanel_EventSeriesCandidates ==
    Load({SeriesTitleApi.fetchEventSeriesCandidates}, "gated", "none", "keep",
         "clear", "default", "each")
AdminEventDetailPanel_OptionalAdminEventSchedule ==
    Load({ProgramEditorApi.fetchOptionalAdminEventSchedule}, "gated", "cancel",
         "clear", "clear", "default", "no")
AdminEventDetailPanel_handleTagsUpdated ==
    Load({CurationAndImageApi.fetchAdminEvent}, "keyed", "none", "keep", "keep",
         "keep", "no")
AdminEventDetailPanel_handleManualRefresh ==
    Load({CurationAndImageApi.fetchAdminEvent}, "keyed", "none", "keep", "keep",
         "tell", "each")
AdminEventDetailPanel_runSeriesSearch ==
    Load({MergeAndSeriesApi.fetchSeriesGroups}, "keyed", "none", "keep", "keep",
         "escape", "each")
AdminEventModerationSection_AdminCalendars ==
    Load({CalendarApi.fetchAdminCalendars}, "gated", "none", "keep", "keep",
         "default", "no")
AdminEventNotificationsSection_AdminEventNotificationStats ==
    Load({MergeAndSeriesApi.fetchAdminEventNotificationStats}, "keyed", "cancel",
         "keep", "keep", "tell", "each")
AdminEventOrganizerField_AdminUsers ==
    Load({AdminPeopleApi.fetchAdminUsers}, "gated", "none", "keep", "clear",
         "default", "no")
AdminEventOverviewModal_AdminEvent ==
    Load({CurationAndImageApi.fetchAdminEvent}, "keyed", "cancel", "clear", "keep",
         "tell", "no")
AdminEventPromoCodes_load ==
    Load({ShareAndPromoCodeApi.fetchAdminPromoCodes}, "keyed", "none", "keep",
         "keep", "tell", "each")
AdminMockSourceEditor_MockSourceEvent ==
    Load({AdminChangeApi.fetchMockSourceEvent}, "keyed", "cancel", "keep", "keep",
         "default", "no")
AdminOrganizerSheet_AdminOrganizedEvents ==
    Load({OrganizerClaimApi.fetchAdminOrganizedEvents}, "keyed", "none", "keep",
         "keep", "default", "no")
AdminOrganizerSheet_searchEvents ==
    Load({searchEvents}, "gated", "none", "keep", "clear", "default", "no")
AdminPeopleDiscoverySettings_Settings ==
    Load({SettingsApi.fetchSettings}, "once", "none", "keep", "keep", "keep", "no")
AdminReviewHomePromptSettings_Settings ==
    Load({SettingsApi.fetchSettings, ReviewPromptApi.fetchReviewPromptStats}, "once",
         "none", "keep", "keep", "default", "no")
AdminSearchProfiles_TagGroups ==
    Load({TrackingApi.fetchTagGroups}, "once", "none", "keep", "keep", "default", "no")
AdminSearchProfiles_load ==
    Load({AdminInterestApi.fetchAdminInterestProfiles}, "keyed", "none", "keep",
         "keep", "tell", "no")
AdminSearchProfiles_loadClusters ==
    Load({AdminInterestApi.fetchAdminInterestProfileClusters}, "again", "none",
         "keep", "keep", "tell", "no")
AdminSearchProfiles_loadMembers ==
    Load({AdminInterestApi.fetchAdminInterestProfiles}, "keyed", "none", "clear",
         "keep", "tell", "no")
AdminTagCategories_load ==
    Load({TagCategoryApi.fetchAdminTagGroups}, "again", "none", "keep", "keep",
         "keep", "first")
AdminUserMultiPicker_AdminUsers ==
    Load({AdminPeopleApi.fetchAdminUsers}, "gated", "cancel", "keep", "keep",
         "default", "each")
AdminUsersTab_load ==
    Load({AdminPeopleApi.fetchAdminUsers}, "keyed", "none", "keep", "keep", "tell",
         "each")
AdminUsersTab_loadMore ==
    Load({AdminPeopleApi.fetchAdminUsers}, "keyed", "none", "keep", "keep", "tell",
         "each")
AdminUsersTab_AdminUsers ==
    Load({AdminPeopleApi.fetchAdminUsers}, "gated", "cancel", "keep", "keep", "tell",
         "each")
CalendarCurationRulesPanel_listCalendarCurationRules ==
    Load({CurationAndImageApi.listCalendarCurationRules}, "keyed", "cancel", "keep",
         "keep", "tell", "each")
CalendarCurationRulesPanel_AdminUsers ==
    Load({AdminPeopleApi.fetchAdminUsers}, "once", "cancel", "keep", "keep",
         "default", "no")
DuplicatesPanel_load ==
    Load({OrganizerClaimApi.fetchDuplicateScanHistory,
         OrganizerClaimApi.fetchDuplicateGroups}, "keyed", "none", "keep", "keep",
         "tell", "each")
EventsPanel_loadMore ==
    Load({AdminEventsApi.fetchAdminEvents}, "keyed", "none", "keep", "keep", "tell",
         "each")
EventsPanel_AdminTagGroups ==
    Load({TagCategoryApi.fetchAdminTagGroups}, "keyed", "none", "keep", "keep",
         "keep", "no")
EventsPanel_AdminUsers ==
    Load({AdminPeopleApi.fetchAdminUsers}, "gated", "none", "keep", "keep",
         "default", "no")
EventsPanel_SeriesGroups ==
    Load({MergeAndSeriesApi.fetchSeriesGroups}, "gated", "none", "keep", "keep",
         "default", "each")
EventsPanel_handleSelectAllMatching ==
    Load({TagSynonymApi.fetchAdminEventIds}, "keyed", "none", "keep", "keep", "tell",
         "each")
FeedbackPanel_load ==
    Load({ShareAndPromoCodeApi.fetchAdminRatings}, "keyed", "none", "keep", "keep",
         "keep", "each")
JobDetailDrawer_refresh ==
    Load({SyncJobApi.getSyncJob}, "keyed", "none", "keep", "keep", "tell", "no")
MergeEventsDialog_MergePreview ==
    Load({MergeAndSeriesApi.fetchMergePreview}, "keyed", "cancel", "keep", "keep",
         "tell", "no")
OrganizerClaimsAdminPanel_AdminOrganizerClaims ==
    Load({OrganizerClaimApi.fetchAdminOrganizerClaims}, "gated", "cancel", "keep",
         "keep", "keep", "no")
OrganizerClaimsAdminPanel_AdminOrganizerClaims67 ==
    Load({OrganizerClaimApi.fetchAdminOrganizerClaims}, "gated", "none", "keep",
         "keep", "tell", "each")
OverlappingEventsSection_OverlappingEvents ==
    Load({fetchOverlappingEvents}, "keyed", "cancel", "keep", "keep", "default", "no")
PromoCodesAdminPanel_load ==
    Load({ShareAndPromoCodeApi.fetchAdminPromoCodes}, "keyed", "none", "keep",
         "keep", "tell", "each")
RatingReviewModal_AdminTagSuggestions ==
    Load({TagSuggestionApi.fetchAdminTagSuggestions}, "gated", "none", "keep",
         "clear", "default", "each")
ReviewPanel_load ==
    Load({fetchAdminChanges}, "keyed", "none", "keep", "keep", "tell", "each")
ReviewPanel_loadMore ==
    Load({fetchAdminChanges}, "keyed", "none", "keep", "keep", "tell", "each")
SeriesDetailPanel_AdminEvents ==
    Load({AdminEventsApi.fetchAdminEvents}, "gated", "none", "keep", "keep",
         "default", "each")
SeriesDetectionSettingsForm_SeriesDetectionSettings ==
    Load({MergeAndSeriesApi.fetchSeriesDetectionSettings}, "once", "none", "keep",
         "keep", "tell", "no")
SeriesPanel_load ==
    Load({MergeAndSeriesApi.fetchSeriesScanHistory,
         MergeAndSeriesApi.fetchSeriesGroups}, "keyed", "none", "keep", "keep",
         "tell", "each")
SubmissionDetails_AdminSuggestion ==
    Load({OwnSuggestionApi.fetchAdminSuggestion,
         SuggestionReviewApi.fetchSuggestionOccurrences,
         OwnSuggestionApi.fetchSuggestionAudit}, "keyed", "cancel", "keep", "keep",
         "tell", "no")
SyncJobPanel_refresh ==
    Load({SyncJobApi.getCurrentSyncJob, SyncJobApi.fetchSyncJobs}, "again", "none",
         "keep", "keep", "keep", "no")
SyncJobsHistoryTable_refresh ==
    Load({SyncJobApi.fetchSyncJobs}, "keyed", "none", "keep", "keep", "tell", "each")
SyncProgressCard_fetchJob ==
    Load({SyncJobApi.getSyncJob, SyncJobApi.getCurrentSyncJob}, "keyed", "none",
         "keep", "keep", "keep", "no")
TagSuggestionsPanel_load ==
    Load({TagSuggestionApi.fetchAdminTagSuggestions, TrackingApi.fetchTagGroups},
         "again", "none", "keep", "keep", "keep", "each")
TagSynonymsEditor_TagSynonyms ==
    Load({TagSynonymApi.fetchTagSynonyms}, "keyed", "none", "keep", "keep", "tell",
         "first")
AdminEventsMap_AdminEventMapPoints ==
    Load({RatingApi.fetchAdminEventMapPoints}, "gated", "cancel", "clear", "keep",
         "default", "no")
useAdminCounters_refresh ==
    Load({AdminEventsApi.fetchEventFilterOptions, fetchAdminChanges,
         TagSuggestionApi.fetchAdminTagSuggestionCount,
         ShareAndPromoCodeApi.fetchAdminRatings,
         OrganizerClaimApi.fetchAdminOrganizerClaims,
         ShareAndPromoCodeApi.fetchAdminPromoCodes,
         OrganizerClaimApi.fetchDuplicateGroups,
         MergeAndSeriesApi.fetchSeriesGroups}, "again", "none", "keep", "keep",
         "keep", "no")
Admin_loadCalendars ==
    Load({CalendarApi.fetchAdminCalendars, RatingApi.fetchCalendarDefaultTags},
         "again", "none", "keep", "keep", "keep", "first")
Admin_Settings ==
    Load({SettingsApi.fetchSettings, OwnSuggestionApi.fetchSuggestions,
         fetchMostSavedEvents, fetchMostViewedEvents, fetchMostAttendedEvents,
         fetchSourceBreakdown, fetchTopLinks, TrackingApi.fetchExportStats,
         NotificationConfigApi.fetchWebPushSubscriberCount,
         fetchNotificationToggleCounts, SyncJobApi.getCurrentSyncJob}, "once",
         "none", "keep", "keep", "keep", "no")
Admin_searchEvents ==
    Load({searchEvents}, "gated", "none", "keep", "clear", "default", "no")
Admin_ReviewPromptCandidates ==
    Load({fetchReviewPromptCandidates}, "gated", "cancel", "keep", "clear",
         "default", "each")
AdminEventSchedulePage_reload ==
    Load({ProgramEditorApi.fetchAdminEventSchedule}, "keyed", "none", "keep", "keep",
         "escape", "no")
AdminEventSchedulePage_EventScheduleEditorAccess ==
    Load({ProgramEditorApi.fetchEventScheduleEditorAccess,
         ProgramEditorApi.fetchEvent,
         ProgramEditorApi.fetchOptionalAdminEventSchedule}, "gated", "none", "keep",
         "keep", "tell", "first")
AdminEventSchedulePage_ScheduleEditors ==
    Load({ProgramEditorsApi.fetchScheduleEditors}, "keyed", "cancel", "keep", "keep",
         "tell", "first")
AdminEventSchedulePage_AdminUsers ==
    Load({AdminPeopleApi.fetchAdminUsers}, "gated", "cancel", "keep", "clear",
         "default", "no")
AdminEventSchedulePage_SchedulePlanners ==
    Load({fetchSchedulePlanners}, "keyed", "cancel", "keep", "keep", "tell", "first")
AdminEventSchedulePage_exportEventSchedule ==
    Load({ProgramEditorsApi.exportEventSchedule}, "keyed", "cancel", "keep", "keep",
         "tell", "each")
AdminEventSchedulePage_SchedulePublishPreview ==
    Load({fetchSchedulePublishPreview}, "gated", "cancel", "keep", "keep", "keep", "no")
AdminEventSchedulePage_ProgramNotifyCandidates ==
    Load({ProgramPublishApi.fetchProgramNotifyCandidates}, "keyed", "cancel", "keep",
         "keep", "tell", "no")
EventProgramExportPage_PublishedProgramExport ==
    Load({ProgramExchangeApi.fetchPublishedProgramExport}, "gated", "cancel", "keep",
         "keep", "tell", "no")
EventProgramPage_Event ==
    Load({ProgramEditorApi.fetchEvent, ProgramEditorApi.fetchAdminEventSchedule,
         ProgramEditorApi.fetchEventSchedule}, "gated", "cancel", "keep", "keep",
         "tell", "no")
AdminNotificationsTab_page ==
    Load({CalendarApi.fetchAdminNotificationActivity}, "keyed", "latest", "keep",
         "keep", "replace", "each")
AdminNotificationsTab_loadMore ==
    Load({CalendarApi.fetchAdminNotificationActivity}, "keyed", "latest", "keep",
         "keep", "tell", "loose")
AddressAutocomplete_doSearch ==
    Load({ModerationApi.searchAddress}, "gated", "cancel", "keep", "settle",
         "default", "each")

\* Every load above.
LoadsOfAdmins ==
    {AdminAssetPromptSendNow_searchEvents, AdminAssetPromptSendNow_load,
     AdminAutoTagSuggestions_reload, AdminEventDetailContent_AdminCalendars,
     AdminEventDetailPanel_AdminEvent, AdminEventDetailPanel_reloadModeration,
     AdminEventDetailPanel_handleModerationChanged,
     AdminEventDetailPanel_EventDuplicateCandidates,
     AdminEventDetailPanel_reloadDuplicates, AdminEventDetailPanel_AdminEvents,
     AdminEventDetailPanel_EventSeriesCandidates,
     AdminEventDetailPanel_OptionalAdminEventSchedule,
     AdminEventDetailPanel_handleTagsUpdated,
     AdminEventDetailPanel_handleManualRefresh,
     AdminEventDetailPanel_runSeriesSearch,
     AdminEventModerationSection_AdminCalendars,
     AdminEventNotificationsSection_AdminEventNotificationStats,
     AdminEventOrganizerField_AdminUsers, AdminEventOverviewModal_AdminEvent,
     AdminEventPromoCodes_load, AdminMockSourceEditor_MockSourceEvent,
     AdminOrganizerSheet_AdminOrganizedEvents, AdminOrganizerSheet_searchEvents,
     AdminPeopleDiscoverySettings_Settings,
     AdminReviewHomePromptSettings_Settings, AdminSearchProfiles_TagGroups,
     AdminSearchProfiles_load, AdminSearchProfiles_loadClusters,
     AdminSearchProfiles_loadMembers, AdminTagCategories_load,
     AdminUserMultiPicker_AdminUsers, AdminUsersTab_load, AdminUsersTab_loadMore,
     AdminUsersTab_AdminUsers,
     CalendarCurationRulesPanel_listCalendarCurationRules,
     CalendarCurationRulesPanel_AdminUsers, DuplicatesPanel_load,
     EventsPanel_loadMore, EventsPanel_AdminTagGroups, EventsPanel_AdminUsers,
     EventsPanel_SeriesGroups, EventsPanel_handleSelectAllMatching,
     FeedbackPanel_load, JobDetailDrawer_refresh, MergeEventsDialog_MergePreview,
     OrganizerClaimsAdminPanel_AdminOrganizerClaims,
     OrganizerClaimsAdminPanel_AdminOrganizerClaims67,
     OverlappingEventsSection_OverlappingEvents, PromoCodesAdminPanel_load,
     RatingReviewModal_AdminTagSuggestions, ReviewPanel_load,
     ReviewPanel_loadMore, SeriesDetailPanel_AdminEvents,
     SeriesDetectionSettingsForm_SeriesDetectionSettings, SeriesPanel_load,
     SubmissionDetails_AdminSuggestion, SyncJobPanel_refresh,
     SyncJobsHistoryTable_refresh, SyncProgressCard_fetchJob,
     TagSuggestionsPanel_load, TagSynonymsEditor_TagSynonyms,
     AdminEventsMap_AdminEventMapPoints, useAdminCounters_refresh,
     Admin_loadCalendars, Admin_Settings, Admin_searchEvents,
     Admin_ReviewPromptCandidates, AdminEventSchedulePage_reload,
     AdminEventSchedulePage_EventScheduleEditorAccess,
     AdminEventSchedulePage_ScheduleEditors, AdminEventSchedulePage_AdminUsers,
     AdminEventSchedulePage_SchedulePlanners,
     AdminEventSchedulePage_exportEventSchedule,
     AdminEventSchedulePage_SchedulePublishPreview,
     AdminEventSchedulePage_ProgramNotifyCandidates,
     EventProgramExportPage_PublishedProgramExport, EventProgramPage_Event,
     AdminNotificationsTab_page, AdminNotificationsTab_loadMore,
     AddressAutocomplete_doSearch}
===============================================================================
