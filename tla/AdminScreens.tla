----------------------------- MODULE AdminScreens -----------------------------
(***************************************************************************)
(* The parts of the admin dashboard, of the program editor and of the      *)
(* components only they show.                                              *)
(***************************************************************************)
EXTENDS ScreenParts

\* components/AdminAssetPromptSendNow.tsx
AdminAssetPromptSendNow ==
    Calls("any", {"fetchAssetPromptCandidates", "searchEvents", "sendAssetPromptNow"})

\* components/AdminNotificationsTab.tsx
EventLink == Links("any", {"/event/:eventId"})
ItemList == Shows("any", {"EventLink"})
ActivityRow == Shows("any", {"EventLink", "ItemList"})
RecipientGroup == Shows("any", {"ActivityRow"})
AdminNotificationsTab ==
    UNION {Calls("any", {"fetchAdminNotificationActivity"}),
        Shows("any", {"ActivityRow", "RecipientGroup"})}

\* components/AdminOrganizerSheet.tsx
AdminOrganizerSheet ==
    UNION {Calls("any", {"adminUpdateUserOrganizer", "fetchAdminOrganizedEvents", "searchEvents"}),
        Links("any", {"/event/:eventId"})}

\* components/AdminPeopleDiscoverySettings.tsx
AdminPeopleDiscoverySettings ==
    UNION {Calls("any", {"fetchPeopleDiscoveryStats", "fetchSettings", "forcePeopleJoined",
            "forcePeoplePrompt", "updateSettings"}),
        Shows("any", {"AdminUserMultiPicker"})}

\* components/AdminReviewHomePromptSettings.tsx
AdminReviewHomePromptSettings ==
    Calls("any", {"fetchReviewPromptStats", "fetchSettings", "updateSettings"})

\* components/AdminSearchProfiles.tsx
EditProfileSheet ==
    UNION {Calls("any", {"adminUpdateInterestProfile"}),
        Shows("any", {"ProfileDraftEditor"})}
AdminUserSearchProfilesSheet ==
    UNION {Calls("any", {"fetchAdminInterestProfiles", "fetchTagGroups"}),
        Shows("any", {"EditProfileSheet"})}
AdminSearchProfilesPanel ==
    UNION {Calls("any", {"fetchAdminInterestProfileClusters", "fetchAdminInterestProfiles",
            "fetchTagGroups"}),
        Shows("any", {"EditProfileSheet"})}

\* components/AdminTagCategories.tsx
TagGroupForm ==
    Calls("any", {"createTagGroup", "fetchAdminTagGroups"})
TagGroupHeader ==
    Calls("any", {"fetchAdminTagGroups", "updateTagGroup"})
TagGroupTags ==
    UNION {Calls("any", {"createTag", "fetchAdminTagGroups", "updateTag"}),
        Shows("any", {"TagSynonymsEditor"})}
AdminTagCategories ==
    UNION {Calls("any", {"deleteTag"}),
        TagGroupForm,
        TagGroupHeader,
        TagGroupTags}

\* components/AdminUserMultiPicker.tsx
AdminUserMultiPicker == Calls("any", {"fetchAdminUsers"})

\* components/AdminUsersTab.tsx
UsersRows ==
    Calls("any", {"adminResetOnboarding", "adminSendInstallEmail", "adminSetAdminManaged",
            "adminSetForceEnablePush", "adminSetForceInstallPrompt", "fetchAdminUsers"})
UsersDialogs ==
    UNION {Calls("any", {"adminBlockUser", "adminDeleteUser", "adminMergeUsers",
            "adminResetOnboarding", "adminRevokeUserBlock", "adminSendInstallEmail",
            "adminSetAdminManaged", "adminSetForceEnablePush", "adminSetForceInstallPrompt",
            "fetchAdminUsers"}),
        Shows("any", {"AdminOrganizerSheet", "AdminUserSearchProfilesSheet", "MergeUsersDialog"})}
AdminUsersTab ==
    UNION {UsersRows,
        UsersDialogs}
MergeUsersDialog == Calls("any", {"fetchAdminUsers"})

\* components/CalendarCurationRulesPanel.tsx
CalendarCurationRulesPanel ==
    Calls("any", {"createCalendarCurationRule", "deleteCalendarCurationRule", "fetchAdminUsers",
            "listCalendarCurationRules", "updateCalendarCurationRule"})

\* components/CalendarDetailDrawer.tsx
CalendarDetailDrawer == Shows("any", {"CalendarRunPanel"})

\* components/CalendarRunPanel.tsx
CalendarRunPanel == Shows("any", {"AdminEventDetailPanel"})

\* components/DuplicatesPanel.tsx
DuplicatesPanel ==
    UNION {Calls("any", {"dismissDuplicateGroup", "fetchDuplicateGroups", "fetchDuplicateScanHistory",
            "keepDuplicateEvent", "triggerDuplicateScan"}),
        Shows("any", {"MergeEventsDialog"})}

\* components/EventsPanel.tsx
EventsPanelBar ==
    Calls("any", {"fetchAdminEventIds", "fetchAdminEvents", "fetchEventFilterOptions"})
EventsPanelTable ==
    UNION {Calls("any", {"fetchAdminEventIds", "fetchAdminEvents", "fetchEventFilterOptions",
            "reviewEvent"}),
        Shows("any", {"AdminEventsMap"})}
EventsPanelPickers ==
    Calls("any", {"addEventsToSeries", "adminBulkEngagement", "approveSeriesGroup",
            "bulkAssignTags", "dismissDuplicateGroup", "dismissSeriesGroup", "fetchAdminEvents",
            "fetchEventFilterOptions", "groupEventsAsSeries", "keepDuplicateEvent",
            "splitSeriesMember"})
EventsPanelBulkBar ==
    Calls("any", {"bulkRetryGeocoding", "bulkReviewEvents", "fetchAdminEvents",
            "fetchEventFilterOptions", "flagEventsAsDuplicates", "runTagSuggestionsBulk"})
EventsPanelBulkSheets ==
    Calls("any", {"addEventsToSeries", "adminBulkEngagement", "bulkAssignTags",
            "bulkRetryGeocoding", "bulkReviewEvents", "fetchAdminEvents", "fetchEventFilterOptions",
            "flagEventsAsDuplicates", "groupEventsAsSeries", "runTagSuggestionsBulk"})
EventsPanelResults ==
    UNION {Calls("any", {"approveSeriesGroup", "dismissDuplicateGroup", "dismissSeriesGroup",
            "fetchAdminEvents", "fetchEventFilterOptions", "keepDuplicateEvent",
            "splitSeriesMember"}),
        Shows("any", {"AdminEventDetailPanel", "MergeEventsDialog"})}
EventsPanel ==
    UNION {Calls("any", {"fetchAdminTagGroups", "fetchAdminUsers", "fetchSeriesGroups"}),
        EventsPanelBar,
        EventsPanelTable,
        EventsPanelPickers,
        EventsPanelBulkBar,
        EventsPanelBulkSheets,
        EventsPanelResults}

\* components/FeedbackPanel.tsx
FeedbackPanel ==
    UNION {Calls("any", {"fetchAdminRatings"}),
        Shows("any", {"AdminEventDetailPanel", "RatingReviewModal"})}

\* components/JobDetailDrawer.tsx
JobDetailDrawer ==
    UNION {Calls("any", {"getSyncJob", "retryCalendarInJob"}),
        Shows("any", {"CalendarRunPanel"})}

\* components/OrganizerClaimsAdminPanel.tsx
OrganizerClaimsAdminPanel ==
    UNION {Calls("any", {"fetchAdminOrganizerClaims"}),
        Shows("any", {"ClaimReviewSheet"})}
ClaimReviewSheet ==
    UNION {Calls("any", {"decideOrganizerClaim"}),
        Links("any", {"/event/:eventId", "/u/:handle"})}

\* components/PromoCodesAdminPanel.tsx
PromoCodesAdminPanel ==
    UNION {Calls("any", {"approveAdminPromoCode", "fetchAdminPromoCodes", "rejectAdminPromoCode"}),
        Links("any", {"/u/:handle"})}

\* components/RatingReviewModal.tsx
RatingReviewModal ==
    Calls("any", {"approveRating", "approveTagSuggestion", "fetchAdminTagSuggestions",
            "rejectRating", "rejectTagSuggestion"})

\* components/ReviewPanel.tsx
ChangeDetail == Calls("any", {"decideAdminChange", "fetchAdminCalendars"})
ReviewPanel ==
    UNION {Calls("any", {"fetchAdminChanges"}),
        Shows("any", {"AdminEventDetailPanel", "ChangeDetail"})}

\* components/SeriesDetailPanel.tsx
SeriesDetailPanel ==
    Calls("any", {"addEventsToSeries", "approveSeriesGroup", "dismissSeriesGroup",
            "fetchAdminEvents", "renameSeries", "splitSeriesMember"})

\* components/SeriesDetectionSettingsForm.tsx
SeriesDetectionSettingsForm ==
    Calls("any", {"fetchSeriesDetectionSettings", "updateSeriesDetectionSettings"})

\* components/SeriesPanel.tsx
SeriesPanel ==
    UNION {Calls("any", {"approveSeriesGroup", "dismissSeriesGroup", "fetchSeriesGroups",
            "fetchSeriesScanHistory", "splitSeriesMember", "triggerSeriesScan"}),
        Shows("any", {"SeriesDetailPanel", "SeriesDetectionSettingsForm"})}

\* components/SyncJobsHistoryTable.tsx
SyncJobsHistoryTable ==
    UNION {Calls("any", {"fetchSyncJobs"}),
        Shows("any", {"JobDetailDrawer"})}

\* components/SyncProgressCard.tsx
SyncProgressCard ==
    UNION {Calls("any", {"abortSyncJob", "getCurrentSyncJob", "getSyncJob"}),
        Shows("any", {"CalendarDetailDrawer"})}

\* components/TagSuggestionReviewModal.tsx
TagSuggestionReviewModal ==
    Calls("any", {"approveTagSuggestion", "createTag", "rejectTagSuggestion"})

\* components/TagSuggestionsPanel.tsx
TagSuggestionsBars ==
    Calls("any", {"bulkReviewTagSuggestions", "fetchAdminEventIds", "fetchAdminTagSuggestions",
            "fetchTagGroups", "runTagSuggestionsBulk"})
TagSuggestionsList ==
    Calls("any", {"approveTagSuggestion", "fetchAdminTagSuggestions", "fetchTagGroups",
            "rejectTagSuggestion"})
TagSuggestionsSheets ==
    UNION {Calls("any", {"bulkReviewTagSuggestions", "fetchAdminEventIds", "fetchAdminTagSuggestions",
            "fetchTagGroups", "runTagSuggestionsBulk"}),
        Shows("any", {"AdminEventDetailPanel", "TagSuggestionReviewModal"})}
TagSuggestionsPanel ==
    UNION {TagSuggestionsBars,
        TagSuggestionsList,
        TagSuggestionsSheets}

\* components/TagSynonymsEditor.tsx
TagSynonymsEditor == Calls("any", {"createTagSynonym", "deleteTagSynonym", "fetchTagSynonyms"})

\* components/UnsyncedSuggestionsPanel.tsx
UnsyncedSuggestionsPanel ==
    UNION {Calls("any", {"syncSuggestionToGoogle"}),
        Shows("any", {"AdminEventDetailPanel"})}

\* components/admin-events/AdminEventsMap.tsx
AdminEventsMap ==
    UNION {Calls("any", {"fetchAdminEventMapPoints"}),
        Shows("any", {"EventMap", "MyEventsMapPreview"})}

\* pages/Admin.tsx
FeatureEmailCard ==
    UNION {Calls("any", {"sendDigestNow"}),
        Shows("any", {"AdminUserMultiPicker"})}
AdminHeader ==
    Links("any", {"/admin/:tab"})
AdminCalendarsCard ==
    UNION {Calls("any", {"addCalendar", "discoverCalendars", "fetchAdminCalendars",
            "fetchAdminTagGroups", "fetchCalendarDefaultTags", "startSyncJob", "updateCalendar",
            "updateCalendarDefaultTags", "updateSettings"}),
        Shows("any", {"CalendarCurationRulesPanel"})}
AdminSyncColumn ==
    Shows("any", {"SyncJobsHistoryTable", "SyncProgressCard"})
AdminEventsSettings ==
    Calls("any", {"updateSettings"})
AdminFeatureFlags ==
    Calls("any", {"updateSettings"})
AdminTagSettings ==
    Shows("any", {"AdminTagCategories"})
AdminChannelCard ==
    UNION {Calls("any", {"forceSendInterestMatches", "previewInterestMatches", "updateSettings"}),
        Shows("any", {"AdminUserMultiPicker"})}
AdminFanOutCard ==
    Calls("any", {"updateSettings"})
AdminReminderCards ==
    Calls("any", {"sendReviewPromptNow", "updateSettings"})
AdminPromptCards ==
    UNION {Calls("any", {"updateSettings"}),
        Shows("any", {"AdminAssetPromptSendNow", "AdminPeopleDiscoverySettings",
            "AdminReviewHomePromptSettings"})}
AdminDigestCards ==
    UNION {Calls("any", {"updateSettings"}),
        Shows("any", {"FeatureEmailCard"})}
AdminFeatureEmails ==
    UNION {Calls("any", {"updateSettings"}),
        Shows("any", {"FeatureEmailCard"})}
AdminPanels ==
    UNION {Calls("any", {"fetchSuggestions", "startSyncJob"}),
        Shows("any", {"AdminEventDetailPanel", "AdminNotificationsTab", "AdminSearchProfilesPanel",
            "AdminUsersTab", "DuplicatesPanel", "EventsPanel", "FeedbackPanel",
            "OrganizerClaimsAdminPanel", "PromoCodesAdminPanel", "ReviewPanel", "SeriesPanel",
            "TagSuggestionsPanel", "UnsyncedSuggestionsPanel"})}
AdminSheets ==
    UNION {Calls("any", {"fetchAdminTagGroups", "fetchCalendarDefaultTags", "updateCalendar"}),
        Links("any", {"/admin/:tab"})}
Admin ==
    UNION {Calls("any", {"fetchAdminChanges", "fetchAdminOrganizerClaims", "fetchAdminPromoCodes",
            "fetchAdminRatings", "fetchAdminTagSuggestionCount", "fetchDuplicateGroups",
            "fetchEventFilterOptions", "fetchExportStats", "fetchMostAttendedEvents",
            "fetchMostSavedEvents", "fetchMostViewedEvents", "fetchNotificationToggleCounts",
            "fetchReviewPromptCandidates", "fetchSeriesGroups", "fetchSettings",
            "fetchSourceBreakdown", "fetchTopLinks", "fetchWebPushSubscriberCount",
            "getCurrentSyncJob", "searchEvents"}),
        AdminHeader,
        AdminCalendarsCard,
        AdminSyncColumn,
        AdminEventsSettings,
        AdminFeatureFlags,
        AdminTagSettings,
        AdminChannelCard,
        AdminFanOutCard,
        AdminReminderCards,
        AdminPromptCards,
        AdminDigestCards,
        AdminFeatureEmails,
        AdminPanels,
        AdminSheets}

\* pages/AdminEventSchedulePage.tsx
AdminEventSchedulePage ==
    UNION {Calls("any", {"fetchEvent", "fetchEventScheduleEditorAccess"}),
        Calls("editor", {"createAdminEventSchedule", "fetchAdminEventSchedule",
            "fetchOptionalAdminEventSchedule", "republishEventSchedule", "unpublishEventSchedule"}),
        Shows("any", {"PreviewDialog"}),
        Opens("editor", {"ConfigEditor", "OverviewItemEditor", "ProgramExportPanel",
            "ProgramNotifyDialog", "PublishDialog", "SessionEditor", "SettingsPanel",
            "VisibilityDialog"}),
        Links("any", {"/admin", "/event/:eventId/program"})}
SettingsPanel ==
    UNION {Calls("any", {"fetchAdminEventSchedule", "updateAdminEventSchedule"}),
        Shows("any", {"PlannerRoster", "ScheduleImportPanel"}),
        Shows("admin", {"DeleteProgramSection", "ProgramEditorsPanel"})}
DeleteProgramSection == Calls("any", {"deleteEventSchedule"})
ProgramEditorsPanel ==
    Calls("any", {"addScheduleEditor", "fetchAdminUsers", "fetchScheduleEditors",
            "removeScheduleEditor"})
PlannerRoster == Calls("any", {"fetchSchedulePlanners"})
ScheduleImportPanel ==
    Calls("any", {"applyScheduleImport", "exportEventSchedule", "fetchScheduleImportSchema",
            "previewScheduleImport"})
SessionEditor ==
    Calls("any", {"createScheduleSession", "deleteScheduleSession", "duplicateScheduleSession",
            "updateScheduleSession"})
OverviewItemEditor ==
    Calls("any", {"createScheduleOverviewItem", "deleteScheduleOverviewItem",
            "updateScheduleOverviewItem"})
ConfigEditor ==
    Calls("any", {"createScheduleActivityType", "createScheduleContributor",
            "createScheduleLevel", "createScheduleRoom", "createScheduleVenue",
            "deleteScheduleActivityType", "deleteScheduleContributor", "deleteScheduleLevel",
            "deleteScheduleRoom", "deleteScheduleVenue", "updateScheduleActivityType",
            "updateScheduleContributor", "updateScheduleLevel", "updateScheduleRoom",
            "updateScheduleVenue"})
PublishDialog ==
    Calls("any", {"fetchProgramNotifyCandidates", "fetchSchedulePublishPreview",
            "notifyProgram", "publishEventSchedule", "revertScheduleChange"})
ProgramNotifyDialog == Calls("any", {"fetchProgramNotifyCandidates", "notifyProgram"})
VisibilityDialog == Calls("any", {"fetchProgramNotifyCandidates", "notifyProgram"})
PreviewDialog == Links("any", {"/event/:eventId/program"})
===============================================================================
