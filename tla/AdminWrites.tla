----------------------------- MODULE AdminWrites ------------------------------
(***************************************************************************)
(* The handlers of the other admin screens and of the program editor, one  *)
(* definition each, named Component_handler.  PageWrites explains what a   *)
(* handler is made of.                                                     *)
(***************************************************************************)
EXTENDS PageWrites, ApiCalls

AdminAssetPromptSendNow_handleSend ==
    Write({sendAssetPromptNow}, "whole", FALSE, "reload", "tell", "always")
AdminAutoTagSuggestions_runEngine ==
    Write({TagSuggestionApi.runTagSuggestionsForEvent}, "whole", FALSE, "reload",
          "tell", "always")
AdminAutoTagSuggestions_handleApprove ==
    Write({TagSuggestionApi.approveTagSuggestion}, "whole", FALSE, "apply", "tell",
          "always")
AdminAutoTagSuggestions_handleReject ==
    Write({TagSuggestionApi.rejectTagSuggestion}, "whole", FALSE, "apply", "tell",
          "always")
AdminAutoTagSuggestions_handleApproveAll ==
    Write({TagSuggestionApi.bulkReviewTagSuggestions}, "whole", FALSE, "apply",
          "tell", "always")
AdminAutoTagSuggestions_handleRejectAll ==
    Write({TagSuggestionApi.bulkReviewTagSuggestions}, "whole", FALSE, "apply",
          "tell", "always")
AdminEventDetailPanel_handleScanDuplicates ==
    Write({DuplicateApi.scanEventDuplicates}, "whole", FALSE, "apply", "tell", "always")
AdminEventDetailPanel_handleFlagDuplicate ==
    Write({DuplicateApi.flagEventsAsDuplicates}, "whole", FALSE, "reload", "tell",
          "always")
AdminEventDetailPanel_handleFieldSave ==
    Write({CurationAndImageApi.updateEvent, ModerationApi.updateAdminEventDraft},
          "none", FALSE, "apply", "escape", "always")
AdminEventDetailPanel_handleHide ==
    Write({CurationAndImageApi.updateEvent}, "whole", FALSE, "apply", "escape", "always")
AdminEventDetailPanel_handleUnhide ==
    Write({CurationAndImageApi.updateEvent}, "whole", FALSE, "apply", "escape", "always")
AdminEventDetailPanel_handlePublish ==
    Write({CurationAndImageApi.updateEvent}, "whole", FALSE, "reload", "tell", "always")
AdminEventDetailPanel_handleConfirmStatus ==
    Write({ModerationApi.setAdminEventStatus, SuggestionReviewApi.rejectSuggestion},
          "whole", FALSE, "reload", "tell",
    "always")
AdminEventDetailPanel_handleKeepDuplicate ==
    Write({DuplicateApi.keepDuplicateEvent}, "row", FALSE, "apply", "escape", "always")
AdminEventDetailPanel_handleDismissDuplicateGroup ==
    Write({DuplicateApi.dismissDuplicateGroup}, "row", FALSE, "apply", "escape", "always")
AdminEventDetailPanel_handleRemoveFromSeries ==
    Write({MergeAndSeriesApi.splitSeriesMember}, "whole", FALSE, "apply", "escape",
          "always")
AdminEventDetailPanel_handleAddToSeries ==
    Write({MergeAndSeriesApi.addEventsToSeries}, "whole", FALSE, "apply", "escape",
          "always")
AdminEventOrganizerField_save ==
    Write({OrganizerClaimApi.adminSetEventOrganizer}, "whole", FALSE, "apply",
          "tell", "always")
AdminEventPromoCodes_approve ==
    Write({ShareAndPromoCodeApi.approveAdminPromoCode}, "row", FALSE, "apply",
          "tell", "always")
AdminEventPromoCodes_reject ==
    Write({AdminPromoCodeApi.rejectAdminPromoCode}, "row", FALSE, "apply", "tell",
          "always")
AdminEventPromoCodes_saveEdit ==
    Write({AdminPromoCodeApi.updateAdminPromoCode}, "row", FALSE, "apply", "tell",
          "always")
AdminEventPromoCodes_saveNew ==
    Write({AdminPromoCodeApi.createAdminPromoCode}, "whole", FALSE, "apply", "tell",
          "always")
AdminMockSourceEditor_save ==
    Write({AdminChangeApi.editMockSourceEvent}, "whole", FALSE, "apply", "tell", "always")
AdminMockSourceEditor_remove ==
    Write({AdminChangeApi.deleteMockSourceEvent}, "whole", FALSE, "apply", "tell",
          "always")
AdminOrganizerSheet_save ==
    Write({OrganizerClaimApi.adminUpdateUserOrganizer}, "whole", FALSE, "reload",
          "tell", "always")
AdminPeopleDiscoverySettings_toggle ==
    Write({SettingsApi.updateSettings}, "none", TRUE, "leave", "undo", "always")
AdminPeopleDiscoverySettings_save ==
    Write({SettingsApi.updateSettings}, "none", TRUE, "leave", "tell", "always")
AdminPeopleDiscoverySettings_runPrompt ==
    Write({forcePeoplePrompt}, "whole", FALSE, "apply", "tell", "always")
AdminPeopleDiscoverySettings_runJoined ==
    Write({forcePeopleJoined}, "whole", FALSE, "apply", "tell", "always")
AdminReviewHomePromptSettings_toggle ==
    Write({SettingsApi.updateSettings}, "none", TRUE, "leave", "undo", "always")
AdminReviewHomePromptSettings_save ==
    Write({SettingsApi.updateSettings}, "none", TRUE, "leave", "tell", "always")
AdminTagCategories_handleAddGroup ==
    Write({TagCategoryApi.createTagGroup}, "none", FALSE, "reload", "escape", "always")
AdminTagCategories_handleColorChange ==
    Write({TagCategoryApi.updateTagGroup}, "none", TRUE, "leave", "escape", "always")
AdminTagCategories_handleToggleGroup ==
    Write({TagCategoryApi.updateTagGroup}, "none", TRUE, "leave", "escape", "always")
AdminTagCategories_handleToggleOnboardingEligible ==
    Write({TagCategoryApi.updateTagGroup}, "none", TRUE, "leave", "escape", "always")
AdminTagCategories_handleToggleTag ==
    Write({TagCategoryApi.updateTag}, "none", TRUE, "leave", "escape", "always")
AdminTagCategories_handleTogglePolarity ==
    Write({TagCategoryApi.updateTag}, "none", TRUE, "leave", "escape", "always")
AdminTagCategories_handleConditionSave ==
    Write({TagCategoryApi.updateTagGroup}, "none", TRUE, "leave", "escape", "always")
AdminTagCategories_handleToggleHero ==
    Write({TagCategoryApi.updateTag}, "none", TRUE, "leave", "escape", "always")
AdminTagCategories_handleGroupLabelSave ==
    Write({TagCategoryApi.updateTagGroup}, "none", FALSE, "reload", "escape", "always")
AdminTagCategories_handleTagLabelSave ==
    Write({TagCategoryApi.updateTag}, "none", FALSE, "reload", "escape", "always")
AdminTagCategories_handleAddTag ==
    Write({TagCategoryApi.createTag}, "none", FALSE, "reload", "escape", "always")
AdminTagCategories_persistGroupOrder ==
    Write({TagCategoryApi.updateTagGroup}, "none", TRUE, "leave", "reload", "always")
AdminTagCategories_handleMoveTag ==
    Write({TagCategoryApi.updateTag}, "none", TRUE, "reload", "reload", "always")
AdminTagCategories_handleReorderTag ==
    Write({TagCategoryApi.updateTag}, "none", TRUE, "leave", "reload", "always")
AdminTagCategories_handleSetParent ==
    Write({TagCategoryApi.updateTag}, "none", TRUE, "leave", "reload", "always")
AdminTagCategories_handleSetShortLabel ==
    Write({TagCategoryApi.updateTag}, "none", TRUE, "leave", "reload", "always")
AdminTagCategories_confirmDeleteTag ==
    Write({TagCategoryApi.deleteTag}, "none", TRUE, "leave", "reload", "always")
AdminUsersTab_onToggleManaged ==
    Write({AccountSettingsApi.adminSetAdminManaged}, "row", FALSE, "reload", "tell",
          "always")
AdminUsersTab_onToggleForceInstall ==
    Write({AdminPeopleApi.adminSetForceInstallPrompt}, "row", FALSE, "reload",
          "tell", "always")
AdminUsersTab_onToggleForceEnablePush ==
    Write({AdminPeopleApi.adminSetForceEnablePush}, "row", FALSE, "reload", "tell",
          "always")
AdminUsersTab_onResetOnboarding ==
    Write({AdminPeopleApi.adminResetOnboarding}, "row", FALSE, "reload", "tell", "always")
AdminUsersTab_onSendInstallEmail ==
    Write({AdminPeopleApi.adminSendInstallEmail}, "row", FALSE, "leave", "tell", "always")
AdminUsersTab_saveManagedPrompt ==
    Write({AccountSettingsApi.adminSetAdminManaged}, "row", FALSE, "reload", "tell",
          "always")
AdminUsersTab_onMerge == Write({AccountSettingsApi.adminMergeUsers}, "row", FALSE,
                               "reload", "tell", "always")
AdminUsersTab_confirmDelete ==
    Write({AdminPeopleApi.adminDeleteUser}, "row", FALSE, "reload", "tell", "always")
AdminUsersTab_saveBlockPrompt ==
    Write({AdminPeopleApi.adminBlockUser}, "row", FALSE, "reload", "tell", "always")
AdminUsersTab_confirmUnblock ==
    Write({AdminPeopleApi.adminRevokeUserBlock}, "row", FALSE, "reload", "tell", "always")
CalendarCurationRulesPanel_handleAdd ==
    Write({CurationAndImageApi.createCalendarCurationRule}, "whole", FALSE, "apply",
          "tell", "always")
CalendarCurationRulesPanel_handleToggle ==
    Write({CurationAndImageApi.updateCalendarCurationRule}, "none", FALSE, "apply",
          "tell", "always")
CalendarCurationRulesPanel_handleDelete ==
    Write({CurationAndImageApi.deleteCalendarCurationRule}, "none", FALSE, "apply",
          "tell", "always")
DuplicatesPanel_scanNow ==
    Write({OrganizerClaimApi.triggerDuplicateScan}, "whole", FALSE, "reload", "tell",
          "always")
DuplicatesPanel_keep == Write({DuplicateApi.keepDuplicateEvent}, "row", FALSE,
                              "apply", "tell", "always")
DuplicatesPanel_dismiss ==
    Write({DuplicateApi.dismissDuplicateGroup}, "row", FALSE, "apply", "tell", "always")
EventImageEditor_handleFileChange ==
    Write({CurationAndImageApi.uploadEventImage}, "whole", FALSE, "apply", "tell",
          "always")
EventImageEditor_handleImport ==
    Write({CurationAndImageApi.setEventImageFromUrl}, "whole", FALSE, "apply",
          "tell", "always")
EventTagEditor_save == Write({TagSuggestionApi.updateEventTags}, "whole", FALSE,
                             "reload", "hide", "always")
EventsPanel_handleBulkAssignTags ==
    Write({AdminEventsApi.bulkAssignTags}, "whole", FALSE, "reload", "tell", "always")
EventsPanel_handleBulkCurate ==
    Write({adminBulkEngagement}, "whole", FALSE, "leave", "tell", "always")
EventsPanel_handleBulkReview ==
    Write({AdminEventsApi.bulkReviewEvents}, "whole", FALSE, "reload", "tell", "always")
EventsPanel_handleBulkRetryGeo ==
    Write({AdminEventsApi.bulkRetryGeocoding}, "whole", FALSE, "reload", "tell", "always")
EventsPanel_handleBulkFlagDuplicates ==
    Write({DuplicateApi.flagEventsAsDuplicates}, "whole", FALSE, "apply", "tell",
          "always")
EventsPanel_handleKeepDuplicate ==
    Write({DuplicateApi.keepDuplicateEvent}, "whole", FALSE, "reload", "tell", "always")
EventsPanel_handleDismissDuplicate ==
    Write({DuplicateApi.dismissDuplicateGroup}, "whole", FALSE, "apply", "tell", "always")
EventsPanel_handleConfirmGroupAsSeries ==
    Write({MergeAndSeriesApi.groupEventsAsSeries}, "whole", FALSE, "apply", "tell",
          "always")
EventsPanel_handleApproveInlineSeries ==
    Write({MergeAndSeriesApi.approveSeriesGroup}, "whole", FALSE, "apply", "tell",
          "always")
EventsPanel_handleDismissInlineSeries ==
    Write({MergeAndSeriesApi.dismissSeriesGroup}, "whole", FALSE, "apply", "tell",
          "always")
EventsPanel_handleSplitInlineSeries ==
    Write({MergeAndSeriesApi.splitSeriesMember}, "whole", FALSE, "apply", "tell",
          "always")
EventsPanel_handleAddToSeries ==
    Write({MergeAndSeriesApi.addEventsToSeries}, "whole", FALSE, "apply", "tell",
          "always")
EventsPanel_handleBulkSuggestTags ==
    Write({TagSuggestionApi.runTagSuggestionsBulk}, "whole", FALSE, "leave", "tell",
          "always")
EventsPanel_handleSingleReview ==
    Write({AdminChangeApi.reviewEvent}, "none", FALSE, "reload", "tell", "always")
InlineTagsPicker_handleChange ==
    Write({TagSuggestionApi.updateEventTags}, "none", TRUE, "reload", "restore", "always")
JobDetailDrawer_handleRetry ==
    Write({SyncJobApi.retryCalendarInJob}, "row", FALSE, "leave", "tell", "always")
MergeEventsDialog_submit == Write({MergeAndSeriesApi.mergeEvents}, "whole", FALSE,
                                  "apply", "tell", "always")
OrganizerClaimsAdminPanel_decide ==
    Write({OrganizerClaimApi.decideOrganizerClaim}, "whole", FALSE, "apply", "tell",
          "always")
PromoCodesAdminPanel_approve ==
    Write({ShareAndPromoCodeApi.approveAdminPromoCode}, "row", FALSE, "apply",
          "tell", "always")
PromoCodesAdminPanel_reject ==
    Write({AdminPromoCodeApi.rejectAdminPromoCode}, "row", FALSE, "apply", "tell",
          "always")
RatingReviewModal_handleApprove ==
    Write({ShareAndPromoCodeApi.approveRating}, "whole", FALSE, "apply", "tell", "always")
RatingReviewModal_handleReject ==
    Write({ShareAndPromoCodeApi.rejectRating}, "whole", FALSE, "apply", "tell", "always")
RatingReviewModal_handleApproveSuggestion ==
    Write({TagSuggestionApi.approveTagSuggestion}, "none", FALSE, "apply", "tell",
          "always")
RatingReviewModal_handleRejectSuggestion ==
    Write({TagSuggestionApi.rejectTagSuggestion}, "none", FALSE, "apply", "tell",
          "always")
ReviewPanel_decide == Write({AdminChangeApi.decideAdminChange}, "whole", FALSE,
                            "reload", "tell", "always")
SeriesDetailPanel_saveTitle ==
    Write({SeriesTitleApi.renameSeries}, "whole", FALSE, "apply", "tell", "always")
SeriesDetailPanel_approve ==
    Write({MergeAndSeriesApi.approveSeriesGroup}, "whole", FALSE, "apply", "tell",
          "always")
SeriesDetailPanel_dismiss ==
    Write({MergeAndSeriesApi.dismissSeriesGroup}, "whole", FALSE, "apply", "tell",
          "always")
SeriesDetailPanel_remove ==
    Write({MergeAndSeriesApi.splitSeriesMember}, "whole", FALSE, "apply", "tell",
          "always")
SeriesDetailPanel_addMember ==
    Write({MergeAndSeriesApi.addEventsToSeries}, "whole", FALSE, "apply", "tell",
          "always")
SeriesDetectionSettingsForm_save ==
    Write({MergeAndSeriesApi.updateSeriesDetectionSettings}, "whole", FALSE, "apply",
          "tell", "always")
SeriesPanel_scanNow ==
    Write({MergeAndSeriesApi.triggerSeriesScan}, "whole", FALSE, "reload", "tell",
          "always")
SeriesPanel_approve == Write({MergeAndSeriesApi.approveSeriesGroup}, "row", FALSE,
                             "apply", "tell", "always")
SeriesPanel_dismiss == Write({MergeAndSeriesApi.dismissSeriesGroup}, "row", FALSE,
                             "apply", "tell", "always")
SeriesPanel_split == Write({MergeAndSeriesApi.splitSeriesMember}, "row", FALSE,
                           "apply", "tell", "always")
SubmissionDetails_handleSync ==
    Write({SuggestionReviewApi.syncSuggestionToGoogle}, "whole", FALSE, "apply",
          "tell", "always")
SyncJobPanel_handleAbort ==
    Write({SyncJobApi.abortSyncJob}, "whole", FALSE, "reload", "hide", "always")
SyncProgressCard_handleAbort ==
    Write({SyncJobApi.abortSyncJob}, "whole", FALSE, "reload", "hide", "always")
TagSuggestionReviewModal_handleReject ==
    Write({TagSuggestionApi.rejectTagSuggestion}, "whole", FALSE, "apply", "tell",
          "always")
TagSuggestionsPanel_handleQuickApprove ==
    Write({TagSuggestionApi.approveTagSuggestion}, "whole", FALSE, "apply", "reload",
          "always")
TagSuggestionsPanel_handleQuickReject ==
    Write({TagSuggestionApi.rejectTagSuggestion}, "whole", FALSE, "apply", "reload",
          "always")
TagSuggestionsPanel_handleBulk ==
    Write({TagSuggestionApi.bulkReviewTagSuggestions}, "whole", FALSE, "reload",
          "reload", "always")
TagSuggestionsPanel_handleRunOnUpcoming ==
    Write({TagSuggestionApi.runTagSuggestionsBulk}, "whole", FALSE, "reload", "tell",
          "always")
TagSynonymsEditor_handleAdd ==
    Write({TagSynonymApi.createTagSynonym}, "whole", FALSE, "apply", "tell", "always")
TagSynonymsEditor_handleRemove ==
    Write({TagSynonymApi.deleteTagSynonym}, "none", TRUE, "leave", "restore", "always")
UnsyncedSuggestionsPanel_handleSync ==
    Write({SuggestionReviewApi.syncSuggestionToGoogle}, "whole", FALSE, "apply",
          "tell", "always")
EventDetailPage_handleFieldSave ==
    Write({CurationAndImageApi.updateEvent}, "none", FALSE, "apply", "escape", "always")
EventDetailPage_handleTitleBlur ==
    Write({CurationAndImageApi.updateEvent}, "whole", FALSE, "apply", "escape", "always")
AdminEventSchedulePage_changeVisibility ==
    Write({ProgramPublishApi.unpublishEventSchedule,
          ProgramPublishApi.republishEventSchedule}, "none", FALSE, "reload",
    "escape", "always")
AdminEventSchedulePage_createSchedule ==
    Write({ProgramEditorApi.createAdminEventSchedule}, "none", FALSE, "apply",
          "tell", "always")
AdminEventSchedulePage_persist ==
    Write({ProgramEditorApi.updateAdminEventSchedule}, "whole", FALSE, "apply",
          "tell", "always")
AdminEventSchedulePage_remove ==
    Write({ProgramPublishApi.deleteEventSchedule}, "whole", FALSE, "reload", "tell",
          "always")
AdminEventSchedulePage_addEditor ==
    Write({ProgramEditorsApi.addScheduleEditor}, "row", FALSE, "apply", "tell", "always")
AdminEventSchedulePage_removeEditor ==
    Write({ProgramEditorsApi.removeScheduleEditor}, "row", FALSE, "apply", "tell",
          "always")
AdminEventSchedulePage_runPreview ==
    Write({ProgramExchangeApi.previewScheduleImport}, "whole", FALSE, "apply",
          "tell", "always")
AdminEventSchedulePage_apply ==
    Write({ProgramExchangeApi.applyScheduleImport}, "whole", FALSE, "reload", "tell",
          "always")
AdminEventSchedulePage_submitSession ==
    Write({ProgramItemApi.updateScheduleSession,
          ProgramItemApi.createScheduleSession}, "whole", FALSE, "reload", "tell",
    "always")
AdminEventSchedulePage_removeSession ==
    Write({ProgramItemApi.deleteScheduleSession}, "none", FALSE, "reload", "tell",
          "always")
AdminEventSchedulePage_duplicateSession ==
    Write({ProgramItemApi.duplicateScheduleSession}, "none", FALSE, "reload", "tell",
          "always")
AdminEventSchedulePage_submitOverviewItem ==
    Write({ProgramItemApi.updateScheduleOverviewItem,
          ProgramItemApi.createScheduleOverviewItem}, "whole", FALSE,
    "reload", "tell", "always")
AdminEventSchedulePage_removeOverviewItem ==
    Write({ProgramItemApi.deleteScheduleOverviewItem}, "none", FALSE, "reload",
          "tell", "always")
AdminEventSchedulePage_saveConfig ==
    Write({ProgramEditorApi.updateScheduleVenue,
          ProgramEditorApi.createScheduleVenue, ProgramEditorApi.updateScheduleRoom,
          ProgramEditorApi.createScheduleRoom,
    ProgramEditorApi.updateScheduleLevel, ProgramEditorApi.createScheduleLevel,
    ProgramEditorApi.updateScheduleActivityType,
    ProgramEditorApi.createScheduleActivityType,
    ProgramItemApi.updateScheduleContributor, ProgramEditorApi.createScheduleContributor},
    "none", FALSE, "reload", "tell", "always")
AdminEventSchedulePage_removeConfig ==
    Write({ProgramEditorApi.deleteScheduleVenue, ProgramEditorApi.deleteScheduleRoom,
          ProgramEditorApi.deleteScheduleLevel,
    ProgramEditorApi.deleteScheduleActivityType,
    ProgramItemApi.deleteScheduleContributor}, "none", FALSE, "reload", "tell",
    "always")
AdminEventSchedulePage_revert ==
    Write({ProgramExchangeApi.revertScheduleChange}, "row", FALSE, "apply", "tell",
          "always")
AdminEventSchedulePage_publish ==
    Saga(<<{publishEventSchedule}, {ProgramEditorApi.fetchAdminEventSchedule},
         {ProgramPublishApi.notifyProgram}>>, <<1, 3,
    3>>, "whole", FALSE, "reload", "tell", "always")
AdminEventSchedulePage_send ==
    Write({ProgramPublishApi.notifyProgram}, "whole", FALSE, "leave", "tell", "always")
AdminEventSchedulePage_confirm ==
    Saga(<<{ProgramPublishApi.unpublishEventSchedule,
         ProgramPublishApi.republishEventSchedule},
         {ProgramEditorApi.fetchAdminEventSchedule},
    {ProgramPublishApi.notifyProgram}>>, <<1, 1, 3>>, "whole", FALSE, "reload",
    "tell", "always")
ProgramExportPanel_runDownload ==
    Write({ProgramExchangeApi.downloadPublishedProgramExport}, "whole", FALSE,
          "leave", "tell", "always")
AdminEventDetailContent_saveField ==
    Write({ModerationApi.updateAdminEventDraft, CurationAndImageApi.updateEvent},
          "whole", FALSE, "apply", "tell", "always")
AdminEventDetailPanel_handleTitleBlur ==
    Write({ModerationApi.updateAdminEventDraft, CurationAndImageApi.updateEvent},
          "whole", FALSE, "apply", "escape", "always")
AdminEventModerationSection_run ==
    Write({SuggestionReviewApi.updateSuggestion,
          SuggestionReviewApi.rejectSuggestion, CurationAndImageApi.updateEvent,
          SuggestionReviewApi.approveSuggestion,
    ModerationApi.publishAdminEventDraft, ModerationApi.discardAdminEventDraft,
    ModerationApi.applyEventRevision,
    ModerationApi.discardEventRevision, ModerationApi.revertEventRevision}, "whole",
    FALSE, "reload", "tell", "always")
TagSuggestionReviewModal_handleApprove ==
    Saga(<<{TagCategoryApi.createTag}, {TagSuggestionApi.approveTagSuggestion}>>,
         <<1, 1>>, "whole", FALSE, "apply", "tell",
    "always")

\* Every handler above.
WritesOfAdmins ==
    {AdminAssetPromptSendNow_handleSend, AdminAutoTagSuggestions_runEngine,
     AdminAutoTagSuggestions_handleApprove, AdminAutoTagSuggestions_handleReject,
     AdminAutoTagSuggestions_handleApproveAll,
     AdminAutoTagSuggestions_handleRejectAll,
     AdminEventDetailPanel_handleScanDuplicates,
     AdminEventDetailPanel_handleFlagDuplicate,
     AdminEventDetailPanel_handleFieldSave, AdminEventDetailPanel_handleHide,
     AdminEventDetailPanel_handleUnhide, AdminEventDetailPanel_handlePublish,
     AdminEventDetailPanel_handleConfirmStatus,
     AdminEventDetailPanel_handleKeepDuplicate,
     AdminEventDetailPanel_handleDismissDuplicateGroup,
     AdminEventDetailPanel_handleRemoveFromSeries,
     AdminEventDetailPanel_handleAddToSeries, AdminEventOrganizerField_save,
     AdminEventPromoCodes_approve, AdminEventPromoCodes_reject,
     AdminEventPromoCodes_saveEdit, AdminEventPromoCodes_saveNew,
     AdminMockSourceEditor_save, AdminMockSourceEditor_remove,
     AdminOrganizerSheet_save, AdminPeopleDiscoverySettings_toggle,
     AdminPeopleDiscoverySettings_save, AdminPeopleDiscoverySettings_runPrompt,
     AdminPeopleDiscoverySettings_runJoined,
     AdminReviewHomePromptSettings_toggle, AdminReviewHomePromptSettings_save,
     AdminTagCategories_handleAddGroup, AdminTagCategories_handleColorChange,
     AdminTagCategories_handleToggleGroup,
     AdminTagCategories_handleToggleOnboardingEligible,
     AdminTagCategories_handleToggleTag, AdminTagCategories_handleTogglePolarity,
     AdminTagCategories_handleConditionSave, AdminTagCategories_handleToggleHero,
     AdminTagCategories_handleGroupLabelSave,
     AdminTagCategories_handleTagLabelSave, AdminTagCategories_handleAddTag,
     AdminTagCategories_persistGroupOrder, AdminTagCategories_handleMoveTag,
     AdminTagCategories_handleReorderTag, AdminTagCategories_handleSetParent,
     AdminTagCategories_handleSetShortLabel, AdminTagCategories_confirmDeleteTag,
     AdminUsersTab_onToggleManaged, AdminUsersTab_onToggleForceInstall,
     AdminUsersTab_onToggleForceEnablePush, AdminUsersTab_onResetOnboarding,
     AdminUsersTab_onSendInstallEmail, AdminUsersTab_saveManagedPrompt,
     AdminUsersTab_onMerge, AdminUsersTab_confirmDelete,
     AdminUsersTab_saveBlockPrompt, AdminUsersTab_confirmUnblock,
     CalendarCurationRulesPanel_handleAdd,
     CalendarCurationRulesPanel_handleToggle,
     CalendarCurationRulesPanel_handleDelete, DuplicatesPanel_scanNow,
     DuplicatesPanel_keep, DuplicatesPanel_dismiss,
     EventImageEditor_handleFileChange, EventImageEditor_handleImport,
     EventTagEditor_save, EventsPanel_handleBulkAssignTags,
     EventsPanel_handleBulkCurate, EventsPanel_handleBulkReview,
     EventsPanel_handleBulkRetryGeo, EventsPanel_handleBulkFlagDuplicates,
     EventsPanel_handleKeepDuplicate, EventsPanel_handleDismissDuplicate,
     EventsPanel_handleConfirmGroupAsSeries,
     EventsPanel_handleApproveInlineSeries,
     EventsPanel_handleDismissInlineSeries, EventsPanel_handleSplitInlineSeries,
     EventsPanel_handleAddToSeries, EventsPanel_handleBulkSuggestTags,
     EventsPanel_handleSingleReview, InlineTagsPicker_handleChange,
     JobDetailDrawer_handleRetry, MergeEventsDialog_submit,
     OrganizerClaimsAdminPanel_decide, PromoCodesAdminPanel_approve,
     PromoCodesAdminPanel_reject, RatingReviewModal_handleApprove,
     RatingReviewModal_handleReject, RatingReviewModal_handleApproveSuggestion,
     RatingReviewModal_handleRejectSuggestion, ReviewPanel_decide,
     SeriesDetailPanel_saveTitle, SeriesDetailPanel_approve,
     SeriesDetailPanel_dismiss, SeriesDetailPanel_remove,
     SeriesDetailPanel_addMember, SeriesDetectionSettingsForm_save,
     SeriesPanel_scanNow, SeriesPanel_approve, SeriesPanel_dismiss,
     SeriesPanel_split, SubmissionDetails_handleSync, SyncJobPanel_handleAbort,
     SyncProgressCard_handleAbort, TagSuggestionReviewModal_handleReject,
     TagSuggestionsPanel_handleQuickApprove,
     TagSuggestionsPanel_handleQuickReject, TagSuggestionsPanel_handleBulk,
     TagSuggestionsPanel_handleRunOnUpcoming, TagSynonymsEditor_handleAdd,
     TagSynonymsEditor_handleRemove, UnsyncedSuggestionsPanel_handleSync,
     EventDetailPage_handleFieldSave, EventDetailPage_handleTitleBlur,
     AdminEventSchedulePage_changeVisibility,
     AdminEventSchedulePage_createSchedule, AdminEventSchedulePage_persist,
     AdminEventSchedulePage_remove, AdminEventSchedulePage_addEditor,
     AdminEventSchedulePage_removeEditor, AdminEventSchedulePage_runPreview,
     AdminEventSchedulePage_apply, AdminEventSchedulePage_submitSession,
     AdminEventSchedulePage_removeSession,
     AdminEventSchedulePage_duplicateSession,
     AdminEventSchedulePage_submitOverviewItem,
     AdminEventSchedulePage_removeOverviewItem,
     AdminEventSchedulePage_saveConfig, AdminEventSchedulePage_removeConfig,
     AdminEventSchedulePage_revert, AdminEventSchedulePage_publish,
     AdminEventSchedulePage_send, AdminEventSchedulePage_confirm,
     ProgramExportPanel_runDownload, AdminEventDetailContent_saveField,
     AdminEventDetailPanel_handleTitleBlur, AdminEventModerationSection_run,
     TagSuggestionReviewModal_handleApprove}
===============================================================================
