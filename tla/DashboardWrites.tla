--------------------------- MODULE DashboardWrites ----------------------------
(***************************************************************************)
(* The handlers of pages/Admin.tsx, the admin dashboard: calendars, syncs and *)
(* every setting of the app, one record per block of that file.  PageWrites *)
(* explains what a handler is made of.                                     *)
(***************************************************************************)
EXTENDS PageWrites, ApiCalls

\* A setting shown at once and turned back when the server refuses it.
SettingUndone ==
    Write({SettingsApi.updateSettings}, "none", TRUE, "leave", "undo", "always")

\* A setting shown at once whose refusal is only told.
SettingTold ==
    Write({SettingsApi.updateSettings}, "none", TRUE, "leave", "tell", "always")

\* An edit of a calendar: shown once the server has taken it.
CalendarEdit ==
    Write({CalendarApi.updateCalendar}, "none", FALSE, "apply", "escape", "always")

\* Mails the digest at once.
SendNow ==
    [send |-> Write({sendDigestNow}, "whole", FALSE, "leave", "tell", "always")]

\* Calendars, their default tags, and the sync job.
CalendarHandlers ==
    [handleToggle |-> CalendarEdit, handleToggleShowEvents |-> CalendarEdit,
     handleColorChange |-> CalendarEdit, handleNameSave |-> CalendarEdit,
     handleToggleDefaultTag |->
         Write({RatingApi.updateCalendarDefaultTags}, "none", TRUE, "leave",
               "restore", "always"),
     handleDiscover |->
         Write({CalendarApi.discoverCalendars}, "whole", FALSE, "reload", "tell",
               "always"),
     handleAddCalendar |->
         Write({CalendarApi.addCalendar}, "whole", FALSE, "reload", "tell", "always"),
     handleSync |->
         Write({SyncJobApi.startSyncJob}, "whole", FALSE, "apply", "tell", "always"),
     handleLogout |->
         Write({SessionApi.logout}, "none", FALSE, "leave", "escape", "always")]

\* Settings of the sync, prices, ratings and badges.
SyncSettings ==
    [handleSinceDateSave |->
         Write({SettingsApi.updateSettings}, "whole", FALSE, "apply", "tell", "always"),
     handleSyncSinceDateChange |->
         Write({SettingsApi.updateSettings}, "none", TRUE, "apply", "restore", "always"),
     handleSyncIntervalSave |->
         Write({SettingsApi.updateSettings}, "whole", FALSE, "apply", "tell", "always"),
     handleToggleAutoSync |-> SettingUndone,
     handleAutoSyncModeChange |-> SettingUndone,
     handleTogglePrices |-> SettingUndone, handleToggleRatings |-> SettingUndone,
     handlePopularityThresholdChange |-> SettingTold,
     handleToggleFollowingBadge |-> SettingUndone,
     handleToggleUnseenState |-> SettingUndone]

\* Settings of trending, navigation and sign-in.
BrowseSettings ==
    [handleToggleTrending |-> SettingUndone,
     handleToggleTrendingBanner |-> SettingUndone,
     handleToggleTrendingTrailCollapsedDefault |-> SettingUndone,
     handleToggleNetworkGoingSnapshot |-> SettingUndone,
     handleToggleMyEventsRoute |-> SettingUndone,
     handleToggleMyEventsNav |-> SettingUndone,
     handleToggleBrowseNav |-> SettingUndone,
     handleToggleBrowseDirectToExplorer |-> SettingUndone,
     handleToggleAppAuthGate |-> SettingUndone,
     handleToggleGuestActionsRequireSignin |-> SettingUndone,
     handleToggleOnboardingProfileStep |-> SettingUndone]

\* Settings of the event cards.
CardSettings ==
    [handleToggleEventCardSaveShowStats |-> SettingUndone,
     handleToggleEventCardImgoingShowStats |-> SettingUndone,
     handleToggleRsvpPeopleSheet |-> SettingUndone,
     handleToggleGeoapify |-> SettingUndone,
     handleToggleEventCardImgoingLocationBottom |-> SettingUndone,
     handleToggleEventCardShowPeopleIcon |-> SettingUndone,
     handleToggleEventCardShowTimeLocationIcons |-> SettingUndone,
     handleToggleExplorerEventCardCardStyle |-> SettingUndone,
     handleToggleExplorerCardTitleTop |-> SettingUndone,
     handleToggleExplorerCardSaveBottom |-> SettingUndone,
     handleToggleExplorerViewControlLabels |-> SettingUndone,
     handleToggleMapPopupHover |-> SettingUndone]

\* Settings of an event's page, assets and program.
EventSettings ==
    [handleToggleSummaryTwoLine |-> SettingUndone,
     handleToggleEventImages |-> SettingUndone,
     handleToggleEventAssetFeature |-> SettingUndone,
     handleEventAssetLimitChange |-> SettingTold,
     handleToggleEventAssetPrompt |-> SettingUndone,
     handleChangePlaceholderStyle |-> SettingUndone,
     handleTogglePromoCodes |-> SettingUndone,
     handleToggleShowPendingEvents |-> SettingUndone,
     handleToggleOrganizerClaims |-> SettingUndone,
     handleToggleEventSchedule |-> SettingUndone,
     handleToggleProgramGridAttendeePreview |-> SettingUndone,
     handleTrendingWindowDaysChange |-> SettingTold]

\* Settings of lists, colours and reminders.
ListSettings ==
    [handleTrendingFloorGoingChange |-> SettingTold,
     handleTrendingTopNChange |-> SettingTold,
     handleTrendingTopPercentChange |-> SettingTold,
     handleExplorerListPageSizeChange |-> SettingTold,
     handleAnonHorizonDaysChange |-> SettingTold,
     handleTagSortModeChange |-> SettingUndone,
     handleDefaultExplorerPeriodChange |-> SettingUndone,
     handleGoingButtonIconVariantChange |-> SettingUndone,
     handleEventColorBarColorChange |-> SettingUndone,
     handleToggleReminders |-> SettingUndone,
     handleToggleActivityEmail |-> SettingUndone,
     handleToggleDigestV2 |-> SettingUndone]

\* Settings of the digest and of the channels.
DigestSettings ==
    [handleDigestPerKindCapChange |-> SettingUndone,
     handleDigestMaxItemsChange |-> SettingUndone,
     handleToggleInterestMatchNotifs |-> SettingUndone,
     handleToggleMilestoneNotifications |-> SettingUndone,
     handleToggleWebpush |-> SettingUndone,
     handleReminderLeadHoursChange |-> SettingUndone,
     handleEventMessageCtaMinGoingChange |-> SettingUndone,
     handleDigestScheduleChange |-> SettingUndone,
     handleInterestPushScheduleChange |-> SettingUndone,
     handleChannelChange |->
         Write({SettingsApi.updateSettings}, "none", TRUE, "leave", "restore", "always")]

\* Settings of reviews, and sends by hand.
ReviewSettings ==
    [handleToggleReviewPrompt |-> SettingUndone,
     handleToggleEventReviewSizeStep |-> SettingUndone,
     handleReviewPromptDelayHoursChange |-> SettingUndone,
     handleReviewPromptLookbackHoursChange |-> SettingUndone,
     handleForYouReviewWindowDaysChange |-> SettingUndone,
     handleReviewMoodMinReviewsChange |-> SettingUndone,
     handleInterestMatchMaxEventsChange |-> SettingUndone,
     handlePreviewInterestMatches |->
         Write({previewInterestMatches}, "whole", FALSE, "apply", "tell", "always"),
     handleForceSendInterestMatches |->
         Write({forceSendInterestMatches}, "whole", FALSE, "leave", "tell", "always")]

\* Sends the review prompts at once.
RunReviewPrompt ==
    [runReviewPromptNow |->
         Write({sendReviewPromptNow}, "whole", FALSE, "apply", "tell", "always")]

\* The handlers of a block.
HandlersOf(block) == {block[h] : h \in DOMAIN block}

\* Every handler above.
WritesOfDashboard ==
    UNION {HandlersOf(SendNow),
           HandlersOf(CalendarHandlers),
           HandlersOf(SyncSettings),
           HandlersOf(BrowseSettings),
           HandlersOf(CardSettings),
           HandlersOf(EventSettings),
           HandlersOf(ListSettings),
           HandlersOf(DigestSettings),
           HandlersOf(ReviewSettings),
           HandlersOf(RunReviewPrompt)}
===============================================================================
