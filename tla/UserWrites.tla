------------------------------ MODULE UserWrites ------------------------------
(***************************************************************************)
(* The handlers of the screens of guests and members, one definition each, *)
(* named Component_handler.  PageWrites explains what a handler is made of. *)
(***************************************************************************)
EXTENDS PageWrites, ApiCalls

AttendeeFollowPill_onClick == Write({FollowApi.followUser}, "whole", FALSE, "apply",
                                    "tell", "always")
AvatarEditor_upload == Write({AssetApi.uploadUserAvatar}, "whole", FALSE, "apply",
                             "tell", "always")
AvatarEditor_remove == Write({AssetApi.deleteUserAvatar}, "whole", FALSE, "apply",
                             "tell", "always")
BioEditor_save == Write({updateMyBio}, "whole", FALSE, "apply", "tell", "always")
CancelEventSheet_send ==
    Write({OwnSuggestionApi.proposeEventChange}, "whole", FALSE, "reload", "tell",
          "always")
EventAssetsSection_runUpload ==
    Write({AssetApi.uploadEventAsset}, "whole", FALSE, "apply", "tell", "always")
EventAssetsSection_saveLink ==
    Write({AssetApi.addEventTicketLink}, "whole", FALSE, "apply", "tell", "always")
EventAssetsSection_confirmDelete ==
    Write({AssetApi.deleteEventAsset}, "none", FALSE, "apply", "tell", "always")
EventAssetsSection_update ==
    Write({AssetApi.updateEventAsset}, "none", FALSE, "apply", "tell", "always")
EventMessagesModal_handlePost ==
    Write({MessageAndPassportApi.postEventMessage}, "whole", FALSE, "reload", "tell",
          "always")
EventMessagesModal_performDelete ==
    Write({MessageAndPassportApi.deleteEventMessage}, "none", FALSE, "reload",
          "tell", "always")
EventPromoCodeDialog_submit ==
    Write({ShareAndPromoCodeApi.submitEventPromoCode,
          ShareAndPromoCodeApi.updateEventPromoCode}, "whole", FALSE, "apply", "tell",
    "always")
EventPromoCodes_remove ==
    Write({ShareAndPromoCodeApi.deleteEventPromoCode}, "whole", FALSE, "apply",
          "tell", "always")
InstallPrompt_enableNotifications ==
    Write({updateNotificationPreferences}, "whole", FALSE, "leave", "tell", "always")
InterestSection_onClick == Write({FollowApi.followUser}, "whole", FALSE, "apply",
                                 "tell", "always")
MenuDrawer_onLogout == Write({SessionApi.logout}, "none", FALSE, "leave", "escape",
                             "always")
MyEventsUtilityMenu_runDownload ==
    Write({SuggestionReviewApi.exportIcs, SuggestionReviewApi.exportXlsx}, "whole",
          FALSE, "leave", "tell", "always")
MyEventsUtilityMenu_createAndShare ==
    Write({ShareTokenApi.createShareToken}, "whole", FALSE, "apply", "tell", "always")
MyEventsUtilityMenu_createAndSubscribe ==
    Write({ShareTokenApi.createShareToken}, "whole", FALSE, "apply", "tell", "always")
MyPlanUtilityMenu_sharePlan ==
    Write({ProgramExchangeApi.createMyPlanShare}, "whole", FALSE, "apply", "tell",
          "always")
MyPlanUtilityMenu_stopSharing ==
    Write({ProgramExchangeApi.revokeMyPlanShare}, "whole", FALSE, "apply", "tell",
          "always")
MySubscribersBadge_confirmRemove ==
    Write({SubscriberApi.removeMySubscriber}, "row", FALSE, "apply", "tell", "always")
NetworkPanel_runRemoveFollower ==
    Write({NetworkApi.removeMyFollower}, "row", FALSE, "reload", "escape", "always")
NetworkPanel_handleFollow == Write({FollowApi.followUser}, "row", FALSE, "apply",
                                   "escape", "always")
NotificationRow_handleApprove ==
    Write({FollowApi.approveFollowRequest}, "whole", FALSE, "apply", "escape", "always")
NotificationRow_handleDecline ==
    Write({FollowApi.declineFollowRequest}, "whole", FALSE, "apply", "escape", "always")
NotificationRow_handleFollowBack ==
    Write({FollowApi.followUser}, "whole", TRUE, "leave", "undo", "always")
NotificationSettings_effect ==
    Write({updateNotificationPreferences}, "whole", FALSE, "reload", "hide", "fail")
NotificationSettings_patchOne ==
    Write({updateNotificationPreferences}, "row", FALSE, "reload", "tell", "always")
NotificationSettings_pauseAll ==
    Write({updateNotificationPreferences}, "whole", FALSE, "reload", "tell", "always")
OrganizerClaimSection_removeEvent ==
    Write({OrganizerClaimApi.removeEventFromClaim}, "none", FALSE, "reload", "tell",
          "always")
OrganizerClaimSection_withdraw ==
    Write({OrganizerClaimApi.cancelOrganizerClaim}, "none", FALSE, "reload", "tell",
          "always")
OrganizerClaimSheet_submit ==
    Write({OrganizerClaimApi.submitOrganizerClaim, OrganizerClaimApi.claimEvents},
          "whole", FALSE, "reload", "tell", "always")
PassportFollowCta_effect == Write({FollowApi.followUser}, "none", FALSE, "apply",
                                  "hide", "always")
PassportFollowCta_handleFollow ==
    Write({FollowApi.followUser}, "whole", FALSE, "apply", "tell", "always")
PeopleYouMayKnowCard_onFollow ==
    Write({FollowApi.followUser}, "row", FALSE, "apply", "escape", "always")
PeopleYouMayKnowCard_onDismiss ==
    Write({PeopleSuggestionApi.dismissSuggestion}, "row", FALSE, "apply", "escape",
          "always")
PushNotificationSettings_toggle ==
    Write({updateNotificationPreferences}, "none", FALSE, "reload", "hide", "always")
RateEventModal_handleSubmit ==
    Write({RatingApi.submitFeedback}, "whole", FALSE, "apply", "tell", "always")
RateEventModal_confirmDelete ==
    Write({RatingApi.deleteMyRating}, "whole", FALSE, "reload", "tell", "always")
RsvpVisibilitySheet_makeDefault ==
    Write({AccountSettingsApi.updateMyVisibility}, "whole", FALSE, "reload", "hide",
          "always")
UserInterestPicker_handleFollow ==
    Write({FollowApi.followUser}, "none", TRUE, "leave", "undo", "always")
VisibilitySection_setAccountVisibility ==
    Write({AccountSettingsApi.updateMyVisibility}, "row", TRUE, "apply", "restore",
          "always")
VisibilitySection_setSuggestionVisibility ==
    Write({AccountSettingsApi.updateMyVisibility}, "row", TRUE, "apply", "restore",
          "always")
VisibilitySection_setPassportVisibility ==
    Write({AccountSettingsApi.updateMyVisibility}, "row", TRUE, "apply", "restore",
          "always")
VisibilitySection_save ==
    Write({AccountSettingsApi.updateMySocialLinks}, "whole", FALSE, "apply", "tell",
          "always")
AuthPanel_handleSendCode ==
    Write({EmailCodeApi.requestEmailCode}, "whole", FALSE, "apply", "tell", "always")
DiscussionThread_submitReply ==
    Write({MessageAndPassportApi.postEventMessage}, "whole", FALSE, "apply", "tell",
          "always")
DiscussionThread_removeMessage ==
    Write({MessageAndPassportApi.deleteEventMessage}, "none", FALSE, "apply", "tell",
          "always")
DiscussionThread_report ==
    Write({MessageAndPassportApi.reportEventMessage}, "none", FALSE, "leave", "tell",
          "always")
NewDiscussionSheet_submit ==
    Write({MessageAndPassportApi.postEventMessage}, "whole", FALSE, "apply", "tell",
          "always")
OnboardingFlow_toggleFollow ==
    Write({FollowApi.followUser, FollowApi.unfollowUser}, "rows", FALSE, "apply",
          "tell", "always")
NotificationsContext_markRead ==
    Write({NotificationApi.markNotificationRead}, "none", TRUE, "leave", "reload",
          "always")
NotificationsContext_markAllRead ==
    Write({NotificationApi.markAllNotificationsRead}, "none", TRUE, "leave",
          "reload", "always")
useEventAssets_upload ==
    Write({AssetApi.uploadEventAsset}, "whole", FALSE, "apply", "tell", "always")
useEventAssets_addLink ==
    Write({AssetApi.addEventTicketLink}, "whole", FALSE, "apply", "tell", "always")
usePush_disable == Write({PushSubscriptionApi.unsubscribePush}, "whole", FALSE,
                         "apply", "tell", "always")
Account_handleProfileSave ==
    Write({PushSubscriptionApi.updateUserProfile}, "whole", FALSE, "reload", "tell",
          "always")
Account_handleSignOut == Write({SessionApi.logout}, "whole", FALSE, "leave",
                               "escape", "always")
DiscoverPeoplePage_followFromSearch ==
    Write({FollowApi.followUser}, "row", FALSE, "apply", "escape", "always")
EventProgramPage_persistPlanAudience ==
    Write({MyPlanApi.updateMyPlanAudience}, "whole", FALSE, "apply", "tell", "always")
EventProgramPage_togglePlan ==
    Write({MyPlanApi.addToMyPlan, MyPlanApi.removeFromMyPlan}, "none", TRUE, "apply",
          "restore", "always")
EventProgramPage_toggleOverviewPlan ==
    Write({MyPlanApi.addOverviewItemToMyPlan,
          MyPlanApi.removeOverviewItemFromMyPlan}, "none", TRUE, "apply",
    "restore", "always")
EventProgramPage_removePlanEntry ==
    Write({MyPlanApi.removeFromMyPlan, MyPlanApi.removeOverviewItemFromMyPlan},
          "none", TRUE, "leave",
    "restore", "always")
MyCalendar_handleExportIcs == Write({SuggestionReviewApi.exportIcs}, "whole", FALSE,
                                    "leave", "hide", "always")
MyCalendar_handleExportXlsx ==
    Write({SuggestionReviewApi.exportXlsx}, "whole", FALSE, "leave", "hide", "always")
MyCalendar_handleSubscribe ==
    Write({ShareTokenApi.createShareToken}, "whole", FALSE, "leave", "hide", "always")
MyCalendar_handleShare ==
    Write({ShareTokenApi.createShareToken}, "whole", FALSE, "leave", "hide", "always")
MySubmissionsPage_withdraw ==
    Write({OwnSuggestionApi.withdrawOwnEventChange}, "row", FALSE, "apply", "escape",
          "always")
OnboardingWizard_handleFollowToggle ==
    Write({FollowApi.followUser, FollowApi.unfollowUser}, "rows", FALSE, "apply",
          "tell", "always")
OnboardingWizard_stampSoftGate ==
    Write({completeOnboarding}, "whole", FALSE, "reload", "hide", "fail")
PassportPage_handleShare ==
    Write({MessageAndPassportApi.createPassportShare}, "whole", FALSE, "apply",
          "tell", "always")
PassportPage_handleRevoke ==
    Write({ShareAndPromoCodeApi.revokePassportShare}, "whole", FALSE, "apply",
          "tell", "always")
PassportPage_save == Write({AccountSettingsApi.updateMyVisibility}, "whole", FALSE,
                           "apply", "tell", "always")
ProfilePage_handleFollowToggle ==
    Write({FollowApi.followUser, FollowApi.unfollowUser}, "whole", FALSE, "apply",
          "tell", "always")
ProfilePage_handleNotifyToggle ==
    Write({PersonalListsApi.setFollowNotify}, "whole", TRUE, "apply", "undo", "always")
ReferralLanding_effect == Write({redeemReferral}, "none", FALSE, "apply", "tell",
                                "always")
EventAssetsSection_toggleNotNeeded ==
    Write({AssetApi.setTicketNotNeeded}, "none", FALSE, "apply", "tell", "always")
EventMessagesModal_handleToggleMute ==
    Write({MessageAndPassportApi.muteEventMessages}, "none", TRUE, "leave", "undo",
          "always")
EventMessagesSection_handleToggleMute ==
    Write({MessageAndPassportApi.muteEventMessages}, "none", TRUE, "leave", "undo",
          "always")
MyPlanUtilityMenu_downloadPlan ==
    Write({ProgramExchangeApi.downloadMyPlanIcs}, "whole", FALSE, "leave", "tell",
          "always")
MyPlanUtilityMenu_changePlanAudience ==
    Write({MyPlanApi.updateMyPlanAudience}, "whole", FALSE, "apply", "tell", "always")
EventAssetViewer_save ==
    Write({AssetApi.updateEventAsset}, "whole", FALSE, "apply", "escape", "always")
InterestProfilesManager_duplicate ==
    Saga(<<{InterestProfileApi.createInterestProfile},
         {InterestProfileApi.fetchInterestProfiles}, {updateUserPreferences}>>, <<1,
    1, 1>>, "whole", FALSE, "apply", "tell", "always")
InterestProfilesManager_confirmAction ==
    Saga(<<{InterestProfileApi.updateInterestProfile,
         AdminInterestApi.deleteInterestProfile},
         {InterestProfileApi.fetchInterestProfiles},
    {updateUserPreferences}>>, <<1, 1, 1>>, "whole", FALSE, "apply", "tell", "always")
NotificationsPanel_handleRowClick ==
    Write({NotificationApi.markNotificationRead}, "none", TRUE, "leave", "hide", "always")
NotificationsPanel_handleMarkAll ==
    Write({NotificationApi.markAllNotificationsRead}, "none", TRUE, "leave", "hide",
          "always")
PreferencesSection_flushTags ==
    Write({updateUserPreferences}, "none", FALSE, "apply", "tell", "always")
PreferencesSection_handleAreaChange ==
    Write({updateUserPreferences}, "none", FALSE, "apply", "tell", "always")
PreferencesSection_commitAreaLabel ==
    Write({updateUserPreferences}, "none", FALSE, "apply", "tell", "always")
PreferencesSection_handleClearAll ==
    Write({updateUserPreferences}, "none", FALSE, "apply", "tell", "always")
ProfileDraftEditor_save ==
    Write({InterestProfileApi.createInterestProfile,
          InterestProfileApi.updateInterestProfile}, "whole", FALSE, "apply", "tell",
    "always")
SearchProfileFlow_handleSaveDraft ==
    Write({InterestProfileApi.createInterestProfile,
          InterestProfileApi.updateInterestProfile}, "none", FALSE, "apply", "tell",
    "always")
SearchProfileFlow_handleDelete ==
    Saga(<<{AdminInterestApi.deleteInterestProfile},
         {InterestProfileApi.fetchInterestProfiles}, {updateUserPreferences}>>, <<1,
    1, 1>>, "whole", FALSE, "apply", "tell", "fail")
SearchProfileFlow_handleUpdateProfile ==
    Write({InterestProfileApi.updateInterestProfile}, "whole", FALSE, "apply",
          "tell", "always")
ShareReferralBanner_accept ==
    Write({redeemReferral, redeemShareFollow}, "whole", FALSE, "reload", "tell", "always")
AuthPanel_handleDevLoginAs ==
    Write({loginWithGoogle}, "none", FALSE, "apply", "tell", "always")
AuthPanel_verifyCode == Write({EmailCodeApi.verifyEmailCode}, "whole", FALSE,
                              "apply", "tell", "always")
OwnSuggestionActions_act ==
    Write({OwnSuggestionApi.withdrawOwnSuggestionChanges,
          OwnSuggestionApi.deleteOwnSuggestion, OwnSuggestionApi.withdrawOwnSuggestion,
    OwnSuggestionApi.requestOwnSuggestionPublic}, "whole", FALSE, "apply", "tell",
    "always")
Account_handleDelete == Write({SessionApi.deleteMyAccount}, "whole", FALSE, "apply",
                              "tell", "fail")
DiscoverPeoplePage_act ==
    Write({FollowApi.followUser, PeopleSuggestionApi.dismissSuggestion}, "row",
          FALSE, "apply", "escape", "always")
usePeopleSuggestions_remove ==
    Write({FollowApi.followUser, PeopleSuggestionApi.dismissSuggestion}, "row",
          FALSE, "apply", "escape", "always")
useEventAssets_run ==
    Write({AssetApi.addEventTicketLink, AssetApi.deleteEventAsset,
          AssetApi.updateEventAsset, AssetApi.setTicketNotNeeded},
    "none", FALSE, "apply", "tell", "always")
useInterestProfiles_createProfile ==
    Saga(<<{InterestProfileApi.createInterestProfile},
         {InterestProfileApi.fetchInterestProfiles}, {updateUserPreferences}>>, <<1,
    1, 1>>, "none", FALSE, "apply", "escape", "always")
useInterestProfiles_updateProfile ==
    Saga(<<{InterestProfileApi.updateInterestProfile}, {updateUserPreferences}>>,
         <<1, 1>>, "none", FALSE,
    "apply", "escape", "always")
useInterestProfiles_deleteProfile ==
    Saga(<<{AdminInterestApi.deleteInterestProfile},
         {InterestProfileApi.fetchInterestProfiles}, {updateUserPreferences}>>, <<1,
    1, 1>>, "none", FALSE, "apply", "escape", "always")
useInterestProfiles_activateProfile ==
    Saga(<<{InterestProfileApi.updateInterestProfile},
         {InterestProfileApi.fetchInterestProfiles}, {updateUserPreferences}>>, <<1,
    1, 1>>, "none", FALSE, "apply", "escape", "always")
OnboardingFlow_saveAll ==
    Saga(<<{PushSubscriptionApi.updateUserProfile}, {updateUserPreferences},
         {InterestProfileApi.createInterestProfile,
    InterestProfileApi.updateInterestProfile},
    {InterestProfileApi.createInterestProfile, InterestProfileApi.updateInterestProfile,
    AdminInterestApi.deleteInterestProfile}, {completeOnboarding},
    {SessionApi.fetchMe}>>, <<1, 1, 1, 1, 1, 1>>,
    "whole", FALSE, "leave", "tell", "always")
SuggestEventWizard_handleSubmit ==
    Saga(<<{OwnSuggestionApi.proposeEventChange},
         {ShareAndPromoCodeApi.submitEventPromoCode}>>, <<1, 1>>, "whole", FALSE,
    "leave", "tell", "always")
OnboardingWizard_saveDefaultProfile ==
    Saga(<<{updateUserPreferences}, {InterestProfileApi.createInterestProfile,
         InterestProfileApi.updateInterestProfile}>>, <<1,
    1>>, "none", FALSE, "leave", "escape", "always")
OnboardingWizard_saveLocalProfile ==
    Saga(<<{updateUserPreferences}, {InterestProfileApi.createInterestProfile}>>,
         <<1, 1>>, "none", FALSE,
    "apply", "escape", "always")
OnboardingWizard_removeLocalProfile ==
    Saga(<<{AdminInterestApi.deleteInterestProfile}, {updateUserPreferences}>>, <<1,
         1>>, "none", FALSE,
    "apply", "hide", "always")
OrganizerClaimSheet_save ==
    Write({updateMyBio, AccountSettingsApi.updateMySocialLinks}, "whole", FALSE,
          "apply", "tell", "always")

\* Every handler above.
WritesOfUsers ==
    {AttendeeFollowPill_onClick, AvatarEditor_upload, AvatarEditor_remove,
     BioEditor_save, CancelEventSheet_send, EventAssetsSection_runUpload,
     EventAssetsSection_saveLink, EventAssetsSection_confirmDelete,
     EventAssetsSection_update, EventMessagesModal_handlePost,
     EventMessagesModal_performDelete, EventPromoCodeDialog_submit,
     EventPromoCodes_remove, InstallPrompt_enableNotifications,
     InterestSection_onClick, MenuDrawer_onLogout,
     MyEventsUtilityMenu_runDownload, MyEventsUtilityMenu_createAndShare,
     MyEventsUtilityMenu_createAndSubscribe, MyPlanUtilityMenu_sharePlan,
     MyPlanUtilityMenu_stopSharing, MySubscribersBadge_confirmRemove,
     NetworkPanel_runRemoveFollower, NetworkPanel_handleFollow,
     NotificationRow_handleApprove, NotificationRow_handleDecline,
     NotificationRow_handleFollowBack, NotificationSettings_effect,
     NotificationSettings_patchOne, NotificationSettings_pauseAll,
     OrganizerClaimSection_removeEvent, OrganizerClaimSection_withdraw,
     OrganizerClaimSheet_submit, PassportFollowCta_effect,
     PassportFollowCta_handleFollow, PeopleYouMayKnowCard_onFollow,
     PeopleYouMayKnowCard_onDismiss, PushNotificationSettings_toggle,
     RateEventModal_handleSubmit, RateEventModal_confirmDelete,
     RsvpVisibilitySheet_makeDefault, UserInterestPicker_handleFollow,
     VisibilitySection_setAccountVisibility,
     VisibilitySection_setSuggestionVisibility,
     VisibilitySection_setPassportVisibility, VisibilitySection_save,
     AuthPanel_handleSendCode, DiscussionThread_submitReply,
     DiscussionThread_removeMessage, DiscussionThread_report,
     NewDiscussionSheet_submit, OnboardingFlow_toggleFollow,
     NotificationsContext_markRead, NotificationsContext_markAllRead,
     useEventAssets_upload, useEventAssets_addLink, usePush_disable,
     Account_handleProfileSave, Account_handleSignOut,
     DiscoverPeoplePage_followFromSearch, EventProgramPage_persistPlanAudience,
     EventProgramPage_togglePlan, EventProgramPage_toggleOverviewPlan,
     EventProgramPage_removePlanEntry, MyCalendar_handleExportIcs,
     MyCalendar_handleExportXlsx, MyCalendar_handleSubscribe,
     MyCalendar_handleShare, MySubmissionsPage_withdraw,
     OnboardingWizard_handleFollowToggle, OnboardingWizard_stampSoftGate,
     PassportPage_handleShare, PassportPage_handleRevoke, PassportPage_save,
     ProfilePage_handleFollowToggle, ProfilePage_handleNotifyToggle,
     ReferralLanding_effect, EventAssetsSection_toggleNotNeeded,
     EventMessagesModal_handleToggleMute, EventMessagesSection_handleToggleMute,
     MyPlanUtilityMenu_downloadPlan, MyPlanUtilityMenu_changePlanAudience,
     EventAssetViewer_save, InterestProfilesManager_duplicate,
     InterestProfilesManager_confirmAction, NotificationsPanel_handleRowClick,
     NotificationsPanel_handleMarkAll, PreferencesSection_flushTags,
     PreferencesSection_handleAreaChange, PreferencesSection_commitAreaLabel,
     PreferencesSection_handleClearAll, ProfileDraftEditor_save,
     SearchProfileFlow_handleSaveDraft, SearchProfileFlow_handleDelete,
     SearchProfileFlow_handleUpdateProfile, ShareReferralBanner_accept,
     AuthPanel_handleDevLoginAs, AuthPanel_verifyCode, OwnSuggestionActions_act,
     Account_handleDelete, DiscoverPeoplePage_act, usePeopleSuggestions_remove,
     useEventAssets_run, useInterestProfiles_createProfile,
     useInterestProfiles_updateProfile, useInterestProfiles_deleteProfile,
     useInterestProfiles_activateProfile, OnboardingFlow_saveAll,
     SuggestEventWizard_handleSubmit, OnboardingWizard_saveDefaultProfile,
     OnboardingWizard_saveLocalProfile, OnboardingWizard_removeLocalProfile,
     OrganizerClaimSheet_save}
===============================================================================
