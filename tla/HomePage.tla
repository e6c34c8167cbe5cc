------------------------------ MODULE HomePage ------------------------------
(* The handlers of routes/home/+page.svelte, panel by panel, and what its   *)
(* markup offers.                                                           *)
EXTENDS Handlers

-----------------------------------------------------------------------------
(* The project form: create, edit, send for review, resubmit.               *)

FormVars ==
    {"creatingProject", "editingProject", "approved", "queued", "shippable",
     "reviewProject", "checks", "reviewSubmitted", "resubmitText", "resubmitLoading",
     "editingProjectReviews", "editingProjectReviewsLoading", "editingProjectQueue"}

resetForm == [Local EXCEPT !.clears = FormVars]

fetchProjects == [Read EXCEPT !.after.ok.sets = {"projects"}]

openCreateProject ==
    [Local EXCEPT !.needs = {"canCreateProjects"}, !.clears = FormVars, !.sets = {"creatingProject"}]

fetchSubmissionWindow ==
    [Read EXCEPT !.after = Or("open", [Eff EXCEPT !.sets = {"canCreateProjects"}])]

(* The status decides which form opens and whether it may be shipped.       *)
openEditProject(status) ==
    [Local EXCEPT !.of = "it", !.clears = FormVars, !.sets = status,
                  !.takes = {"editingProject"},
                  !.starts = <<"fetchProjectReviews">> \o
                             (IF "queued" \in status THEN <<"fetchProjectQueue">> ELSE <<>>)]

fetchProjectReviews ==
    [Read EXCEPT !.of = "it", !.clears = {"editingProjectReviews"},
                 !.sets = {"editingProjectReviewsLoading"},
                 !.after.ok.takes = {"editingProjectReviews"},
                 !.ends = {"editingProjectReviewsLoading"}]

fetchProjectQueue ==
    [Read EXCEPT !.of = "it", !.clears = {"editingProjectQueue"},
                 !.after.ok.takes = {"editingProjectQueue"}]

(* The files are read first; which project is saved is looked up after.     *)
submitProject ==
    [Once EXCEPT !.bars = {"submitting"}, !.sets = {"submitting"}, !.ends = {"submitting"},
                 !.after.ok.then = "saveProject"]

saveProject ==
    [Once EXCEPT !.after.ok.clears = FormVars, !.after.ok.also = <<"fetchProjects">>]

(* Both ways to ship ask first whether the builder can be shipped prizes; a *)
(* network error does not stop them, a missing address does.                *)
checkShippingEligibility(next) ==
    [ok |-> [Eff EXCEPT !.then = next], refused |-> [Eff EXCEPT !.then = next],
     lost |-> [Eff EXCEPT !.then = next],
     ineligible |-> [Eff EXCEPT !.sets = {"showShippingPrompt"}]]

submitForReview ==
    [Once EXCEPT !.of = "editingProject", !.needs = {"shippable"}, !.bars = {"submitting"},
                 !.sets = {"submitting"}, !.ends = {"submitting"},
                 !.after = checkShippingEligibility("saveForReview")]

saveForReview ==
    [Once EXCEPT !.of = "editingProject",
                 !.after.ok = [Eff EXCEPT !.takes = {"reviewProject"},
                                          !.clears = {"editingProject", "creatingProject"},
                                          !.also = <<"fetchProjects">>]]

confirmReview ==
    [Once EXCEPT !.of = "reviewProject", !.needs = {"checks"}, !.bars = {"submitting"},
                 !.sets = {"submitting"}, !.derefs = {"reviewProject"},
                 !.ends = {"submitting"},
                 !.after.ok = [Eff EXCEPT !.sets = {"reviewSubmitted"},
                                          !.clears = {"reviewProject"},
                                          !.also = <<"fetchProjects">>]]

resubmitProject ==
    [Once EXCEPT !.of = "editingProject", !.needs = {"resubmitText", "shippable"},
                 !.bars = {"resubmitLoading"}, !.sets = {"resubmitLoading"},
                 !.ends = {"resubmitLoading"},
                 !.after = checkShippingEligibility("saveResubmission")]

(* The form is reset after reviewSubmitted is raised, which lowers it again. *)
saveResubmission ==
    [Once EXCEPT !.of = "editingProject", !.derefs = {"editingProject"},
                 !.after.ok = [Eff EXCEPT !.clears = FormVars, !.also = <<"fetchProjects">>]]

(* After a confirm(); nothing keeps the button down while it is sent.       *)
convertToDraft ==
    [Again EXCEPT !.of = "editingProject", !.after.ok.clears = FormVars,
                  !.after.ok.also = <<"fetchProjects">>]
deleteProject ==
    [Again EXCEPT !.of = "editingProject", !.after.ok.clears = FormVars,
                  !.after.ok.also = <<"fetchProjects">>]

(* A deadline passes while the form is open.                                *)
canShipProject == [Local EXCEPT !.clears = {"shippable"}]

FormRows ==
    [resetForm |-> resetForm, fetchProjects |-> fetchProjects,
     fetchSubmissionWindow |-> fetchSubmissionWindow, openCreateProject |-> openCreateProject,
     openApproved |-> openEditProject({"approved", "shippable"}),
     openQueued |-> openEditProject({"queued"}),
     openSentBack |-> openEditProject({"shippable"}),
     fetchProjectReviews |-> fetchProjectReviews, fetchProjectQueue |-> fetchProjectQueue,
     submitProject |-> submitProject, saveProject |-> saveProject,
     submitForReview |-> submitForReview, saveForReview |-> saveForReview,
     tickChecks |-> [Local EXCEPT !.sets = {"checks"}], confirmReview |-> confirmReview,
     writeResubmission |-> [Local EXCEPT !.sets = {"resubmitText"}],
     resubmitProject |-> resubmitProject, saveResubmission |-> saveResubmission,
     convertToDraft |-> convertToDraft, deleteProject |-> deleteProject,
     canShipProject |-> canShipProject,
     closeShippingPrompt |-> [Local EXCEPT !.clears = {"showShippingPrompt"}]]

NoForm == {"creatingProject", "editingProject", "reviewProject"}

ApprovedMarkup ==
    LET open == {"editingProject", "approved"} IN
    [resetForm |-> Offer(open, {}),
     canShipProject |-> Offer({"shippable"}, {}),
     writeResubmission |-> Offer(open \cup {"shippable"}, {}),
     resubmitProject |-> Offer(open \cup {"shippable", "resubmitText"}, {"resubmitLoading"})]

EditMarkup ==
    LET edits == Offer({"editingProject"}, {"approved"}) IN
    [resetForm |-> Offer({"creatingProject"}, {}) \cup edits,
     convertToDraft |-> Offer({"editingProject", "queued"}, {}),
     deleteProject |-> edits,
     submitProject |-> Offer({"creatingProject"}, {"submitting"})
                       \cup Offer({"editingProject"}, {"approved", "queued", "submitting"}),
     submitForReview |-> Offer({"editingProject", "shippable"},
                               {"approved", "queued", "submitting"})]

ReviewMarkup ==
    [resetForm |-> Offer({"reviewProject"}, {}) \cup Offer({"reviewSubmitted"}, {}),
     tickChecks |-> Offer({"reviewProject"}, {}),
     confirmReview |-> Offer({"reviewProject", "checks"}, {"submitting"}),
     closeShippingPrompt |-> Offer({"showShippingPrompt"}, {})]

ProjectsMarkup ==
    [h \in {"openApproved", "openQueued", "openSentBack"} |-> Offer({"projects"}, NoForm)]
    @@ [openCreateProject |-> Offer({}, NoForm)]

FormPanel ==
    [rows |-> FormRows,
     offers |-> Offers(<<ApprovedMarkup, EditMarkup, ReviewMarkup, ProjectsMarkup>>),
     mount |-> <<"fetchProjects", "fetchSubmissionWindow">>,
     shows |-> {<<"editingProjectReviews", "editingProject", "">>,
                <<"editingProjectQueue", "editingProject", "">>}]

-----------------------------------------------------------------------------
(* The shop: items, the buyer's orders, the certificate question.           *)

(* Loaded once: the reloads after a purchase or a refund return at once.    *)
fetchShopItems ==
    [Read EXCEPT !.bars = {"shopLoaded"}, !.sets = {"shopLoading"}, !.ends = {"shopLoading"},
                 !.after.ok.sets = {"shopLoaded", "shopItems"},
                 !.after.refused.sets = {"shopLoaded"}]

openShopItem == [Local EXCEPT !.of = "it", !.takes = {"selectedShopItem"}]
closeShopItem == [Local EXCEPT !.clears = {"selectedShopItem"}]

openNotePrompt ==
    [Local EXCEPT !.of = "selectedShopItem", !.bars = {"purchaseLoading"},
                  !.sets = {"notePromptOpen"}]

(* The item's name is looked up after the answer: an item closed meanwhile  *)
(* turns a purchase that went through into a "network error".               *)
purchaseItem ==
    [Once EXCEPT !.of = "selectedShopItem", !.bars = {"purchaseLoading"},
                 !.clears = {"purchaseSuccess"}, !.sets = {"purchaseLoading"},
                 !.early = {"notePromptOpen"}, !.derefs = {"selectedShopItem"},
                 !.ends = {"purchaseLoading"},
                 !.after.ok = [Eff EXCEPT !.sets = {"purchaseSuccess"},
                     !.also = <<"fetchShopItems", "fetchUserOrders", "closeAfterPurchase">>]]

(* Two seconds after a purchase whatever item is open then is closed.       *)
closeAfterPurchase ==
    [Timer EXCEPT !.after.ok.clears = {"selectedShopItem", "purchaseSuccess"}]

(* An open question stays while its order is listed and unanswered.         *)
fetchUserOrders ==
    [Read EXCEPT !.sets = {"userOrdersLoading"}, !.ends = {"userOrdersLoading"},
                 !.after = [o \in {"ok", "asks", "none", "refused", "lost"} |->
                     [Eff EXCEPT !.sets = IF o \in {"refused", "lost"} THEN {} ELSE {"userOrders"},
                                 !.gives = IF o = "asks" THEN {"certificatePromptOrder"} ELSE {},
                                 !.clears = IF o = "none" THEN {"certificatePromptOrder"} ELSE {}]]]

openCertificatePrompt == [Local EXCEPT !.of = "it", !.takes = {"certificatePromptOrder"}]

(* The next fulfilled order nobody asked about follows the one answered.    *)
answerCertificatePrompt ==
    [Once EXCEPT !.of = "certificatePromptOrder", !.bars = {"certificatePromptLoading"},
                 !.sets = {"certificatePromptLoading"}, !.ends = {"certificatePromptLoading"},
                 !.derefs = {"certificatePromptOrder"},
                 !.after = [o \in {"ok", "next", "refused", "lost"} |->
                     [Eff EXCEPT !.clears = IF o = "ok" THEN {"certificatePromptOrder"} ELSE {},
                                 !.gives = IF o = "next" THEN {"certificatePromptOrder"} ELSE {}]]]

refundOrder ==
    [Once EXCEPT !.of = "it", !.bars = {"refundingOrderId"}, !.takes = {"refundingOrderId"},
                 !.ends = {"refundingOrderId"}, !.after.ok.also = <<"fetchShopItems">>]

(* A section's data is loaded when it is entered; its modals live in it.    *)
loadSectionData(section, loads) == [Local EXCEPT !.sets = {section}, !.starts = loads]
navigate(section) == [Local EXCEPT !.clears = {section}]

ShopRows ==
    [fetchShopItems |-> fetchShopItems, openShopItem |-> openShopItem,
     closeShopItem |-> closeShopItem, openNotePrompt |-> openNotePrompt,
     closeNotePrompt |-> [Local EXCEPT !.clears = {"notePromptOpen"}],
     purchaseItem |-> purchaseItem, closeAfterPurchase |-> closeAfterPurchase,
     fetchUserOrders |-> fetchUserOrders, openCertificatePrompt |-> openCertificatePrompt,
     answerCertificatePrompt |-> answerCertificatePrompt, refundOrder |-> refundOrder,
     enterShop |-> loadSectionData("shop", <<"fetchShopItems", "fetchUserOrders">>),
     leaveShop |-> navigate("shop")]

ShelfMarkup ==
    [enterShop |-> Offer({}, {"shop"}), leaveShop |-> Offer({"shop"}, {}),
     openShopItem |-> Offer({"shop", "shopItems"}, {"shopLoading"})]

OrdersMarkup ==
    [refundOrder |-> OfferEach({"shop", "userOrders"}, {}, {"refundingOrderId"}),
     openCertificatePrompt |-> Offer({"shop", "userOrders"}, {})]

ItemMarkup ==
    LET item == {"shop", "selectedShopItem"} IN
    [closeShopItem |-> Offer(item, {}),
     openNotePrompt |-> Offer(item, {"purchaseSuccess", "purchaseLoading"}),
     closeNotePrompt |-> Offer(item \cup {"notePromptOpen"}, {"purchaseLoading"}),
     purchaseItem |-> Offer(item \cup {"notePromptOpen"}, {"purchaseLoading"})]

(* The question is inside the shop's section, wherever it was raised.       *)
CertificateMarkup ==
    [answerCertificatePrompt |->
        Offer({"shop", "certificatePromptOrder"}, {"certificatePromptLoading"})]

ShopPanel ==
    [rows |-> ShopRows,
     offers |-> Offers(<<ShelfMarkup, OrdersMarkup, ItemMarkup, CertificateMarkup>>),
     mount |-> <<"fetchUserOrders">>, shows |-> {}]

-----------------------------------------------------------------------------
(* Shop suggestions: a vote shows at once and is taken back if it fails.    *)

openSuggestions ==
    [Read EXCEPT !.sets = {"suggestionsOpen", "suggestionsLoading"},
                 !.ends = {"suggestionsLoading"}, !.after.ok.sets = {"suggestions"}]
closeSuggestions == [Local EXCEPT !.clears = {"suggestionsOpen", "newSuggestionText"}]
submitSuggestion ==
    [Once EXCEPT !.needs = {"newSuggestionText"}, !.bars = {"suggestionSubmitting"},
                 !.sets = {"suggestionSubmitting"}, !.ends = {"suggestionSubmitting"},
                 !.after.ok = [Eff EXCEPT !.clears = {"newSuggestionText"},
                                          !.then = "listSuggestions"]]
listSuggestions == [Read EXCEPT !.after.ok.sets = {"suggestions"}]
toggleSuggestionVote ==
    [Again EXCEPT !.of = "it", !.takes = {"votedByUser"}, !.after.refused.clears = {"votedByUser"},
                  !.after.lost.clears = {"votedByUser"}]
deleteSuggestion == [Again EXCEPT !.of = "it"]

SuggestionsMarkup ==
    LET open == {"suggestionsOpen"}
        list == Offer(open \cup {"suggestions"}, {"suggestionsLoading"}) IN
    [openSuggestions |-> Always, closeSuggestions |-> Offer(open, {}),
     writeSuggestion |-> Offer(open, {"suggestionSubmitting"}),
     submitSuggestion |-> Offer(open \cup {"newSuggestionText"}, {"suggestionSubmitting"}),
     toggleSuggestionVote |-> list, deleteSuggestion |-> list]

SuggestionsPanel ==
    [rows |-> [openSuggestions |-> openSuggestions, closeSuggestions |-> closeSuggestions,
               writeSuggestion |-> [Local EXCEPT !.sets = {"newSuggestionText"}],
               submitSuggestion |-> submitSuggestion, listSuggestions |-> listSuggestions,
               toggleSuggestionVote |-> toggleSuggestionVote,
               deleteSuggestion |-> deleteSuggestion],
     offers |-> SuggestionsMarkup, mount |-> <<>>, shows |-> {}]

-----------------------------------------------------------------------------
(* Explore: other builders' projects, one of them open with its comments.   *)

fetchExploreProjects ==
    [Read EXCEPT !.sets = {"exploreLoading"}, !.ends = {"exploreLoading"},
                 !.after.ok.sets = {"exploreProjects"}]

(* Project and comments are fetched together; either may be refused.        *)
openProjectDetail ==
    [Read EXCEPT !.of = "it", !.clears = {"detailProject", "detailComments"},
                 !.sets = {"detailLoading", "detailCommentsLoading"},
                 !.ends = {"detailLoading", "detailCommentsLoading"},
                 !.after = [o \in {"ok", "noProject", "noComments", "refused", "lost"} |->
                     [Eff EXCEPT !.takes =
                         (IF o \in {"ok", "noComments"} THEN {"detailProject"} ELSE {}) \cup
                         (IF o \in {"ok", "noProject"} THEN {"detailComments"} ELSE {})]]]
closeProjectDetail == [Local EXCEPT !.clears = {"detailProject", "detailComments"}]

submitComment ==
    [Once EXCEPT !.of = "detailProject", !.bars = {"detailCommentSubmitting"},
                 !.sets = {"detailCommentSubmitting"}, !.ends = {"detailCommentSubmitting"},
                 !.after.ok.then = "refreshComments"]
refreshComments ==
    [Read EXCEPT !.of = "detailProject", !.after.ok.takes = {"detailComments"}]
deleteComment == [Again EXCEPT !.of = "detailProject"]

ExploreMarkup ==
    [openProjectDetail |-> Offer({"exploreProjects"}, {"exploreLoading"})]
DetailMarkup ==
    [closeProjectDetail |-> Offer({"detailProject"}, {}),
     submitComment |-> Offer({"detailProject"}, {"detailCommentSubmitting"}),
     deleteComment |-> Offer({"detailProject", "detailComments"}, {"detailCommentsLoading"})]

ExplorePanel ==
    [rows |-> [fetchExploreProjects |-> fetchExploreProjects,
               openProjectDetail |-> openProjectDetail, closeProjectDetail |-> closeProjectDetail,
               submitComment |-> submitComment, refreshComments |-> refreshComments,
               deleteComment |-> deleteComment],
     offers |-> Offers(<<ExploreMarkup, DetailMarkup>>), mount |-> <<"fetchExploreProjects">>,
     shows |-> {<<"detailComments", "detailProject", "">>}]

-----------------------------------------------------------------------------
(* Devlogs: written for a project, with a timelapse recorded for it.        *)

fetchDevlogs ==
    [Read EXCEPT !.sets = {"devlogsLoading"}, !.ends = {"devlogsLoading"},
                 !.after.ok.sets = {"devlogs"}]

(* An effect of the project picked: its timelapses, one chosen by default.  *)
fetchDevlogLookoutSessions ==
    [Read EXCEPT !.of = "it", !.sets = {"devlogLookoutSessionsLoading"},
                 !.ends = {"devlogLookoutSessionsLoading"},
                 !.after = [o \in {"ok", "none", "refused", "lost"} |->
                     [Eff EXCEPT
                         !.takes = IF o = "ok" THEN {"devlogLookoutSessions", "devlogLookoutSessionId"}
                                   ELSE IF o = "none" THEN {"devlogLookoutSessions"} ELSE {},
                         !.clears = IF o = "ok" THEN {}
                                    ELSE {"devlogLookoutSessionId", "devlogLookoutSessions"}]]]

pickDevlogProject ==
    [Local EXCEPT !.of = "it", !.takes = {"devlogProjectId"},
                  !.starts = <<"fetchDevlogLookoutSessions">>]

(* The recorder is another program: the draft waits in sessionStorage.      *)
startDevlogRecording ==
    [Once EXCEPT !.of = "devlogProjectId", !.sets = {"devlogLookoutBusy"},
                 !.ends = {"devlogLookoutBusy"},
                 !.after.ok.takes = {"devlogLookoutSessionId"}]
restoreDevlogDraft ==
    [Local EXCEPT !.of = "it", !.sets = {"devlogFormOpen"},
                  !.takes = {"devlogProjectId", "devlogLookoutSessionId"}]

chooseDevlogSession ==
    [Local EXCEPT !.of = "devlogLookoutSessions", !.takes = {"devlogLookoutSessionId"},
                  !.clears = {"lookoutPickerOpen"}]

resetDevlogForm ==
    [Local EXCEPT !.clears = {"devlogProjectId", "devlogLookoutSessionId",
                              "devlogLookoutSessions", "devlogLookoutSessionsLoading",
                              "devlogFormOpen"}]

(* The images are read first; project and timelapse are looked up after.    *)
submitDevlog ==
    [Once EXCEPT !.of = "devlogProjectId", !.bars = {"devlogSubmitting"},
                 !.sets = {"devlogSubmitting"}, !.ends = {"devlogSubmitting"},
                 !.after.ok.then = "postDevlog"]
postDevlog ==
    [Once EXCEPT !.of = "devlogProjectId",
                 !.after.ok = [Eff EXCEPT !.clears = resetDevlogForm.clears,
                                          !.then = "fetchDevlogs"]]
deleteDevlog == [Again EXCEPT !.of = "it"]

DevlogFormMarkup ==
    [newDevlog |-> Offer({"devlogs"}, {"devlogFormOpen"}),
     pickDevlogProject |-> Offer({"devlogFormOpen"}, {}),
     startDevlogRecording |-> Offer({"devlogFormOpen", "devlogProjectId"}, {"devlogLookoutBusy"}),
     openLookoutPicker |-> Offer({"devlogFormOpen", "devlogLookoutSessions"},
                                 {"devlogLookoutSessionsLoading"}),
     submitDevlog |-> Offer({"devlogFormOpen", "devlogProjectId"}, {"devlogSubmitting"}),
     resetDevlogForm |-> Offer({"devlogFormOpen"}, {})]
DevlogListMarkup == [deleteDevlog |-> Offer({"devlogs"}, {})]
LookoutPickerMarkup ==
    [closeLookoutPicker |-> Offer({"lookoutPickerOpen"}, {}),
     startDevlogRecording |-> Offer({"lookoutPickerOpen", "devlogProjectId"}, {"devlogLookoutBusy"}),
     noDevlogSession |-> Offer({"lookoutPickerOpen"}, {"devlogLookoutSessionsLoading"}),
     chooseDevlogSession |-> Offer({"lookoutPickerOpen"}, {"devlogLookoutSessionsLoading"})]

DevlogPanel(mount) ==
    [rows |-> [fetchDevlogs |-> fetchDevlogs, pickDevlogProject |-> pickDevlogProject,
               fetchDevlogLookoutSessions |-> fetchDevlogLookoutSessions,
               startDevlogRecording |-> startDevlogRecording,
               restoreDevlogDraft |-> restoreDevlogDraft,
               newDevlog |-> [Local EXCEPT !.sets = {"devlogFormOpen"}],
               openLookoutPicker |-> [Local EXCEPT !.sets = {"lookoutPickerOpen"}],
               closeLookoutPicker |-> [Local EXCEPT !.clears = {"lookoutPickerOpen"}],
               chooseDevlogSession |-> chooseDevlogSession,
               noDevlogSession |-> [Local EXCEPT !.clears = {"devlogLookoutSessionId",
                                                             "lookoutPickerOpen"}],
               resetDevlogForm |-> resetDevlogForm, submitDevlog |-> submitDevlog,
               postDevlog |-> postDevlog, deleteDevlog |-> deleteDevlog],
     offers |-> Offers(<<DevlogFormMarkup, DevlogListMarkup, LookoutPickerMarkup>>),
     mount |-> mount,
     shows |-> {<<v, "devlogProjectId", "devlogLookoutSessionsLoading">> :
                    v \in {"devlogLookoutSessions", "devlogLookoutSessionId"}}]

-----------------------------------------------------------------------------
(* The prompt that asks for an address or an identity, and its polling.     *)

(* The attempt is counted first, which arms the next timer beside the       *)
(* request; the sixtieth is the last.                                       *)
scheduleIdentityPoll ==
    [Timer EXCEPT !.kind = "once", !.cancels = {"identityPoll"},
                  !.needs = {"showShippingPrompt", "identityPending"},
                  !.bars = {"identityPollExhausted"},
                  !.after = [ok |-> [Eff EXCEPT !.also = <<"identityPoll", "refreshEligibility">>],
                             capped |-> [Eff EXCEPT !.sets = {"identityPollExhausted"},
                                                    !.also = <<"refreshEligibility">>]]]

refreshShippingEligibility ==
    [Read EXCEPT !.after =
        Or("verified", [Eff EXCEPT !.clears = {"identityPending"}, !.cancels = {"identityPoll"}])
        @@ [Read EXCEPT !.after.ok.also = <<"identityPoll">>].after]

manualIdentityRecheck ==
    [Local EXCEPT !.clears = {"identityPollExhausted"},
                  !.starts = <<"identityPoll", "refreshEligibility">>]

ShippingMarkup ==
    [askEligibility |-> Offer({}, {"showShippingPrompt"}),
     stopIdentityPolling |-> Offer({"showShippingPrompt"}, {}),
     manualIdentityRecheck |-> Offer({"showShippingPrompt", "identityPending",
                                      "identityPollExhausted"}, {})]

IdentityPanel ==
    [rows |-> [askEligibility |-> [Read EXCEPT !.after = Or("ineligible",
                   [Eff EXCEPT !.sets = {"showShippingPrompt", "identityPending"},
                               !.clears = {"identityPollExhausted"}, !.also = <<"identityPoll">>])],
               identityPoll |-> scheduleIdentityPoll,
               refreshEligibility |-> refreshShippingEligibility,
               manualIdentityRecheck |-> manualIdentityRecheck,
               stopIdentityPolling |-> [Local EXCEPT !.clears = {"showShippingPrompt"},
                                                     !.cancels = {"identityPoll"}]],
     offers |-> ShippingMarkup, mount |-> <<>>, shows |-> {}]

-----------------------------------------------------------------------------
(* Leaderboard, account, first-visit question, program-over notice.         *)

fetchLeaderboard ==
    [Read EXCEPT !.sets = {"leaderboardLoading"}, !.ends = {"leaderboardLoading"},
                 !.after.ok.sets = {"leaderboard"}]
(* By offset: two at once would append one page twice.                      *)
loadMoreLeaderboard ==
    [Once EXCEPT !.bars = {"leaderboardLoadingMore"}, !.sets = {"leaderboardLoadingMore"},
                 !.ends = {"leaderboardLoadingMore"}]

saveNickname ==
    [Once EXCEPT !.sets = {"nicknameSaving"}, !.ends = {"nicknameSaving"}]
saveGender == [Once EXCEPT !.sets = {"genderSaving"}, !.ends = {"genderSaving"}]

fetchFulfillmentUpdates ==
    [Read EXCEPT !.sets = {"fulfillmentLoading"}, !.ends = {"fulfillmentLoading"}]
markFulfillmentRead == [Again EXCEPT !.after.ok.clears = {"unreadCount"},
                                     !.after.refused.clears = {"unreadCount"}]
fetchUnreadCount ==
    [Read EXCEPT !.after = [o \in {"ok", "none", "refused", "lost"} |->
        [Eff EXCEPT !.sets = IF o = "ok" THEN {"unreadCount"} ELSE {},
                    !.clears = IF o = "none" THEN {"unreadCount"} ELSE {}]]]

(* The answer is recorded, thanked for, and the overlay fades.              *)
chooseIntent ==
    [Once EXCEPT !.bars = {"intentSaving"}, !.sets = {"intentSaving"}, !.ends = {"intentSaving"},
                 !.after.ok = [Eff EXCEPT !.sets = {"intentThanked"}, !.also = <<"fadeIntent">>]]

LeaderboardMarkup ==
    [loadMoreLeaderboard |-> Offer({"leaderboard"}, {"leaderboardLoading", "leaderboardLoadingMore"})]
MeMarkup ==
    [saveNickname |-> Offer({"me"}, {"nicknameSaving"}), saveGender |-> Offer({"me"}, {"genderSaving"}),
     leaveMe |-> Offer({"me"}, {}), enterMe |-> Offer({}, {"me"})]
ClosedMarkup == [dismissClosed |-> Offer({"programClosedModal"}, {}),
                 openCreateProject |-> Offer({}, {"programClosedModal"})]
IntentMarkup == [chooseIntent |-> Offer({"showIntent"}, {"intentThanked", "intentSaving"})]

LeaderboardPanel ==
    [rows |-> [fetchLeaderboard |-> fetchLeaderboard, loadMoreLeaderboard |-> loadMoreLeaderboard],
     offers |-> LeaderboardMarkup, mount |-> <<"fetchLeaderboard">>, shows |-> {}]
MePanel ==
    [rows |-> [saveNickname |-> saveNickname, saveGender |-> saveGender,
               fetchFulfillmentUpdates |-> fetchFulfillmentUpdates,
               markFulfillmentRead |-> markFulfillmentRead, fetchUnreadCount |-> fetchUnreadCount,
               enterMe |-> loadSectionData("me", <<"fetchFulfillmentUpdates", "markFulfillmentRead">>),
               leaveMe |-> navigate("me")],
     offers |-> MeMarkup, mount |-> <<"fetchUnreadCount">>, shows |-> {}]
NoticePanel ==
    [rows |-> [chooseIntent |-> chooseIntent, askIntent |-> [Local EXCEPT !.sets = {"showIntent"}],
               fadeIntent |-> [Timer EXCEPT !.after.ok.clears = {"showIntent"}],
               fetchSubmissionWindow |-> fetchSubmissionWindow,
               openCreateProject |-> [Local EXCEPT !.bars = {"canCreateProjects"},
                                                   !.sets = {"programClosedModal"}],
               dismissClosed |-> [Local EXCEPT !.clears = {"programClosedModal"}]],
     offers |-> Offers(<<ClosedMarkup, IntentMarkup>>),
     mount |-> <<"askIntent", "fetchSubmissionWindow">>, shows |-> {}]

(* What the page loads once and only shows; the builder's Hackatime names   *)
(* are picked from a list that loads.                                       *)
Feed(list) == [Read EXCEPT !.after.ok.sets = {list}]
fetchHackatimeProjects ==
    [Read EXCEPT !.sets = {"hackatimeLoading"}, !.ends = {"hackatimeLoading"},
                 !.after.ok.sets = {"hackatimeProjects"}]

HackatimeMarkup ==
    [toggleHackatime |-> Offer({}, {"hackatimeOpen"}),
     closeHackatime |-> Offer({"hackatimeOpen"}, {}),
     pickHackatimeProject |-> Offer({"hackatimeOpen", "hackatimeProjects"}, {"hackatimeLoading"})]

FeedsPanel ==
    [rows |-> [fetchAuditLog |-> Feed("auditLog"), fetchNews |-> Feed("newsItems"),
               fetchProjectHours |-> Feed("totalHours"), fetchPipes |-> Feed("userPipes"),
               fetchHackatimeProjects |-> fetchHackatimeProjects,
               toggleHackatime |-> [Local EXCEPT !.sets = {"hackatimeOpen"}],
               closeHackatime |-> [Local EXCEPT !.clears = {"hackatimeOpen"}],
               pickHackatimeProject |-> [Local EXCEPT !.sets = {"hackatimeProject"}]],
     offers |-> HackatimeMarkup,
     mount |-> <<"fetchHackatimeProjects", "fetchAuditLog", "fetchNews", "fetchProjectHours",
                 "fetchPipes">>,
     shows |-> {}]

(* What is loaded when the page is mounted depends on the panel and on      *)
(* whether a devlog's draft waits.                                          *)
HomePanels ==
    [form |-> FormPanel, shop |-> ShopPanel, suggestions |-> SuggestionsPanel,
     explore |-> ExplorePanel, devlogs |-> DevlogPanel(<<"fetchDevlogs">>),
     draft |-> DevlogPanel(<<"restoreDevlogDraft", "fetchDevlogLookoutSessions", "fetchDevlogs">>),
     identity |-> IdentityPanel, leaderboard |-> LeaderboardPanel, me |-> MePanel,
     notices |-> NoticePanel, feeds |-> FeedsPanel]
=============================================================================
