----------------------------- MODULE AdminPage -----------------------------
(* The handlers of routes/admin/+page.svelte and of the components it       *)
(* opens, tab by tab, and what the markup offers.                           *)
EXTENDS Handlers

-----------------------------------------------------------------------------
(* Projects: the list, the project expanded, its review.                    *)

ReviewVars ==
    {"hackatimeData", "overrideJustification", "userFeedback", "pastReviews",
     "projectDevlogs", "projectLookout", "showAuditEmbed", "auditEmbedProjectId", "auditFrame"}

(* Everything shown of the last project is taken down first.  Hours are     *)
(* loaded for a project that can be reviewed only.  Its timelapses are a    *)
(* component that goes with the project, and empties its list with it.      *)
selectProject(loads) ==
    [Local EXCEPT !.of = "it", !.clears = ReviewVars \cup {"timelapses"}, !.takes = {"expandedProjectId"},
                  !.starts = loads]
deselectProject ==
    [Local EXCEPT !.clears = {"expandedProjectId"} \cup
                             (ReviewVars \ {"pastReviews", "overrideJustification"})
                             \cup {"timelapses", "timelapsesLoading"},
                  !.cancels = {"loadTimelapses"}]

(* A list of the project: any answer but success empties it.                *)
LoadList(list) ==
    [Read EXCEPT !.of = "it", !.after = [o \in {"ok", "refused", "lost"} |->
        IF o = "ok" THEN [Eff EXCEPT !.takes = {list}] ELSE [Eff EXCEPT !.clears = {list}]]]
loadReviews == LoadList("pastReviews")
loadProjectDevlogs == LoadList("projectDevlogs")
loadProjectLookout == LoadList("projectLookout")

(* Whatever the answer, the hours to approve and the justification are      *)
(* written from it.                                                         *)
loadHackatime ==
    [Read EXCEPT !.of = "it", !.sets = {"hackatimeLoading"}, !.ends = {"hackatimeLoading"},
                 !.after = [o \in {"ok", "refused", "lost"} |->
                     [Eff EXCEPT !.takes = {"hackatimeData", "overrideJustification"}]]]

(* The justification is written again from the hours shown.                 *)
adjustHours == [Local EXCEPT !.of = "hackatimeData", !.takes = {"overrideJustification"}]
applyQuickReject == [Local EXCEPT !.sets = {"userFeedback"}]

(* The reviews reloaded after the verdict are those of the project expanded *)
(* then.                                                                    *)
reviewProject ==
    [Once EXCEPT !.of = "expandedProjectId", !.bars = {"reviewSubmitting"},
                 !.sets = {"reviewSubmitting"}, !.ends = {"reviewSubmitting"},
                 !.after.ok.then = "reloadReviews"]
reloadReviews == [loadReviews EXCEPT !.of = "expandedProjectId"]

loadProjects ==
    [Read EXCEPT !.sets = {"projectsLoading"}, !.ends = {"projectsLoading"},
                 !.after.ok = [Eff EXCEPT !.sets = {"allProjects"}, !.also = <<"loadMyClaims">>]]
loadMyClaims ==
    [Read EXCEPT !.sets = {"myClaimsLoading"}, !.ends = {"myClaimsLoading"},
                 !.after.ok.sets = {"myClaims"}]

(* The keys work wherever the page has focus: what the markup hides (the    *)
(* form of a project that is not reviewable) they still offer.              *)
onReviewShortcut ==
    LET open == {"expandedProjectId"} IN
    [reviewProject |-> Offer(open \cup {"overrideJustification"}, {"reviewSubmitting"})
                       \cup Offer(open \cup {"userFeedback"}, {"reviewSubmitting"})
                       \cup Offer(open, {"reviewSubmitting"}),
     deselectProject |-> Offer(open, {}),
     openReviewable |-> Offer({"allProjects"}, {})]

ListMarkup ==
    LET rows == OfferEach({"allProjects"}, {"projectsLoading"}, {"expandedProjectId"}) IN
    [openReviewable |-> rows, openOther |-> rows,
     deselectProject |-> Offer({"allProjects", "expandedProjectId"}, {"projectsLoading"})]

(* From the author's other projects everything is loaded a second time.     *)
OtherProjectsMarkup ==
    [openTwice |-> OfferEach({"expandedProjectId"}, {}, {"expandedProjectId"})]

VerdictMarkup ==
    [applyQuickReject |-> Offer({"expandedProjectId"}, {}),
     adjustHours |-> Offer({"expandedProjectId"}, {}),
     reviewProject |-> Offer({"expandedProjectId", "overrideJustification"}, {"reviewSubmitting"})]

ReviewLoads == <<"loadReviews", "loadHackatime">>
ReviewPanel ==
    [rows |-> [loadProjects |-> loadProjects, loadMyClaims |-> loadMyClaims,
               openReviewable |-> selectProject(ReviewLoads),
               openOther |-> selectProject(<<"loadReviews">>),
               openTwice |-> selectProject(ReviewLoads \o <<"loadReviews">>),
               deselectProject |-> deselectProject, loadReviews |-> loadReviews,
               loadHackatime |-> loadHackatime, reviewProject |-> reviewProject,
               reloadReviews |-> reloadReviews,
               adjustHours |-> adjustHours, applyQuickReject |-> applyQuickReject],
     offers |-> Offers(<<onReviewShortcut, ListMarkup, OtherProjectsMarkup, VerdictMarkup>>),
     mount |-> <<"loadProjects">>,
     shows |-> {<<v, "expandedProjectId", "hackatimeLoading">> :
                    v \in {"hackatimeData", "overrideJustification"}}
               \cup {<<"pastReviews", "expandedProjectId", "">>}]

-----------------------------------------------------------------------------
(* The evidence beside a review: devlogs, timelapses, the audit's frame,    *)
(* the claim, the marks on the author.                                      *)

(* One variable marks the busy row of a list, so starting on a second row   *)
(* gives the first its button back.                                         *)
BusyRow(flag) == [Again EXCEPT !.of = "it", !.takes = {flag}, !.ends = {flag}]

reviewDevlog == [BusyRow("devlogReviewLoading") EXCEPT !.after.ok.then = "reloadHackatime"]
reloadHackatime ==
    [Read EXCEPT !.of = "expandedProjectId", !.after.ok.takes = {"hackatimeData"}]
copyLookoutLink == BusyRow("mirrorLoadingKey")
copyAllDevlogs ==
    [Once EXCEPT !.of = "expandedProjectId", !.sets = {"copyAllDevlogsLoading"},
                 !.ends = {"copyAllDevlogsLoading"}]

toggleMarker ==
    [Once EXCEPT !.of = "expandedProjectId", !.bars = {"markerBusy"}, !.sets = {"markerBusy"},
                 !.ends = {"markerBusy"}]
claimProject == [Again EXCEPT !.of = "expandedProjectId", !.after.ok.also = <<"loadMyClaims">>]
releaseProjectClaim == [Again EXCEPT !.of = "it", !.after.ok.also = <<"loadMyClaims">>,
                                     !.after.refused.also = <<"loadMyClaims">>]

(* The context is minted for the project expanded now and posted into the   *)
(* frame that is there when it comes.                                       *)
openAuditEmbed ==
    [Read EXCEPT !.of = "expandedProjectId", !.clears = {"auditFrame"},
                 !.sets = {"showAuditEmbed"}, !.takes = {"auditEmbedProjectId"},
                 !.derefs = {"showAuditEmbed"}, !.after.ok.takes = {"auditFrame"}]
closeAuditEmbed ==
    [Local EXCEPT !.clears = {"showAuditEmbed", "auditEmbedProjectId", "auditFrame"}]

(* A component of its own: loads when its project changes.                  *)
loadTimelapses ==
    [Read EXCEPT !.of = "it", !.clears = {"timelapses"}, !.sets = {"timelapsesLoading"},
                 !.ends = {"timelapsesLoading"}, !.after.ok.takes = {"timelapses"}]

DevlogsMarkup ==
    LET list == {"expandedProjectId", "projectDevlogs"} IN
    [reviewDevlog |-> OfferEach(list, {}, {"devlogReviewLoading"}),
     copyLookoutLink |-> OfferEach(list, {}, {"mirrorLoadingKey"})
                         \cup OfferEach({"expandedProjectId", "projectLookout"}, {},
                                        {"mirrorLoadingKey"}),
     copyAllDevlogs |-> Offer(list, {"copyAllDevlogsLoading"})]
ClaimMarkup ==
    [claimProject |-> Offer({"expandedProjectId"}, {}),
     releaseProjectClaim |-> Offer({"expandedProjectId"}, {}),
     toggleMarker |-> Offer({"expandedProjectId"}, {"markerBusy"})]
AuditMarkup ==
    [openAuditEmbed |-> Offer({"expandedProjectId"}, {"showAuditEmbed"}),
     closeAuditEmbed |-> Offer({"expandedProjectId", "showAuditEmbed"}, {})]
ClaimsDrawerMarkup ==
    [openClaims |-> Always,
     closeClaims |-> Offer({"claimsDrawerOpen"}, {}),
     releaseProjectClaim |-> Offer({"claimsDrawerOpen", "myClaims"}, {})]

EvidencePanel(parts, loads) ==
    [rows |-> [openReviewable |-> selectProject(loads),
               deselectProject |-> deselectProject, loadProjectDevlogs |-> loadProjectDevlogs,
               loadProjectLookout |-> loadProjectLookout, loadTimelapses |-> loadTimelapses,
               reviewDevlog |-> reviewDevlog, reloadHackatime |-> reloadHackatime,
               copyLookoutLink |-> copyLookoutLink, copyAllDevlogs |-> copyAllDevlogs,
               toggleMarker |-> toggleMarker, claimProject |-> claimProject,
               releaseProjectClaim |-> releaseProjectClaim, loadMyClaims |-> loadMyClaims,
               openClaims |-> [Local EXCEPT !.sets = {"claimsDrawerOpen"},
                                            !.starts = <<"loadMyClaims">>],
               closeClaims |-> [Local EXCEPT !.clears = {"claimsDrawerOpen"}],
               openAuditEmbed |-> openAuditEmbed, closeAuditEmbed |-> closeAuditEmbed],
     offers |-> Offers(<<[openReviewable |-> OfferEach({}, {}, {"expandedProjectId"}),
                          deselectProject |-> Offer({"expandedProjectId"}, {})]>> \o parts),
     mount |-> <<>>,
     shows |-> {<<"projectDevlogs", "expandedProjectId", "">>,
                <<"projectLookout", "expandedProjectId", "">>,
                <<"timelapses", "expandedProjectId", "timelapsesLoading">>,
                <<"auditFrame", "auditEmbedProjectId", "">>}]

-----------------------------------------------------------------------------
(* Users: the list is loaded once for three tabs; one user is open.         *)

loadUsers ==
    [Once EXCEPT !.bars = {"usersLoaded", "usersInflight"}, !.sets = {"loading", "usersInflight"},
                 !.ends = {"loading", "usersInflight"},
                 !.after.ok.sets = {"users", "usersLoaded"}]

selectUser ==
    [Read EXCEPT !.of = "it", !.clears = {"userDetail", "showPermsDropdown"},
                 !.sets = {"detailLoading"}, !.takes = {"selectedUser"},
                 !.ends = {"detailLoading"}, !.after.ok.takes = {"userDetail"}]
reselectUser == [selectUser EXCEPT !.of = "selectedUser"]
closeDetail == [Local EXCEPT !.clears = {"selectedUser", "userDetail", "showPermsDropdown"}]

(* After a confirm(); what is reloaded is the user open when the answer     *)
(* comes.                                                                   *)
ActOnUser(next) ==
    [Once EXCEPT !.of = "selectedUser", !.sets = {"actionLoading"}, !.ends = {"actionLoading"},
                 !.after.ok.then = next]
banUser == ActOnUser("reselectUser")
adjustPipes == ActOnUser("reselectUser")
setIdentityOverride == ActOnUser("reselectUser")
setSubmissionExtension == ActOnUser("reselectUser")
setUnrestrictedAccess == ActOnUser("reselectUser")
updatePerms == [ActOnUser("reselectUser") EXCEPT !.after.ok.clears = {"showPermsDropdown"}]
sendAttendInvite == ActOnUser("")
impersonateUser == ActOnUser("")

UserListMarkup == [selectUser |-> Offer({"users"}, {"loading"}),
                   switchTab |-> Always]
UserMarkup ==
    LET idle == Offer({"selectedUser", "userDetail"}, {"detailLoading", "actionLoading"}) IN
    [h \in {"adjustPipes", "setIdentityOverride"} |-> idle]
    @@ [closeDetail |-> Offer({"selectedUser"}, {})]
ActionsMarkup ==
    LET shown == {"selectedUser", "userDetail"}
        idle  == Offer(shown, {"detailLoading", "actionLoading"}) IN
    [h \in {"banUser", "sendAttendInvite", "impersonateUser", "setSubmissionExtension",
            "setUnrestrictedAccess"} |-> idle]
    @@ [openPermsDropdown |-> idle,
        updatePerms |-> Offer(shown \cup {"showPermsDropdown"}, {"detailLoading", "actionLoading"})]

UsersPanel ==
    [rows |-> [loadUsers |-> loadUsers, selectUser |-> selectUser, reselectUser |-> reselectUser,
               closeDetail |-> closeDetail, banUser |-> banUser, adjustPipes |-> adjustPipes,
               setIdentityOverride |-> setIdentityOverride, sendAttendInvite |-> sendAttendInvite,
               setSubmissionExtension |-> setSubmissionExtension,
               setUnrestrictedAccess |-> setUnrestrictedAccess, updatePerms |-> updatePerms,
               impersonateUser |-> impersonateUser,
               openPermsDropdown |-> [Local EXCEPT !.sets = {"showPermsDropdown"}],
               switchTab |-> [Local EXCEPT !.clears = closeDetail.clears,
                                           !.starts = <<"loadUsers">>]],
     offers |-> Offers(<<UserListMarkup, UserMarkup, ActionsMarkup>>),
     mount |-> <<"loadUsers">>,
     shows |-> {<<"userDetail", "selectedUser", "">>}]

-----------------------------------------------------------------------------
(* News, events, the catalogue: lists edited a row at a time.               *)

LoadAll(flag, list) ==
    [Read EXCEPT !.sets = {flag}, !.ends = {flag}, !.after.ok.sets = {list}]
Saves(of, saving, clears, reload) ==
    [Once EXCEPT !.of = of, !.sets = {saving}, !.ends = {saving},
                 !.after.ok = [Eff EXCEPT !.clears = clears, !.then = reload]]

loadNews == LoadAll("newsLoading", "newsItems")
createNews == [Saves("", "newsSaving", {"newNewsText"}, "loadNews") EXCEPT !.needs = {"newNewsText"}]
saveNewsEdit == Saves("editingNews", "newsSaving", {"editingNews"}, "loadNews")
deleteNews == Saves("it", "newsSaving", {}, "loadNews")

loadEvents == LoadAll("eventsLoading", "eventItems")
createEvent ==
    [Saves("", "eventSaving", {"newEventTitle", "editingEvent"}, "loadEvents") EXCEPT
         !.needs = {"newEventTitle"}]
saveEventEdit ==
    [Saves("editingEvent", "eventSaving", {"editingEvent"}, "loadEvents") EXCEPT
         !.needs = {"newEventTitle"}]
deleteEvent == Saves("it", "eventSaving", {}, "loadEvents")
editEvent == [Local EXCEPT !.of = "it", !.takes = {"editingEvent"}, !.sets = {"newEventTitle"}]
resetEventForm == [Local EXCEPT !.clears = {"editingEvent", "newEventTitle"}]

loadShop == LoadAll("shopLoading", "shopItemsList")
createShopItem ==
    [Saves("", "shopSaving", {"newShopName"}, "loadShop") EXCEPT !.needs = {"newShopName"}]
saveShopEdit == Saves("editingShop", "shopSaving", {"editingShop"}, "loadShop")
deleteShopItem == Saves("it", "shopSaving", {}, "loadShop")
(* The new order shows at once; whether it was saved is not looked at.      *)
handleDrop == [Again EXCEPT !.of = "it", !.clears = {"dragIdx"}]

(* The buyers of one item, in a component that is new, and loads, whenever  *)
(* it is mounted.                                                           *)
openBuyers ==
    [Local EXCEPT !.of = "it", !.clears = {"buyers", "buyersLoading"}, !.takes = {"buyersModalItem"},
                  !.cancels = {"loadBuyers"}, !.starts = <<"loadBuyers">>]
loadBuyers == [Read EXCEPT !.of = "it", !.sets = {"buyersLoading"}, !.ends = {"buyersLoading"},
                           !.after.ok.takes = {"buyers"}]
closeBuyers == [Local EXCEPT !.clears = {"buyersModalItem", "buyers", "buyersLoading"},
                             !.cancels = {"loadBuyers"}]

NewsMarkup ==
    [writeNews |-> Always, createNews |-> Offer({"newNewsText"}, {"newsSaving"}),
     editNews |-> Offer({"newsItems"}, {"newsLoading"}),
     cancelNews |-> Offer({"editingNews", "newsItems"}, {"newsLoading"}),
     saveNewsEdit |-> Offer({"editingNews", "newsItems"}, {"newsLoading", "newsSaving"}),
     deleteNews |-> OfferEach({"newsItems"}, {"newsLoading", "newsSaving"}, {"editingNews"})]
EventsMarkup ==
    LET list == {"eventItems"} IN
    [writeEvent |-> Always,
     createEvent |-> Offer({"newEventTitle"}, {"editingEvent", "eventSaving"}),
     saveEventEdit |-> Offer({"newEventTitle", "editingEvent"}, {"eventSaving"}),
     resetEventForm |-> Offer({"editingEvent"}, {"eventSaving"}),
     editEvent |-> Offer(list, {"eventsLoading"}),
     deleteEvent |-> Offer(list, {"eventsLoading", "eventSaving"})]
NewItemMarkup ==
    [nameItem |-> Always, createShopItem |-> Offer({"newShopName"}, {"shopSaving"})]
CatalogueMarkup ==
    LET list == {"shopItemsList"} IN
    [editShop |-> Offer(list, {"shopLoading"}),
     cancelShop |-> Offer(list \cup {"editingShop"}, {"shopLoading"}),
     saveShopEdit |-> Offer(list \cup {"editingShop"}, {"shopLoading", "shopSaving"}),
     deleteShopItem |-> OfferEach(list, {"shopLoading", "shopSaving"}, {"editingShop"}),
     handleDragStart |-> Offer(list, {"shopLoading"}),
     handleDrop |-> Offer(list \cup {"dragIdx"}, {"shopLoading"}),
     openBuyers |-> OfferEach(list, {"shopLoading", "buyersModalItem"}, {"editingShop"})]
BuyersMarkup == [closeBuyers |-> Offer({"buyersModalItem"}, {})]

NewsPanel ==
    [rows |-> [loadNews |-> loadNews, createNews |-> createNews, saveNewsEdit |-> saveNewsEdit,
               deleteNews |-> deleteNews, writeNews |-> [Local EXCEPT !.sets = {"newNewsText"}],
               editNews |-> [Local EXCEPT !.of = "it", !.takes = {"editingNews"}],
               cancelNews |-> [Local EXCEPT !.clears = {"editingNews"}]],
     offers |-> NewsMarkup, mount |-> <<"loadNews">>, shows |-> {}]
EventsPanel ==
    [rows |-> [loadEvents |-> loadEvents, createEvent |-> createEvent,
               saveEventEdit |-> saveEventEdit, deleteEvent |-> deleteEvent,
               editEvent |-> editEvent, resetEventForm |-> resetEventForm, loadUsers |-> loadUsers,
               writeEvent |-> [Local EXCEPT !.sets = {"newEventTitle"}]],
     offers |-> EventsMarkup, mount |-> <<"loadEvents", "loadUsers">>, shows |-> {}]
CataloguePanel ==
    [rows |-> [loadShop |-> loadShop, createShopItem |-> createShopItem,
               saveShopEdit |-> saveShopEdit, deleteShopItem |-> deleteShopItem,
               nameItem |-> [Local EXCEPT !.sets = {"newShopName"}],
               editShop |-> [Local EXCEPT !.of = "it", !.takes = {"editingShop"}],
               cancelShop |-> [Local EXCEPT !.clears = {"editingShop"}],
               handleDragStart |-> [Local EXCEPT !.sets = {"dragIdx"}], handleDrop |-> handleDrop,
               openBuyers |-> openBuyers, loadBuyers |-> loadBuyers, closeBuyers |-> closeBuyers],
     offers |-> Offers(<<NewItemMarkup, CatalogueMarkup, BuyersMarkup>>),
     mount |-> <<"loadShop">>, shows |-> {<<"buyers", "buyersModalItem", "">>}]

-----------------------------------------------------------------------------
(* Fulfilment: orders one at a time, grants in a dialog or in bulk.         *)

loadFulfillment == LoadAll("fulfillmentLoading", "fulfillmentOrders")
loadHcbStatus == [Read EXCEPT !.after.ok.sets = {"hcbStatus"}]
loadSiloStatus == [Read EXCEPT !.after.ok.sets = {"siloStatus"}]
fulfillOrder == [BusyRow("fulfillmentActionLoading") EXCEPT !.after.ok.then = "loadFulfillment"]
mergeOrder == fulfillOrder
refundOrder == fulfillOrder
sendOrderMessage == [BusyRow("fulfillmentActionLoading") EXCEPT !.after.ok.clears = {"fulfillmentMsg"}]

(* Details are kept by order: an answer never lands under another one.      *)
toggleOrderRow == [Read EXCEPT !.of = "it", !.takes = {"expandedOrderId"}]

fulfillAllGrants ==
    [Once EXCEPT !.needs = {"fulfillmentOrders"}, !.clears = {"grantBatchResults"},
                 !.sets = {"grantBatchRunning"}, !.ends = {"grantBatchRunning"},
                 !.after = [o \in {"ok", "refused", "lost"} |->
                     [Eff EXCEPT !.sets = {"grantBatchResults"},
                                 !.then = IF o = "ok" THEN "loadFulfillment" ELSE ""]]]

OrdersMarkup ==
    LET list == OfferEach({"fulfillmentOrders"}, {"fulfillmentLoading", "grants"},
                          {"fulfillmentActionLoading"}) IN
    [h \in {"fulfillOrder", "mergeOrder", "refundOrder"} |-> list]
    @@ [sendOrderMessage |-> OfferEach({"fulfillmentOrders", "fulfillmentMsg"},
                                       {"fulfillmentLoading", "grants"},
                                       {"fulfillmentActionLoading"}),
        writeOrderMessage |-> Offer({"fulfillmentOrders"}, {"fulfillmentLoading", "grants"}),
        toggleOrderRow |-> OfferEach({"fulfillmentOrders"}, {"fulfillmentLoading", "grants"},
                                     {"expandedOrderId"})]
GrantsMarkup ==
    [showGrants |-> Offer({}, {"grants"}), showOrders |-> Offer({"grants"}, {}),
     pickFilter |-> Offer({}, {"grants"}),
     fulfillAllGrants |-> Offer({"grants", "hcbStatus", "fulfillmentOrders"},
                                {"grantBatchRunning"})]

OrdersPanel ==
    [rows |-> [loadFulfillment |-> loadFulfillment, fulfillOrder |-> fulfillOrder,
               mergeOrder |-> mergeOrder, refundOrder |-> refundOrder,
               sendOrderMessage |-> sendOrderMessage, toggleOrderRow |-> toggleOrderRow,
               loadHcbStatus |-> loadHcbStatus, loadSiloStatus |-> loadSiloStatus,
               writeOrderMessage |-> [Local EXCEPT !.sets = {"fulfillmentMsg"}],
               showGrants |-> [Local EXCEPT !.sets = {"grants"}, !.starts = <<"loadFulfillment">>],
               showOrders |-> [Local EXCEPT !.clears = {"grants"}],
               pickFilter |-> [Local EXCEPT !.starts = <<"loadFulfillment">>],
               fulfillAllGrants |-> fulfillAllGrants],
     offers |-> Offers(<<OrdersMarkup, GrantsMarkup>>),
     mount |-> <<"loadFulfillment", "loadHcbStatus", "loadSiloStatus">>, shows |-> {}]

(* A grant's dialog is a component of its own, new whenever it is mounted:  *)
(* what it was waiting for is not followed once it is closed, which its     *)
(* backdrop allows at any time.                                             *)
GrantVars == {"grantModalOrder", "prefill", "prefillLoading", "granting", "successGrantId"}
openGrantModal ==
    [Local EXCEPT !.of = "it", !.clears = GrantVars, !.takes = {"grantModalOrder"},
                  !.starts = <<"prefillGrant">>]
prefillGrant == [Read EXCEPT !.of = "it", !.sets = {"prefillLoading"}, !.ends = {"prefillLoading"},
                             !.after.ok.takes = {"prefill"}]
closeGrantModal ==
    [Local EXCEPT !.clears = GrantVars, !.cancels = {"prefillGrant", "submitGrant"}]

submitCardGrant ==
    [Once EXCEPT !.of = "prefill", !.bars = {"granting"}, !.sets = {"granting"},
                 !.ends = {"granting"},
                 !.after.ok = [Eff EXCEPT !.clears = {"grantModalOrder", "prefill"},
                                          !.also = <<"loadFulfillment">>]]
(* SILO's dialog stays up and says what was granted.                        *)
submitSiloGrant ==
    [Once EXCEPT !.of = "prefill", !.bars = {"granting"}, !.sets = {"granting"},
                 !.ends = {"granting"},
                 !.after.ok = [Eff EXCEPT !.sets = {"successGrantId"},
                                          !.also = <<"loadFulfillment">>]]

GrantModalMarkup ==
    [openGrantModal |-> Offer({"fulfillmentOrders"}, {"grantModalOrder"}),
     closeGrantModal |-> Offer({"grantModalOrder"}, {}),
     submitGrant |-> Offer({"grantModalOrder", "prefill"},
                           {"prefillLoading", "successGrantId", "granting"})]

GrantPanel(submit) ==
    [rows |-> [loadFulfillment |-> loadFulfillment, openGrantModal |-> openGrantModal,
               prefillGrant |-> prefillGrant, closeGrantModal |-> closeGrantModal,
               submitGrant |-> submit],
     offers |-> GrantModalMarkup, mount |-> <<"loadFulfillment">>,
     shows |-> {<<"prefill", "grantModalOrder", "prefillLoading">>}]

-----------------------------------------------------------------------------
(* Numbers, switches and broadcasts; the reviewers' board.                  *)

loadUnreviewedHours == LoadAll("unreviewedHoursLoading", "unreviewedHours")
loadPipesStats == LoadAll("pipesStatsLoading", "pipesStats")
loadPipesHolders == LoadAll("pipesHoldersLoading", "pipesHolders")
loadResubmissionPaused == LoadAll("resubmissionPausedLoading", "resubmissionPaused")
Chart(payload) ==
    [Read EXCEPT !.after = [o \in {"ok", "refused", "lost"} |->
        [Eff EXCEPT !.sets = IF o = "ok" THEN {payload} ELSE {"error"}]]]

Broadcast(busy, result) ==
    [Once EXCEPT !.bars = {busy}, !.sets = {busy}, !.clears = {result}, !.ends = {busy},
                 !.after.ok.sets = {result}]
toggleResubmissionPaused == Broadcast("resubmissionToggleBusy", "resubmissionToggled")
backfillGoldenForCoolBuilders == Broadcast("goldenBackfillBusy", "goldenBackfillResult")
notifyShopClosing == Broadcast("shopClosingBusy", "shopClosingResult")
syncShopClosingEmail == Broadcast("shopClosingEmailBusy", "shopClosingEmailResult")
(* A preview that is refused leaves the last one's result up.               *)
sendShopClosingPreview ==
    [Broadcast("shopClosingPreviewBusy", "shopClosingPreviewResult") EXCEPT !.clears = {}]

StatsMarkup ==
    [toggleResubmissionPaused |-> Offer({}, {"resubmissionToggleBusy", "resubmissionPausedLoading"}),
     backfillGoldenForCoolBuilders |-> Offer({}, {"goldenBackfillBusy"})]
BroadcastMarkup ==
    [sendShopClosingPreview |-> Offer({}, {"shopClosingPreviewBusy"}),
     notifyShopClosing |-> Offer({"shopClosingPreviewResult"}, {"shopClosingBusy"}),
     syncShopClosingEmail |-> Offer({}, {"shopClosingEmailBusy"})]

StatsPanel ==
    [rows |-> [loadUnreviewedHours |-> loadUnreviewedHours, loadPipesStats |-> loadPipesStats,
               loadPipesHolders |-> loadPipesHolders,
               loadResubmissionPaused |-> loadResubmissionPaused,
               toggleResubmissionPaused |-> toggleResubmissionPaused,
               backfillGoldenForCoolBuilders |-> backfillGoldenForCoolBuilders],
     offers |-> StatsMarkup,
     mount |-> <<"loadUnreviewedHours", "loadPipesStats", "loadPipesHolders",
                 "loadResubmissionPaused">>, shows |-> {}]
ChartsPanel ==
    [rows |-> [funnel |-> Chart("funnel"), dau |-> Chart("dau"), signups |-> Chart("signups"),
               sendShopClosingPreview |-> sendShopClosingPreview,
               notifyShopClosing |-> notifyShopClosing,
               syncShopClosingEmail |-> syncShopClosingEmail],
     offers |-> BroadcastMarkup, mount |-> <<"funnel", "dau", "signups">>, shows |-> {}]

(* A window that fails to load keeps the last one's rows under its label.   *)
loadLeaderboard == LoadAll("leaderboardLoading", "leaderboardRows")
BoardMarkup == [pickWindow |-> Always]
BoardPanel ==
    [rows |-> [loadLeaderboard |-> loadLeaderboard,
               pickWindow |-> [Local EXCEPT !.of = "it", !.takes = {"leaderboardWindow"},
                                            !.starts = <<"loadLeaderboard">>]],
     offers |-> BoardMarkup, mount |-> <<"loadLeaderboard">>, shows |-> {}]

AdminPanels ==
    [review |-> ReviewPanel,
     devlogEvidence |-> EvidencePanel(<<DevlogsMarkup>>, <<"loadProjectDevlogs", "loadProjectLookout">>),
     claims |-> EvidencePanel(<<ClaimMarkup, ClaimsDrawerMarkup>>, <<"loadTimelapses">>),
     audit |-> EvidencePanel(<<AuditMarkup>>, <<"loadTimelapses">>),
     users |-> UsersPanel, news |-> NewsPanel, events |-> EventsPanel,
     catalogue |-> CataloguePanel, orders |-> OrdersPanel,
     cardGrant |-> GrantPanel(submitCardGrant), siloGrant |-> GrantPanel(submitSiloGrant),
     stats |-> StatsPanel, charts |-> ChartsPanel, board |-> BoardPanel]
=============================================================================
