----------------------------- MODULE SmallPages -----------------------------
(* The handlers of the smaller pages, and what their markup offers: the     *)
(* second pass and fraud review (whose queues QueuePages follows closer),   *)
(* the tutorial, the schedule, the landing page, certificates, the move to  *)
(* Crescent and the layout around them all.                                 *)
EXTENDS Handlers

-----------------------------------------------------------------------------
(* What the second pass and fraud review share: an $effect on the project   *)
(* at the position of the queue empties what the page says of the last one  *)
(* and loads what it says of the next.                                      *)

ProjectVars ==
    {"filled", "submitError", "trust", "showIframe", "iframeError"}
Evidence == <<"loadTrust", "mintIframe">>

Turned(eff) == [eff EXCEPT !.clears = @ \cup ProjectVars, !.gives = {"current"},
                           !.also = @ \o Evidence]
Emptied(eff) == [eff EXCEPT !.clears = @ \cup ProjectVars \cup {"current"}]

(* Previous, next, or the list.                                             *)
go == [Local EXCEPT !.of = "it", !.clears = ProjectVars, !.takes = {"current"},
                    !.starts = Evidence]

loadTrust ==
    [Read EXCEPT !.of = "current", !.sets = {"trustLoading"}, !.after.ok.takes = {"trust"},
                 !.ends = {"trustLoading"}]

mintIframe ==
    [Read EXCEPT !.of = "current", !.clears = {"iframeError", "showIframe"},
                 !.after = [ok |-> [Eff EXCEPT !.takes = {"showIframe"}],
                            refused |-> [Eff EXCEPT !.sets = {"iframeError"}],
                            lost |-> [Eff EXCEPT !.sets = {"iframeError"}]]]

loadQueue ==
    [Read EXCEPT !.sets = {"loading"}, !.clears = {"loadError"}, !.ends = {"loading"},
                 !.after = [ok |-> Turned([Eff EXCEPT !.sets = {"queue"}]),
                            empty |-> Emptied([Eff EXCEPT !.clears = {"queue"}]),
                            refused |-> [Eff EXCEPT !.sets = {"loadError"}],
                            lost |-> [Eff EXCEPT !.sets = {"loadError"}]]]

(* The project at the position leaves the list when the answer comes.       *)
sendVerdict ==
    [Once EXCEPT !.of = "current", !.bars = {"submitting"}, !.sets = {"submitting"},
                 !.clears = {"submitError"}, !.ends = {"submitting"},
                 !.after = [ok |-> Turned(Eff),
                            last |-> Emptied([Eff EXCEPT !.clears = {"queue"}]),
                            refused |-> [Eff EXCEPT !.sets = {"submitError"}],
                            lost |-> [Eff EXCEPT !.sets = {"submitError"}]]]

toggleMarker ==
    [Once EXCEPT !.of = "current", !.bars = {"markerBusy"}, !.sets = {"markerBusy"},
                 !.ends = {"markerBusy"}]

loadUnreviewed ==
    [Once EXCEPT !.bars = {"loadUnreviewedBusy"}, !.sets = {"loadUnreviewedBusy"},
                 !.after.ok.then = "loadQueue", !.ends = {"loadUnreviewedBusy"}]

Fill == [Local EXCEPT !.sets = {"filled"}]
Ready == {"current"}
NotReady == {"loading", "loadError"}

AuditMarkup ==
    LET shown(on, off) == Offer(Ready \cup on, NotReady \cup off) IN
    [go |-> OfferEach(Ready, {}, {"current"}),
     loadQueue |-> Always,
     loadUnreviewed |-> Offer({}, NotReady \cup {"current", "loadUnreviewedBusy"}),
     toggleMarker |-> shown({}, {"markerBusy"}),
     pickAction |-> shown({"filled"}, {}), fill |-> shown({}, {"filled"}),
     submit |-> shown({"filled"}, {"submitting"})]

AuditPagePanel ==
    [rows |-> [go |-> go, loadQueue |-> loadQueue, loadTrust |-> loadTrust,
               mintIframe |-> mintIframe, loadUnreviewed |-> loadUnreviewed,
               toggleMarker |-> toggleMarker, submit |-> sendVerdict, fill |-> Fill,
               pickAction |-> [Local EXCEPT !.clears = {"filled"}]],
     offers |-> AuditMarkup, mount |-> <<"loadQueue">>,
     shows |-> {<<"trust", "current", "">>, <<"showIframe", "current", "">>}]

(* Fraud review: two verdicts, both with a note, and a search box.          *)
FraudMarkup ==
    LET shown(on, off) == Offer(Ready \cup on, NotReady \cup off) IN
    [go |-> OfferEach(Ready, {}, {"current"}) \cup OfferEach({"queue"}, NotReady, {"current"}),
     searchNone |-> Offer({"queue"}, NotReady),
     fill |-> shown({}, {"filled"}),
     clearNotFraud |-> shown({"filled"}, {"submitting"}),
     banMaker |-> shown({"filled"}, {"submitting"})]

FraudPagePanel ==
    [rows |-> [go |-> go, loadQueue |-> loadQueue, loadTrust |-> loadTrust,
               mintIframe |-> mintIframe, fill |-> Fill,
               searchNone |-> [Local EXCEPT !.clears = ProjectVars \cup {"current"}],
               clearNotFraud |-> [sendVerdict EXCEPT !.needs = {"filled"}],
               banMaker |-> [sendVerdict EXCEPT !.needs = {"filled"}]],
     offers |-> FraudMarkup, mount |-> <<"loadQueue">>,
     shows |-> {<<"trust", "current", "">>, <<"showIframe", "current", "">>}]

-----------------------------------------------------------------------------
(* The tutorial: an intro that plays itself, then sections scrolled through *)
(* by buttons.                                                              *)

startIntroAnimation == [Timer EXCEPT !.after.ok.then = "step"]
step == [Timer EXCEPT !.sets = {"animRunning"},
                      !.after.ok = [Eff EXCEPT !.clears = {"animRunning"}, !.sets = {"progress"}]]
skipIntro == [Local EXCEPT !.needs = {"animRunning"}, !.clears = {"animRunning"},
                           !.sets = {"progress"}, !.cancels = {"step"}]
enterSky == [Timer EXCEPT !.sets = {"transitioned"}, !.after.ok.sets = {"locked"}]
stage == [Local EXCEPT !.sets = {"progress", "transitioned", "locked"}]

(* The scroll arrives, or two seconds pass: then the frames that look for   *)
(* the arrival go on, and unlock whatever navigation runs when it comes.    *)
goToSection ==
    [Timer EXCEPT !.needs = {"transitioned"}, !.bars = {"navigating"}, !.sets = {"navigating"},
                  !.ends = {"navigating"},
                  !.after = [ok |-> Eff, slow |-> [Eff EXCEPT !.also = <<"check">>]]]
check == [Timer EXCEPT !.after.ok.clears = {"navigating"}]

fetchWindow == [Read EXCEPT !.after = Or("open", [Eff EXCEPT !.clears = {"programClosed"}])]

createProject ==
    [Once EXCEPT !.needs = {"canCreateProject"}, !.bars = {"projectSubmitting", "programClosed"},
                 !.sets = {"projectSubmitting"}, !.ends = {"projectSubmitting"},
                 !.after.ok = [Eff EXCEPT !.sets = {"projectCreated"},
                                          !.clears = {"showProjectForm"}]]

refreshSlack ==
    [Read EXCEPT !.sets = {"slackRefreshing"}, !.ends = {"slackRefreshing"},
                 !.after = Or("member", [Eff EXCEPT !.sets = {"fullMember"}])]
confirmTwoEmails == [Again EXCEPT !.after.ok.also = <<"goToSection">>]

IntroMarkup ==
    [skipIntro |-> Always, enterSky |-> Offer({"progress"}, {"transitioned"}),
     goToSection |-> Offer({"transitioned"}, {})]
IntroPanel ==
    [rows |-> [startIntroAnimation |-> startIntroAnimation, step |-> step,
               skipIntro |-> skipIntro, enterSky |-> enterSky, goToSection |-> goToSection,
               check |-> check],
     offers |-> IntroMarkup, mount |-> <<"startIntroAnimation">>, shows |-> {}]

TutorialMarkup ==
    [goToSection |-> Always,
     openForm |-> Offer({}, {"programClosed", "projectCreated", "showProjectForm"}),
     cancel |-> Offer({"showProjectForm"}, {"programClosed"}),
     fill |-> Offer({"showProjectForm"}, {"programClosed", "canCreateProject"}),
     createProject |-> Offer({"showProjectForm", "canCreateProject"},
                             {"programClosed", "projectSubmitting"})]
SlackMarkup ==
    [goToSection |-> Always,
     refreshSlack |-> Offer({}, {"fullMember", "twoEmails", "slackRefreshing"}),
     tickTwoEmails |-> Offer({}, {"fullMember", "twoEmails"}),
     untickTwoEmails |-> Offer({"twoEmails"}, {"fullMember"}),
     confirmTwoEmails |-> Offer({"twoEmails"}, {"fullMember"})]

TutorialRows ==
    [stage |-> stage, goToSection |-> goToSection, check |-> check,
     fetchSubmissionWindow |-> fetchWindow, createProject |-> createProject,
     refreshSlack |-> refreshSlack, confirmTwoEmails |-> confirmTwoEmails,
     closed |-> [Local EXCEPT !.sets = {"programClosed"}],
     openForm |-> [Local EXCEPT !.sets = {"showProjectForm"}],
     cancel |-> [Local EXCEPT !.clears = {"showProjectForm"}],
     fill |-> [Local EXCEPT !.sets = {"canCreateProject"}],
     tickTwoEmails |-> [Local EXCEPT !.sets = {"twoEmails"}],
     untickTwoEmails |-> [Local EXCEPT !.clears = {"twoEmails"}]]

TutorialPanel(markup, mount) ==
    [rows |-> TutorialRows, offers |-> markup, mount |-> mount, shows |-> {}]

-----------------------------------------------------------------------------
(* The schedule: a day, an event that is expanded, and a poll.              *)

toggleDetails == [Local EXCEPT !.of = "it", !.takes = {"expandedId"}, !.sets = {"listed"}]
selectDay == [Local EXCEPT !.of = "it", !.takes = {"selectedDay"},
                           !.clears = {"expandedId", "listed"}]
jumpTo == [Local EXCEPT !.of = "it", !.takes = {"selectedDay", "expandedId"}, !.sets = {"listed"}]
refreshTimer == [Timer EXCEPT !.after.ok.also = <<"refreshTimer", "fetchSchedule">>]

(* The next poll may no longer hold the event that is expanded.             *)
fetchSchedule ==
    [Read EXCEPT !.after = [ok |-> [Eff EXCEPT !.sets = {"listed"}],
                            gone |-> [Eff EXCEPT !.clears = {"listed"}],
                            refused |-> Eff, lost |-> Eff]]

ScheduleMarkup ==
    [selectDay |-> OfferEach({}, {}, {"selectedDay"}),
     toggleDetails |-> OfferEach({}, {}, {"expandedId"}),
     closeDetails |-> Offer({"expandedId", "listed"}, {}),
     jumpTo |-> Always]
SchedulePanel ==
    [rows |-> [toggleDetails |-> toggleDetails, selectDay |-> selectDay, jumpTo |-> jumpTo,
               closeDetails |-> [Local EXCEPT !.clears = {"expandedId"}],
               refreshTimer |-> refreshTimer, fetchSchedule |-> fetchSchedule],
     offers |-> ScheduleMarkup, mount |-> <<"refreshTimer">>, shows |-> {}]

-----------------------------------------------------------------------------
(* The landing page: two sign-up boxes, each with its status; an answer     *)
(* that is good leaves the page with the button down.                       *)

submitRsvp(sending, error) ==
    [Once EXCEPT !.sets = {sending}, !.clears = {error},
                 !.after.refused = [Eff EXCEPT !.sets = {error}, !.clears = {sending}],
                 !.after.lost = [Eff EXCEPT !.sets = {error}, !.clears = {sending}]]
hintTimer == [Timer EXCEPT !.after.ok.sets = {"showScrollHint"}]
animDelay == [Timer EXCEPT !.after.ok.then = "animate"]
animate == [Timer EXCEPT !.sets = {"animating"},
                         !.after.ok = [Eff EXCEPT !.clears = {"animating"}, !.sets = {"done"}]]

SignupMarkup == [submitTop |-> Offer({}, {"topSending"})]
BottomMarkup == [submitBottom |-> Offer({}, {"bottomSending"})]
LandingPanel ==
    [rows |-> [submitTop |-> submitRsvp("topSending", "topError"),
               submitBottom |-> submitRsvp("bottomSending", "bottomError"),
               hintTimer |-> hintTimer, animDelay |-> animDelay, animate |-> animate],
     offers |-> Offers(<<SignupMarkup, BottomMarkup>>),
     mount |-> <<"hintTimer", "animDelay">>, shows |-> {}]

-----------------------------------------------------------------------------
(* Certificates, the move to Crescent, the end of an impersonation.         *)

verifyCertificate ==
    [Once EXCEPT !.sets = {"loading"}, !.clears = {"error", "result"}, !.ends = {"loading"},
                 !.after = [ok |-> [Eff EXCEPT !.sets = {"result"}],
                            refused |-> [Eff EXCEPT !.sets = {"error"}],
                            lost |-> [Eff EXCEPT !.sets = {"error"}]]]
VerifyMarkup == [verifyCertificate |-> Offer({}, {"loading"}), verifyNothing |-> Offer({}, {"loading"})]
VerifyPanel ==
    [rows |-> [verifyCertificate |-> verifyCertificate,
               verifyNothing |-> [Local EXCEPT !.sets = {"error"}, !.clears = {"result"}]],
     offers |-> VerifyMarkup, mount |-> <<"verifyCertificate">>, shows |-> {}]

(* A claim that is granted reloads the page.                                *)
claimCertificate ==
    [Once EXCEPT !.of = "it", !.bars = {"claimingOrderId"}, !.takes = {"claimingOrderId"},
                 !.ends = {"claimingOrderId"}]
ClaimMarkup == [claimCertificate |-> Offer({}, {"claimingOrderId"})]
ClaimPanel ==
    [rows |-> [claimCertificate |-> claimCertificate], offers |-> ClaimMarkup,
     mount |-> <<>>, shows |-> {}]

move == [Once EXCEPT !.bars = {"going"}, !.sets = {"going"}, !.clears = {"error"},
                     !.after.refused = [Eff EXCEPT !.sets = {"error"}, !.clears = {"going"}],
                     !.after.lost = [Eff EXCEPT !.sets = {"error"}, !.clears = {"going"}]]
checkImpersonating == [Local EXCEPT !.sets = {"impersonating"}]
endImpersonation == [Again EXCEPT !.after.ok.clears = {"impersonating"}]
captureAttribution == [Local EXCEPT !.bars = {"attribution"}, !.sets = {"attribution"}]
LayoutMarkup == [move |-> Offer({}, {"going"}), endImpersonation |-> Offer({"impersonating"}, {})]
LayoutPanel ==
    [rows |-> [move |-> move, endImpersonation |-> endImpersonation,
               checkImpersonating |-> checkImpersonating,
               captureAttribution |-> captureAttribution],
     offers |-> LayoutMarkup, mount |-> <<"checkImpersonating", "captureAttribution">>,
     shows |-> {}]

SmallPanels ==
    [secondPass |-> AuditPagePanel, fraudReview |-> FraudPagePanel,
     intro |-> IntroPanel,
     tutorial |-> TutorialPanel(TutorialMarkup, <<"closed", "fetchSubmissionWindow", "stage">>),
     joinSlack |-> TutorialPanel(SlackMarkup, <<"stage">>),
     schedule |-> SchedulePanel, landing |-> LandingPanel, verify |-> VerifyPanel,
     myCertificates |-> ClaimPanel, layout |-> LayoutPanel]
=============================================================================
