------------------------------- MODULE MCSite -------------------------------
(* The site in one browser: its pages, a panel at a time; a review queue    *)
(* against what the backend and other reviewers decide; what a page offers  *)
(* whom; signing in, and a Super Admin who signs in as somebody else.  They *)
(* share no state, so a behaviour is one of them.                           *)
EXTENDS Pages, QueuePages, Access, Signup, Impersonation, Perms

Home == INSTANCE HomePage
Admin == INSTANCE AdminPage
Small == INSTANCE SmallPages

CONSTANTS A, B, C

VARIABLE focus

pagesPart == <<pageVars, queueVars>>
staffPart == <<accessVars, impVars>>
userPart == <<signupVars, permsVars>>
siteVars == <<pagesPart, staffPart, userPart, focus>>

MCBacklog == <<A, B, C>>
HomePanels == Home!HomePanels
AdminPanels == Admin!AdminPanels
SmallPanels == Small!SmallPanels
SitePanels == HomePanels @@ AdminPanels @@ SmallPanels
IdlePanel == "myCertificates"       \* asks for nothing by itself

SiteInit ==
    /\ focus \in {"pages", "queue", "access", "impersonation", "signup", "perms"}
    /\ PagesInit /\ QueueInit /\ AccessInit
    /\ ImpersonationInit /\ SignupInit /\ PermsInit
    /\ focus # "pages" => panel = IdlePanel
    /\ focus # "queue" => waiting = {}
    /\ focus # "access" => \A who \in DOMAIN roles : roles[who] = "User"

SiteNext ==
    /\ UNCHANGED focus
    /\ \/ /\ UNCHANGED <<staffPart, userPart>>
          /\ \/ focus = "pages" /\ PagesNext /\ UNCHANGED queueVars
             \/ focus = "queue" /\ QueueNext /\ UNCHANGED pageVars
       \/ /\ UNCHANGED <<pagesPart, userPart>>
          /\ \/ focus = "access" /\ AccessNext /\ UNCHANGED impVars
             \/ focus = "impersonation" /\ ImpersonationNext /\ UNCHANGED accessVars
       \/ /\ UNCHANGED <<pagesPart, staffPart>>
          /\ \/ focus = "signup" /\ SignupNext /\ UNCHANGED permsVars
             \/ focus = "perms" /\ PermsNext /\ UNCHANGED signupVars

SiteSpec == SiteInit /\ [][SiteNext]_siteVars
FairSiteSpec == SiteSpec /\ PermsFairness

(* Each part has its type.                                                  *)
SiteTypeOK == AccessTypeOK /\ ImpersonationTypeOK /\ SignupTypeOK /\ PermsTypeOK

(* The pages: what they show belongs to what is chosen, what must not be    *)
(* sent twice is not, and the position in a queue is in the queue.          *)
PagesHold == SiteTypeOK /\ ShownBelongs /\ BusyFlagsHold /\ PositionInQueue

(* Who may do what: the guards and the pages agree, the guards hold, and    *)
(* the sweep lets back in whom it should, and nobody else.                  *)
PermissionsHold == GuardsAgree /\ SweepIsJust
=============================================================================
