--------------------------------- MODULE Web ---------------------------------
(***************************************************************************)
(* The people at their browsers: the sessions they hold, at one or more    *)
(* offices of different sizes, and the workbench they prepare and review a *)
(* request in.  As in Intake a behaviour shows one part, an office or the  *)
(* workbench, and the others stand still.                                  *)
(***************************************************************************)
EXTENDS Naturals, FiniteSets

CONSTANTS
  Offices,                                   \* the constants of Accounts, each by office
  Users, Operations, Present, Admins,
  AccessTTL, RefreshTTL, Margin, Throttle, Online, Patience, MaxNow,
  Pages, MaxSaves, MaxOpens                  \* of Workbench

VARIABLES
  shown,
  now, account, cookie, request, login, served,
  status, draft, text, author, page, main, side, saves, opens

accountsVars == <<now, account, cookie, request, login, served>>
workbenchVars == <<status, draft, text, author, page, main, side, saves, opens>>
webVars == <<shown, accountsVars, workbenchVars>>

Sessions(z) == INSTANCE Accounts WITH
  Users <- Users[z], Operations <- Operations[z], Present <- Present[z], Admins <- Admins[z],
  AccessTTL <- AccessTTL[z], RefreshTTL <- RefreshTTL[z], Margin <- Margin[z],
  Throttle <- Throttle[z], Online <- Online[z], Patience <- Patience[z], MaxNow <- MaxNow[z]

\* The users of the workbench wait for the draft.
TheyWait == TRUE
Bench == INSTANCE Workbench WITH Patient <- TheyWait

ASSUME OfficesAssumption == \A z \in Offices : Sessions(z)!TimesAssumption
ASSUME WorkbenchAssumption == Bench!WorkbenchAssumption /\ "workbench" \notin Offices

-----------------------------------------------------------------------------
\* While the workbench is shown, nobody is at the browsers of the offices.
AtRest ==
  /\ now = 1
  /\ account = <<>> /\ cookie = <<>> /\ request = <<>> /\ login = <<>> /\ served = <<>>

Init ==
  /\ \/ \E z \in Offices : shown = z /\ Sessions(z)!Init
     \/ shown = "workbench" /\ AtRest
  /\ Bench!Init

Next ==
  \/ \E z \in Offices : shown = z /\ Sessions(z)!Next /\ UNCHANGED <<shown, workbenchVars>>
  \/ shown = "workbench" /\ Bench!Next /\ UNCHANGED <<shown, accountsVars>>

Spec == Init /\ [][Next]_webVars

-----------------------------------------------------------------------------
TypeOK ==
  /\ \A z \in Offices : shown = z => Sessions(z)!TypeOK
  /\ Bench!TypeOK

\* Who used the system within the window less the throttle is online, and who
\* is online used it within the window; and however often its access token is
\* renewed a session ends with its refresh token and one access token on top
\* (get_current_user, get_users_presence, refresh).
PresenceFollowsUse ==
  \A z \in Offices : shown = z => Sessions(z)!SeenIsOnline /\ Sessions(z)!SessionsAreBounded

\* The proxy's second attempt never repeats what the first has done (proxy).
AppliedOnce == \A z \in Offices : shown = z => Sessions(z)!AppliedOnce

\* A user is sent to log in again only when deactivated or when the session
\* is over, however tokens expire while a request is under way (middleware,
\* proxy, get_current_user).
RefusedForCause ==
  [][\A z \in Offices : shown = z => Sessions(z)!TurnedAwayForCause]_webVars

\* In a page opened for editing whose officer waits for its draft, the form
\* holds the draft the page names unless it was typed into, whatever others
\* save meanwhile; and nothing goes to review by a page that did not save it
\* first (loadNotam, saveDraftData, sendForReview).
SubmittedWasSaved ==
  /\ Bench!OpenedFormIsDraft
  /\ [][(Bench!OpenedFormIsDraft)']_webVars
  /\ Bench!SubmittedWasSaved
=============================================================================
