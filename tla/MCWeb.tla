-------------------------------- MODULE MCWeb --------------------------------
(***************************************************************************)
(* Values for the constants of Web on a small instance.                    *)
(***************************************************************************)
EXTENDS Web

CONSTANTS anna, kofi   \* two members of staff at the workbench

Update(u, f, t) == [do |-> "update", user |-> u, field |-> f, to |-> t]

\* In the one office an administrator, over several lives of both tokens; in
\* the other one who creates, deactivates and reactivates a clerk at work.
MCOffices == {"one", "two"}
MCUsers == [one |-> {"chief"}, two |-> {"chief", "clerk"}]
MCOperations ==
  [one |-> [u \in {"chief"} |->
     {[do |-> "work"], [do |-> "heartbeat"], Update(u, "active", FALSE), Update(u, "admin", FALSE)}],
   two |-> [u \in {"chief", "clerk"} |->
     IF u = "clerk" THEN {[do |-> "work"]}
     ELSE {[do |-> "create", user |-> "clerk"],
           Update("clerk", "active", FALSE), Update("clerk", "active", TRUE)}]]
MCPresent == [z \in MCOffices |-> {"chief"}]
MCAccessTTL == [one |-> 3, two |-> 2]
MCRefreshTTL == [one |-> 5, two |-> 3]
MCMargin == [one |-> 1, two |-> 0]
MCThrottle == [one |-> 1, two |-> 0]
MCOnline == [one |-> 4, two |-> 1]
MCPatience == [z \in MCOffices |-> 1]
MCMaxNow == [one |-> 9, two |-> 3]

\* With two users, what is left of a state without the times of last use and
\* of logins: no answer depends on them.  So of PresenceFollowsUse only the
\* first office shows every case.
MCView ==
  <<shown, now, cookie, request, workbenchVars,
    IF shown = "two" THEN [u \in DOMAIN account |-> [account[u] EXCEPT !.seen = 0]]
    ELSE <<account, login, served>> >>
=============================================================================
