------------------------------ MODULE Workflow ------------------------------
(***************************************************************************)
(* The vocabulary every module of the NOTAM workflow shares: roles, the    *)
(* statuses of a request, the transition table of services/workflow.py and *)
(* the way a walk through that table is recorded.                          *)
(***************************************************************************)
EXTENDS Naturals, Sequences

Role == {"originator", "ais_officer", "ais_specialist", "nof_manager",
         "qms_auditor", "system_admin"}

\* The staff who prepare, submit and publish, and those of them who review.
AISOperations == {"ais_officer", "ais_specialist", "nof_manager"}
Reviewers     == {"ais_specialist", "nof_manager"}

WorkflowStatus == {"received", "triage", "draft", "review",
                   "changes_requested", "approved", "publishing",
                   "published", "rejected", "cancelled"}

NotamKind == {"NOTAMN", "NOTAMR", "NOTAMC"}

TRANSITIONS == [s \in WorkflowStatus |->
  CASE s = "received"          -> {"triage", "rejected"}
    [] s = "triage"            -> {"draft", "rejected"}
    [] s = "draft"             -> {"review", "cancelled"}
    [] s = "review"            -> {"changes_requested", "approved", "rejected"}
    [] s = "changes_requested" -> {"draft"}
    [] s = "approved"          -> {"publishing"}
    [] s = "publishing"        -> {"published", "approved"}
    [] s = "published"         -> {"cancelled"}
    [] OTHER                   -> {}]

(***************************************************************************)
(* A handler may make several transitions before it commits.  path is the  *)
(* sequence of statuses it enters, starting from the status s it read.     *)
(***************************************************************************)
Reached(s, path) == IF path = <<>> THEN s ELSE path[Len(path)]

\* With the table unchecked, a plain assignment of the status.
LegalPath_WithoutTable(s, path) == TRUE

LegalPath(s, path) ==
  \A i \in DOMAIN path :
    path[i] \in TRANSITIONS[IF i = 1 THEN s ELSE path[i - 1]]

\* The transitions create_draft makes before it validates the draft.
DraftPath(s) == CASE s = "received"          -> <<"triage", "draft">>
                  [] s = "triage"            -> <<"draft">>
                  [] s = "changes_requested" -> <<"draft">>
                  [] OTHER                   -> <<>>
=============================================================================
