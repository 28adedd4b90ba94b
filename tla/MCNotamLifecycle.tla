-------------------------- MODULE MCNotamLifecycle --------------------------
(***************************************************************************)
(* Values for the constants of NotamLifecycle on small instances.          *)
(***************************************************************************)
EXTENDS NotamLifecycle

MCRoleOf == [u \in Users |->
  CASE u = "officer"    -> "ais_officer"
    [] u = "specialist" -> "ais_specialist"
    [] u = "manager"    -> "nof_manager"
    [] u = "admin"      -> "system_admin"
    [] u = "auditor"    -> "qms_auditor"]
=============================================================================
