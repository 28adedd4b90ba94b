--------------------------- MODULE MCNotamSessions ---------------------------
(***************************************************************************)
(* Values for the constants of NotamSessions on small instances.           *)
(***************************************************************************)
EXTENDS NotamSessions

MCRoleOf == [u \in Users |-> IF u = "officer" THEN "ais_officer" ELSE "nof_manager"]
=============================================================================
