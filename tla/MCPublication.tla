---------------------------- MODULE MCPublication ----------------------------
(***************************************************************************)
(* Values for the constants of Publication on a small instance.            *)
(***************************************************************************)
EXTENDS Publication

(***************************************************************************)
(* The deployments of docs/DEPLOYMENT.md and docs/AFTN_BRIDGE.md, and all  *)
(* channels real: a text within ITA-2, and one outside it with a worker.   *)
(***************************************************************************)
Settings(publication, aftn, email, key, smtp) ==
  [publication |-> publication, key |-> key, smtp |-> smtp,
   pinned |-> [AFTN |-> aftn, GCAA_WEB |-> "unset", EMAIL |-> email]]
MCDeployments ==
  LET sim == "simulated_sync"
      real == "async_adapters"
  IN  {Settings(sim, "unset", "unset", FALSE, FALSE), Settings(sim, real, "unset", TRUE, FALSE),
       Settings(sim, real, real, FALSE, TRUE), Settings(real, "unset", "unset", FALSE, FALSE),
       Settings(real, "unset", sim, TRUE, TRUE)}

\* A worker has the text outside ITA-2.
MCWorker == [ita2 \in BOOLEAN |-> ~ita2]

(***************************************************************************)
(* Lines of six characters: a short word, words at the width and beyond    *)
(* it, one longer than two lines, one that reads "E)" and one that AFTN    *)
(* cannot transmit.                                                        *)
(***************************************************************************)
Word(len) == [len |-> len, label |-> FALSE, ita2 |-> TRUE]
MCWords ==
  {Word(n) : n \in {1, 2, 3, 5, 6, 7, 14}}
    \cup {[len |-> 2, label |-> TRUE, ita2 |-> TRUE], [len |-> 2, label |-> FALSE, ita2 |-> FALSE]}

(***************************************************************************)
(* Three NOTAMs; two replace or cancel the first, each other or itself.    *)
(***************************************************************************)
MCNotams == {"n1", "n2", "n3"}
MCValid == {[until |-> -1, qualifier |-> "none"], [until |-> -1, qualifier |-> "PERM"],
            [until |-> 2, qualifier |-> "none"], [until |-> 2, qualifier |-> "EST"]}
MCRows == [n \in MCNotams |->
  {[kind |-> k, ref |-> r, place |-> p, until |-> v.until, qualifier |-> v.qualifier] :
     k \in IF n = "n1" THEN {"NOTAMN"} ELSE {"NOTAMR", "NOTAMC"},
     r \in IF n = "n1" THEN {"none"} ELSE {"n1", "n2"},
     p \in IF n = "n1" THEN {"DGAA"} ELSE {"DGAA", "DGLE"},
     v \in IF n = "n3" THEN {[until |-> 3, qualifier |-> "EST"]} ELSE MCValid}]
=============================================================================
