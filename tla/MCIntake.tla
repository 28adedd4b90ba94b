------------------------------ MODULE MCIntake ------------------------------
(***************************************************************************)
(* Values for the constants of Intake on a small instance.                 *)
(***************************************************************************)
EXTENDS Intake

CONSTANTS m1, m2, m3, u1, u2, u3, k1, k2, p1, r1, j1, c1, c2, anna, kofi

\* Three uploads, two of one file, one of those through the portal.
MCKeyOf == [u \in Uploads |-> IF u = u3 THEN k2 ELSE k1]

\* Transactions that overlap: one attachment that can be read, one that
\* cannot, and one with a NUL in it.  One at a time: two that can be read, with
\* different confidence, a job for one of them, and acceptances by two
\* officers, of whom one changes the value.
MCConfidence == [a \in Files \cup Portal |-> IF a = p1 THEN 60 ELSE 80]

MCJobs     == [overlap \in BOOLEAN |-> IF overlap THEN {} ELSE {j1}]
MCJobOf    == [overlap \in BOOLEAN |-> [j \in MCJobs[overlap] |-> p1]]
MCContent  == [overlap \in BOOLEAN |-> [a \in Files \cup Portal |->
                CASE a = u1 -> "text"
                  [] a = u2 -> "unreadable"
                  [] a = p1 -> IF overlap THEN "unstorable" ELSE "text"]]
MCAccepts  == [overlap \in BOOLEAN |-> IF overlap THEN {} ELSE {c1, c2}]
MCOfficer  == [overlap \in BOOLEAN |-> [c \in MCAccepts[overlap] |-> IF c = c1 THEN anna ELSE kofi]]
MCOverride == [overlap \in BOOLEAN |-> [c \in MCAccepts[overlap] |->
                IF c = c1 THEN "changed" ELSE "proposed"]]
=============================================================================
