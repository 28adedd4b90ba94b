----------------------------- MODULE OrgBranding -----------------------------
(***************************************************************************)
(* The branding of the organisation: a settings row that the first request *)
(* creates, and a logo kept under one object key, edited by administrators *)
(* and read by anyone in sessions that overlap.  A session reads the row   *)
(* once and writes, at its commit, the columns it changed from what it     *)
(* read.                                                                   *)
(***************************************************************************)
EXTENDS Naturals, FiniteSets, Functions

CONSTANTS
  Sessions,   \* requests, each made once
  Kind,       \* what each one does: "read", "rename", "upload", "remove"
  MediaType,  \* the type of the logo that each upload sends
  Seeded,     \* TRUE when a row is there from the start
  Faults      \* TRUE when a transaction may fail

SessionsAssumption ==
  /\ Kind \in [Sessions -> {"read", "rename", "upload", "remove"}]
  /\ Sessions \subseteq DOMAIN MediaType /\ "none" \notin Sessions
  /\ Seeded \in BOOLEAN /\ Faults \in BOOLEAN

VARIABLES
  rows,     \* the committed rows, named for the session that created them
  object,   \* the upload whose content is under branding/logo, or "none"
  session   \* where each session is, its row and the columns as it read them

vars == <<rows, object, session>>

Columns == [name : Sessions \cup {"default"}, logo : BOOLEAN,
            media : {MediaType[s] : s \in Sessions} \cup {"null"}]
Defaults == [name |-> "default", logo |-> FALSE, media |-> "null"]
Idle == [at |-> "start"]
Done == [at |-> "end"]

TypeOK ==
  /\ DOMAIN rows \subseteq Sessions \cup {"seed"}
  /\ Range(rows) \subseteq Columns
  /\ object \in Sessions \cup {"none"}
  /\ \A s \in Sessions :
       session[s] \in {Idle, Done, [at |-> "put"]} \cup
         [at : {"read"}, row : Sessions \cup {"seed"}, was : Columns]

Init ==
  /\ rows = [r \in {"seed"} \cap (IF Seeded THEN {"seed"} ELSE {}) |-> Defaults]
  /\ object = "none"
  /\ session = [s \in Sessions |-> Idle]

Go(s, to) == session' = [session EXCEPT ![s] = to]

-----------------------------------------------------------------------------
\* put_named replaces the object before the row is even read.
Put(s) ==
  /\ Kind[s] = "upload" /\ session[s] = Idle
  /\ object' = s
  /\ Go(s, [at |-> "put"])
  /\ UNCHANGED rows

Ready_WithoutPut(s) == session[s] = Idle
Ready(s) == session[s] = IF Kind[s] = "upload" THEN [at |-> "put"] ELSE Idle

\* _get_org_settings: any row will do, and without one a row is inserted.
GetOrgSettings_Insert(s) ==
  /\ Ready(s)
  /\ Go(s, [at |-> "read", row |-> s, was |-> Defaults])
  /\ UNCHANGED <<rows, object>>
GetOrgSettings(s) ==
  /\ Ready(s)
  /\ IF DOMAIN rows = {}
     THEN Go(s, [at |-> "read", row |-> s, was |-> Defaults])
     ELSE \E r \in DOMAIN rows : Go(s, [at |-> "read", row |-> r, was |-> rows[r]])
  /\ UNCHANGED <<rows, object>>

\* The columns as the session leaves them in memory.
Edited(s) ==
  LET was == session[s].was IN
  CASE Kind[s] = "read"   -> was
    [] Kind[s] = "rename" -> [was EXCEPT !.name = s]
    [] Kind[s] = "upload" -> [was EXCEPT !.logo = TRUE, !.media = MediaType[s]]
    [] Kind[s] = "remove" -> [was EXCEPT !.logo = FALSE, !.media = "null"]

\* Only changed columns are written.
Written_AllColumns(s, row) == Edited(s)
Written(s, row) ==
  [c \in DOMAIN row |-> IF Edited(s)[c] # session[s].was[c] THEN Edited(s)[c] ELSE row[c]]

Commit(s) ==
  /\ session[s].at = "read"
  /\ rows' = [r \in DOMAIN rows \cup {session[s].row} |->
                IF r # session[s].row THEN rows[r]
                ELSE IF r \in DOMAIN rows THEN Written(s, rows[r]) ELSE Edited(s)]
  /\ Go(s, Done)
  /\ UNCHANGED object

Fail(s) ==
  /\ Faults /\ session[s] \notin {Idle, Done}
  /\ Go(s, Done)
  /\ UNCHANGED <<rows, object>>

Next == \E s \in Sessions : Put(s) \/ GetOrgSettings(s) \/ Commit(s) \/ Fail(s)

Spec == Init /\ [][Next]_vars

-----------------------------------------------------------------------------
\* OrgSettings: "Singleton row (the app always fetches-or-creates the first
\* one)".
SingletonRow == Cardinality(DOMAIN rows) <= 1

\* A row never names a logo that was not stored, whatever fails or overlaps.
LogoIsStored == \A r \in DOMAIN rows : rows[r].logo => object # "none"

\* The name changes only by a request to change it, and the logo only by an
\* upload or a removal: no session writes back what it read.
EditsOnlyItsOwn ==
  \A r \in DOMAIN rows : \A s \in Sessions :
    session[s].at = "read" /\ session'[s] = Done =>
      /\ rows'[r].name # rows[r].name => Kind[s] = "rename"
      /\ rows'[r].media # rows[r].media => Kind[s] \in {"upload", "remove"}

\* A fetched logo has the type it was uploaded with (test_branding_api.py).
LogoHasItsType ==
  (\A s \in Sessions : session[s] \in {Idle, Done}) =>
    \A r \in DOMAIN rows : rows[r].logo => rows[r].media = MediaType[object]
=============================================================================
