----------------------------- MODULE RuleCatalog -----------------------------
(***************************************************************************)
(* The selection criteria: rule versions stored as rows of which one is to *)
(* be active, the catalog of the API process, which every draft is checked *)
(* against, and managers who activate versions in sessions that overlap.   *)
(* PostgreSQL locks the rows a transaction updates until it ends.          *)
(***************************************************************************)
EXTENDS Naturals, FiniteSets, Sequences

CONSTANTS
  Versions,   \* rows of rule_versions
  Shipped,    \* the version whose dataset is in the image
  Genuine,    \* versions whose checksum is that of their rules
  Rules,      \* Rules[v]: the rules of a version, a sequence of records
  Managers,   \* sessions of NOF managers that activate a version
  Faults      \* TRUE when the process and its transactions may fail

VersionsAssumption == /\ Shipped \in Genuine
                      /\ Genuine \subseteq Versions
                      /\ DOMAIN Rules = Versions
                      /\ Faults \in BOOLEAN

VARIABLES
  active,     \* versions whose row says so
  catalog,    \* the version whose rules are in force in this process
  session,    \* where each activation is, and the row as it read it
  locked,     \* the rows each session has updated
  settled,    \* no fault since the last activation that was answered
  drafts      \* drafts: the version they record, and the one they passed

vars == <<active, catalog, session, locked, settled, drafts>>

Idle == [at |-> "idle"]

TypeOK ==
  /\ active \subseteq Versions
  /\ catalog \in Versions
  /\ \A m \in Managers :
       session[m] = Idle \/
       session[m] \in [at : {"updating", "writing"}, version : Versions, was : BOOLEAN]
  /\ locked \in [Managers -> SUBSET Versions]
  /\ \A m, n \in Managers : m # n => locked[m] \cap locked[n] = {}
  /\ settled \in BOOLEAN
  /\ drafts \subseteq [recorded : Versions, passed : Versions]

Init ==
  /\ active = {Shipped} /\ catalog = Shipped
  /\ session = [m \in Managers |-> Idle]
  /\ locked = [m \in Managers |-> {}]
  /\ settled = TRUE
  /\ drafts = {}

At(m, place) == session[m].at = place

-----------------------------------------------------------------------------
\* The version is read and its checksum compared.
Get_WithoutChecksum(m, v) ==
  /\ At(m, "idle")
  /\ session' = [session EXCEPT ![m] = [at |-> "updating", version |-> v, was |-> v \in active]]
  /\ UNCHANGED <<active, catalog, locked, settled, drafts>>
Get(m, v) ==
  /\ At(m, "idle")
  /\ v \in Genuine
  /\ session' = [session EXCEPT ![m] = [at |-> "updating", version |-> v, was |-> v \in active]]
  /\ UNCHANGED <<active, catalog, locked, settled, drafts>>

\* The rows that the UPDATE makes inactive, whatever they say.
Others_Active(m) == active \ {session[m].version}
Others(m) == Versions \ {session[m].version}

\* The UPDATE takes one row after another, waiting for those of others.
Lock_WithoutWait(m, v) ==
  /\ At(m, "updating")
  /\ v \in Others(m) \ locked[m]
  /\ locked' = [locked EXCEPT ![m] = @ \cup {v}]
  /\ UNCHANGED <<active, catalog, session, settled, drafts>>
Lock(m, v) ==
  /\ At(m, "updating")
  /\ v \in Others(m) \ locked[m]
  /\ \A n \in Managers : v \notin locked[n]
  /\ locked' = [locked EXCEPT ![m] = @ \cup {v}]
  /\ UNCHANGED <<active, catalog, session, settled, drafts>>

\* The UPDATE is over: active is set in memory and the catalog replaced.
Reload(m) ==
  /\ At(m, "updating") /\ Others(m) \subseteq locked[m]
  /\ session' = [session EXCEPT ![m].at = "writing"]
  /\ catalog' = session[m].version
  /\ UNCHANGED <<active, locked, settled, drafts>>

\* The flush writes the row if that changes what was read; then the commit.
Commit(m) ==
  /\ At(m, "writing")
  /\ ~session[m].was => \A n \in Managers : session[m].version \notin locked[n]
  /\ active' = (active \ locked[m])
               \cup (IF session[m].was THEN {} ELSE {session[m].version})
  /\ session' = [session EXCEPT ![m] = Idle]
  /\ locked' = [locked EXCEPT ![m] = {}]
  /\ settled' = TRUE
  /\ UNCHANGED <<catalog, drafts>>

\* m waits for a row of n.
WaitsFor(m, n) ==
  \/ At(m, "updating") /\ Others(m) \cap locked[n] # {} /\ m # n
  \/ At(m, "writing") /\ ~session[m].was /\ session[m].version \in locked[n]

RollBack(m) ==
  /\ session' = [session EXCEPT ![m] = Idle]
  /\ locked' = [locked EXCEPT ![m] = {}]
  /\ settled' = FALSE
  /\ UNCHANGED <<active, catalog, drafts>>

\* PostgreSQL ends one of the transactions that wait for each other.
Deadlock(m) ==
  /\ \E S \in SUBSET Managers : m \in S /\ \A a \in S : \E b \in S : WaitsFor(a, b)
  /\ RollBack(m)

Fail(m) == Faults /\ ~At(m, "idle") /\ RollBack(m)

\* The catalog is that of the image again, whichever row is active.
Restart ==
  /\ Faults
  /\ catalog' = Shipped
  /\ session' = [m \in Managers |-> Idle]
  /\ locked' = [m \in Managers |-> {}]
  /\ settled' = FALSE
  /\ UNCHANGED <<active, drafts>>

-----------------------------------------------------------------------------
\* The last rule of a code is the one that is found.
Find(rules, code) ==
  {rules[i] : i \in {i \in DOMAIN rules : /\ rules[i].code = code
                                          /\ \A j \in DOMAIN rules : j > i => rules[j].code # code}}

\* A NOTAMC takes the qualifiers of the NOTAM it cancels.
Valid(rules, draft) ==
  \E rule \in Find(rules, draft.code) :
    draft.kind = "NOTAMC" \/ draft.qualifiers = rule.qualifiers

\* The drafts that an officer makes: with the qualifiers of some version.
Forms ==
  UNION {{[kind |-> kind, code |-> Rules[v][i].code, qualifiers |-> Rules[v][i].qualifiers] :
            i \in DOMAIN Rules[v], kind \in {"NOTAMN", "NOTAMC"}} : v \in Versions}

\* The version of the image is recorded, whatever the catalog is.
SaveDraft ==
  \E form \in Forms :
    /\ Valid(Rules[catalog], form)
    /\ drafts' = drafts \cup {[recorded |-> Shipped, passed |-> catalog]}
    /\ UNCHANGED <<active, catalog, session, locked, settled>>

-----------------------------------------------------------------------------
Next ==
  \/ SaveDraft \/ Restart
  \/ \E m \in Managers : \/ Reload(m) \/ Commit(m) \/ Deadlock(m) \/ Fail(m)
                         \/ \E v \in Versions : Get(m, v) \/ Lock(m, v)

Spec == Init /\ [][Next]_vars

-----------------------------------------------------------------------------
\* However activations overlap, are rolled back or cut off, two versions are
\* never active together (activate_rule_version, the UPDATE of all others).
AtMostOneActive == Cardinality(active) <= 1

\* No rules whose checksum differs are ever in force, nor a draft passed by
\* them ("refusing to activate unverified data").
OnlyGenuineRules == {catalog} \cup {d.passed : d \in drafts} \subseteq Genuine

\* Once an activation is answered and until something fails, the rules in
\* force are those of the active row (RuleCatalog: "so the running process
\* picks up the change").
CatalogIsActive ==
  settled /\ (\A m \in Managers : At(m, "idle")) => active = {catalog}

\* An activation that is answered made its version active
\* (test_rule_versions.py: the answer says "active": true).
ActivationActivates ==
  [][\A m \in Managers : At(m, "writing") /\ Commit(m) => session[m].version \in active']_vars

\* ARCHITECTURE.md: "its exact version is stored with every draft".
DraftsRecordTheirRules == \A d \in drafts : d.recorded = d.passed
=============================================================================
