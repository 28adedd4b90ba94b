--------------------------- MODULE ReferenceProofs ---------------------------
(***************************************************************************)
(* What Reference guarantees for any rule versions, managers, datasets,    *)
(* seeds, saves, editors of the branding and tables of words.              *)
(***************************************************************************)
EXTENDS Reference, FiniteSetTheorems, TLAPS

-----------------------------------------------------------------------------
(***************************************************************************)
(* Rule versions.  A session that has replaced the catalog holds the rows  *)
(* of all other versions: its commit leaves none of them active.           *)
(***************************************************************************)
IdleSession == [at |-> "idle"]
OpenSession == [at : {"updating", "writing"}, version : Versions, was : BOOLEAN]

RulesType ==
  /\ active \subseteq Versions /\ catalog \in Versions
  /\ session \in [Managers -> {IdleSession} \cup OpenSession]
  /\ locked \in [Managers -> SUBSET Versions]
  /\ settled \in BOOLEAN
  /\ drafts \subseteq [recorded : Versions, passed : Versions]

RulesInv ==
  /\ RulesType
  /\ \A m, n \in Managers : m # n => locked[m] \cap locked[n] = {}
  /\ \E v \in Versions : active \subseteq {v}
  /\ \A m \in Managers : session[m].at # "idle" => session[m].version \in Genuine
  /\ \A m \in Managers :
       session[m].at = "writing" => Versions \ {session[m].version} \subseteq locked[m]
  /\ catalog \in Genuine /\ \A d \in drafts : d.passed \in Genuine

LEMMA RulesInit == RuleVersions!Init => RulesInv
BY RulesAssumption
DEF RuleVersions!Init, RuleVersions!Idle, RuleVersions!VersionsAssumption, RulesInv, RulesType, IdleSession

\* A session ends without a write.
LEMMA SessionDropped ==
  ASSUME RulesInv, NEW m \in Managers,
         session' = [session EXCEPT ![m] = IdleSession],
         locked' = [locked EXCEPT ![m] = {}], settled' \in BOOLEAN,
         UNCHANGED <<catalog, drafts>>,
         active' \subseteq Versions, \E v \in Versions : active' \subseteq {v}
  PROVE  RulesInv'
<1>1. RulesType'  BY DEF RulesInv, RulesType
<1>2. \A a, b \in Managers : a # b => locked'[a] \cap locked'[b] = {}
  BY DEF RulesInv, RulesType
<1>3. \A a \in Managers : session'[a].at # "idle" => session'[a].version \in Genuine
  BY DEF RulesInv, RulesType, IdleSession
<1>4. \A a \in Managers :
        session'[a].at = "writing" => Versions \ {session'[a].version} \subseteq locked'[a]
  BY DEF RulesInv, RulesType, IdleSession
<1> QED  BY <1>1, <1>2, <1>3, <1>4 DEF RulesInv

LEMMA RulesStep == RulesInv /\ [RuleVersions!Next]_rulesVars => RulesInv'
<1> SUFFICES ASSUME RulesInv, [RuleVersions!Next]_rulesVars PROVE RulesInv'  OBVIOUS
<1>1. CASE RuleVersions!SaveDraft
  <2>1. drafts' = drafts \cup {[recorded |-> Shipped, passed |-> catalog]}
        /\ UNCHANGED <<active, catalog, session, locked, settled>>
    BY <1>1 DEF RuleVersions!SaveDraft
  <2> QED  BY <2>1, RulesAssumption DEF RulesInv, RulesType, RuleVersions!VersionsAssumption
<1>2. CASE RuleVersions!Restart
  BY <1>2, RulesAssumption DEF RuleVersions!Restart, RuleVersions!Idle, RulesInv, RulesType,
     RuleVersions!VersionsAssumption, IdleSession
<1>3. ASSUME NEW m \in Managers, NEW v \in Versions, RuleVersions!Get(m, v) PROVE RulesInv'
  <2> DEFINE opened == [at |-> "updating", version |-> v, was |-> v \in active]
  <2>1. session' = [session EXCEPT ![m] = opened] /\ v \in Genuine
        /\ UNCHANGED <<active, catalog, locked, settled, drafts>>
    BY <1>3 DEF RuleVersions!Get
  <2>2. opened \in OpenSession  BY DEF OpenSession
  <2>3. RulesType'  BY <2>1, <2>2 DEF RulesInv, RulesType
  <2> QED  BY <2>1, <2>3 DEF RulesInv, RulesType
<1>4. ASSUME NEW m \in Managers, NEW v \in Versions, RuleVersions!Lock(m, v) PROVE RulesInv'
  <2>1. /\ locked' = [locked EXCEPT ![m] = locked[m] \cup {v}]
        /\ \A n \in Managers : v \notin locked[n]
        /\ UNCHANGED <<active, catalog, session, settled, drafts>>
    BY <1>4 DEF RuleVersions!Lock
  <2>2. \A a, b \in Managers : a # b => locked'[a] \cap locked'[b] = {}
    BY <2>1 DEF RulesInv, RulesType
  <2>3. \A a \in Managers : locked[a] \subseteq locked'[a]  BY <2>1 DEF RulesInv, RulesType
  <2> QED  BY <2>1, <2>2, <2>3 DEF RulesInv, RulesType
<1>5. ASSUME NEW m \in Managers, RuleVersions!Reload(m) PROVE RulesInv'
  <2>1. /\ session' = [session EXCEPT ![m].at = "writing"] /\ catalog' = session[m].version
        /\ session[m].at = "updating"
        /\ Versions \ {session[m].version} \subseteq locked[m]
        /\ UNCHANGED <<active, locked, settled, drafts>>
    BY <1>5 DEF RuleVersions!Reload, RuleVersions!At, RuleVersions!Others
  <2>2. session[m] \in OpenSession  BY <2>1 DEF RulesInv, RulesType, IdleSession
  <2>3. /\ session'[m] \in OpenSession /\ session'[m].version = session[m].version
        /\ \A n \in Managers : n # m => session'[n] = session[n]
    BY <2>1, <2>2 DEF OpenSession, RulesInv, RulesType
  <2>4. RulesType'  BY <2>1, <2>2, <2>3 DEF RulesInv, RulesType, OpenSession
  <2>5. session[m].version \in Genuine  BY <2>1 DEF RulesInv
  <2> QED  BY <2>1, <2>3, <2>4, <2>5 DEF RulesInv
<1>6. ASSUME NEW m \in Managers, RuleVersions!Commit(m) PROVE RulesInv'
  <2>1. /\ active' = (active \ locked[m]) \cup (IF session[m].was THEN {} ELSE {session[m].version})
        /\ session[m].at = "writing"
        /\ session' = [session EXCEPT ![m] = IdleSession]
        /\ locked' = [locked EXCEPT ![m] = {}] /\ settled' = TRUE
        /\ UNCHANGED <<catalog, drafts>>
    BY <1>6 DEF RuleVersions!Commit, RuleVersions!At, RuleVersions!Idle, IdleSession
  <2>2. session[m].version \in Versions
    BY <2>1 DEF RulesInv, RulesType, OpenSession, IdleSession
  <2>3. active' \subseteq {session[m].version}  BY <2>1 DEF RulesInv, RulesType
  <2> QED  BY <2>1, <2>2, <2>3, SessionDropped
<1>7. ASSUME NEW m \in Managers, RuleVersions!RollBack(m) PROVE RulesInv'
  <2>1. /\ session' = [session EXCEPT ![m] = IdleSession]
        /\ locked' = [locked EXCEPT ![m] = {}] /\ settled' \in BOOLEAN
        /\ UNCHANGED <<active, catalog, drafts>>
    BY <1>7 DEF RuleVersions!RollBack, RuleVersions!Idle, IdleSession
  <2>2. active' \subseteq Versions /\ \E v \in Versions : active' \subseteq {v}
    BY <2>1 DEF RulesInv, RulesType
  <2> QED  BY <2>1, <2>2, SessionDropped
<1>8. CASE UNCHANGED rulesVars  BY <1>8 DEF RulesInv, RulesType, rulesVars
<1> QED  BY <1>1, <1>2, <1>3, <1>4, <1>5, <1>6, <1>7, <1>8
         DEF RuleVersions!Next, RuleVersions!Deadlock, RuleVersions!Fail

\* Read off the invariant.
LEMMA RulesPromises ==
  ASSUME RulesInv
  PROVE  RuleVersions!TypeOK /\ RuleVersions!AtMostOneActive /\ RuleVersions!OnlyGenuineRules
<1>1. RuleVersions!TypeOK
  BY DEF RulesInv, RulesType, RuleVersions!TypeOK, RuleVersions!Idle, IdleSession, OpenSession
<1>2. Cardinality(active) <= 1
  <2>1. PICK v \in Versions : active \subseteq {v}  BY DEF RulesInv
  <2>2. active = {} \/ active = {v}  BY <2>1
  <2> QED  BY <2>2, FS_EmptySet, FS_Singleton
<1>3. RuleVersions!OnlyGenuineRules  BY DEF RulesInv, RuleVersions!OnlyGenuineRules
<1> QED  BY <1>1, <1>2, <1>3 DEF RuleVersions!AtMostOneActive, RuleVersions!Cardinality, Cardinality
-----------------------------------------------------------------------------
(***************************************************************************)
(* The matcher.  Its embeddings are those of its rules once it is          *)
(* initialized, and until then whoever loads holds the lock.               *)
(***************************************************************************)
Nobody == [scores |-> None, of |-> None]
Loads == {"importing", "loaded", "encoding", "encoded", "failed"}

MatcherInv ==
  /\ Matcher!TypeOK
  /\ \A t \in Matcher!Threads : thread[t] \in Loads => ~ initialized
  /\ loading => \E t \in Matcher!Threads : holder = t
  /\ \A t \in Matcher!Threads : thread[t] = "encoding" => rules # None
  /\ \A t \in Matcher!Threads : thread[t] = "encoded" => embedded = rules
  /\ ~ initialized /\ embedded # None => \E t \in Matcher!Threads : thread[t] = "encoded"
  /\ initialized /\ embedded # None => embedded = rules
  /\ thread["loop"] = "scored" =>
       initialized /\ embedded # None /\ answer.scores = embedded
  /\ thread["loop"] \notin {"idle", "scored"} => answer = Nobody
  /\ thread["loop"] = "idle" => answer.scores = answer.of

LEMMA MatcherInit == Matcher!Init => MatcherInv
<1> SUFFICES ASSUME Matcher!Init PROVE MatcherInv  OBVIOUS
<1>1. /\ inForce = Shipped /\ model = FALSE /\ initialized = FALSE /\ loading = FALSE
      /\ rules = None /\ embedded = None /\ holder = None /\ answer = Nobody
      /\ thread = [t \in Matcher!Threads |-> "idle"]
  BY DEF Matcher!Init, Matcher!NoAnswer, Nobody
<1>2. Shipped \in Versions /\ None \notin Matcher!Threads
  BY RulesAssumption DEF Matcher!MatcherAssumption
<1>3. Nobody \in [scores : Versions \cup {None}, of : Versions \cup {None}]
      /\ Nobody.scores = Nobody.of
  BY DEF Nobody
<1>4. \A t \in Matcher!Threads : thread[t] = "idle"  BY <1>1
<1>5. Matcher!TypeOK
  BY <1>1, <1>2, <1>3, <1>4 DEF Matcher!TypeOK, Matcher!Places, Matcher!Guarded
<1> QED  BY <1>1, <1>3, <1>4, <1>5 DEF MatcherInv, Loads, Matcher!Threads

LEMMA MatcherStep == MatcherInv /\ [Matcher!Next]_matcherVars => MatcherInv'
<1> SUFFICES ASSUME MatcherInv, [Matcher!Next]_matcherVars PROVE MatcherInv'  OBVIOUS
<1> USE RulesAssumption DEF Matcher!MatcherAssumption, MatcherInv, Matcher!TypeOK, Matcher!Go,
        Matcher!Threads, Matcher!Places, Matcher!Guarded, Matcher!matcher, Loads, Nobody
<1>1. ASSUME NEW v \in Versions, Matcher!Activate(v) PROVE MatcherInv'
  BY <1>1 DEF Matcher!Activate
<1>2. CASE Matcher!Warmup  BY <1>2 DEF Matcher!Warmup
<1>3. CASE Matcher!Search  BY <1>3 DEF Matcher!Search, Matcher!NoAnswer
<1>4. CASE Matcher!Check  BY <1>4 DEF Matcher!Check
<1>5. CASE Matcher!Unready  BY <1>5 DEF Matcher!Unready
<1>6. CASE Matcher!Score  BY <1>6 DEF Matcher!Score, Matcher!is_ready
<1>7. CASE Matcher!Answer  BY <1>7 DEF Matcher!Answer
<1>8. ASSUME NEW t \in Matcher!Threads, Matcher!Acquire(t) PROVE MatcherInv'
  BY <1>8 DEF Matcher!Acquire
<1>9. ASSUME NEW t \in Matcher!Threads, Matcher!Enter(t) PROVE MatcherInv'
  BY <1>9 DEF Matcher!Enter
<1>10. ASSUME NEW t \in Matcher!Threads, Matcher!Import(t) PROVE MatcherInv'
  BY <1>10 DEF Matcher!Import
<1>11. ASSUME NEW t \in Matcher!Threads, Matcher!TakeRules(t) PROVE MatcherInv'
  BY <1>11 DEF Matcher!TakeRules
<1>12. ASSUME NEW t \in Matcher!Threads, Matcher!Encode(t) PROVE MatcherInv'
  BY <1>12 DEF Matcher!Encode
<1>13. ASSUME NEW t \in Matcher!Threads, Matcher!Publish(t) PROVE MatcherInv'
  BY <1>13 DEF Matcher!Publish
<1>14. ASSUME NEW t \in Matcher!Threads, Matcher!Raise(t) PROVE MatcherInv'
  BY <1>14 DEF Matcher!Raise
<1>15. ASSUME NEW t \in Matcher!Threads, Matcher!GiveUp(t) PROVE MatcherInv'
  BY <1>15 DEF Matcher!GiveUp
<1>16. ASSUME NEW t \in Matcher!Threads, Matcher!Leave(t) PROVE MatcherInv'
  BY <1>16 DEF Matcher!Leave, Matcher!After
<1>17. CASE UNCHANGED matcherVars  BY <1>17 DEF matcherVars
<1> QED  BY <1>1, <1>2, <1>3, <1>4, <1>5, <1>6, <1>7, <1>8, <1>9, <1>10, <1>11, <1>12, <1>13,
            <1>14, <1>15, <1>16, <1>17
         DEF Matcher!Next, Matcher!_initialize, Matcher!search

LEMMA MatcherPromises ==
  ASSUME MatcherInv
  PROVE  Matcher!TypeOK /\ Matcher!ScoresFitRules /\ Matcher!LoadingIsHeld
BY DEF MatcherInv, Matcher!ScoresFitRules, Matcher!LoadingIsHeld
-----------------------------------------------------------------------------
(***************************************************************************)
(* The branding.  Once an upload has put its object there is a logo for    *)
(* every row and for every copy of one that a session has read.            *)
(***************************************************************************)
Row(seeded) == [name : Editors[seeded] \cup {"default"}, logo : BOOLEAN,
                media : {MediaType[s] : s \in Editors[seeded]} \cup {"null"}]
Opened(seeded) == [at : {"read"}, row : Editors[seeded] \cup {"seed"}, was : Row(seeded)]
Resting == {[at |-> "start"], [at |-> "end"]}
EditState(seeded) == Resting \cup {[at |-> "put"]} \cup Opened(seeded)

BrandingInv(seeded) ==
  /\ DOMAIN rows \subseteq Editors[seeded] \cup {"seed"}
  /\ \A r \in DOMAIN rows : rows[r] \in Row(seeded)
  /\ object \in Editors[seeded] \cup {"none"}
  /\ editing \in [Editors[seeded] -> EditState(seeded)]
  /\ \A r \in DOMAIN rows : rows[r].logo => object # "none"
  /\ \A s \in Editors[seeded] :
       /\ Kind[seeded][s] = "upload" /\ editing[s] \notin Resting => object # "none"
       /\ editing[s].at = "read" /\ editing[s].was.logo => object # "none"
  /\ seeded => DOMAIN rows = {"seed"}
  /\ seeded => \A s \in Editors[seeded] : editing[s].at = "read" => editing[s].row = "seed"

\* What each request leaves of the columns it read, and of those it writes to.
LEMMA EditedIs ==
  ASSUME NEW seeded \in BOOLEAN, BrandingInv(seeded), NEW s \in Editors[seeded],
         editing[s].at = "read"
  PROVE  /\ editing[s] \in Opened(seeded)
         /\ Branding(seeded)!Edited(s) \in Row(seeded)
         /\ Branding(seeded)!Edited(s).logo => object # "none"
         /\ \A row \in Row(seeded) :
              LET put == Branding(seeded)!Written(s, row) IN
              /\ put \in Row(seeded)
              /\ put.logo => row.logo \/ Branding(seeded)!Edited(s).logo
              /\ put.name # row.name => Kind[seeded][s] = "rename"
              /\ put.media # row.media => Kind[seeded][s] \in {"upload", "remove"}
<1> DEFINE was == editing[s].was
           edited == Branding(seeded)!Edited(s)
           kind == Kind[seeded][s]
<1>1. editing[s] \in Opened(seeded)
  BY DEF BrandingInv, EditState, Resting
<1>2. was \in Row(seeded)  BY <1>1 DEF Opened
<1>3. kind \in {"read", "rename", "upload", "remove"} /\ MediaType[s] \in {MediaType[e] : e \in Editors[seeded]}
  BY BrandingAssumption DEF Branding!SessionsAssumption
<1>4. edited = [name |-> IF kind = "rename" THEN s ELSE was.name,
                logo |-> IF kind = "upload" THEN TRUE ELSE IF kind = "remove" THEN FALSE ELSE was.logo,
                media |-> IF kind = "upload" THEN MediaType[s] ELSE
                          IF kind = "remove" THEN "null" ELSE was.media]
  BY <1>2, <1>3 DEF Branding!Edited, Row
<1>5. edited \in Row(seeded)
  <2>1. /\ was.name \in Editors[seeded] \cup {"default"} /\ was.logo \in BOOLEAN
        /\ was.media \in {MediaType[e] : e \in Editors[seeded]} \cup {"null"}
    BY <1>2 DEF Row
  <2> HIDE DEF was, edited
  <2>2. CASE kind = "rename"
    <3>1. edited = [name |-> s, logo |-> was.logo, media |-> was.media]  BY <1>4, <2>2
    <3> QED  BY <2>1, <3>1 DEF Row
  <2>3. CASE kind = "upload"
    <3>1. edited = [name |-> was.name, logo |-> TRUE, media |-> MediaType[s]]  BY <1>4, <2>3
    <3> QED  BY <1>3, <2>1, <3>1 DEF Row
  <2>4. CASE kind = "remove"
    <3>1. edited = [name |-> was.name, logo |-> FALSE, media |-> "null"]  BY <1>4, <2>4
    <3> QED  BY <2>1, <3>1 DEF Row
  <2>5. CASE kind = "read"
    <3>1. edited = [name |-> was.name, logo |-> was.logo, media |-> was.media]  BY <1>4, <2>5
    <3> QED  BY <2>1, <3>1 DEF Row
  <2> QED  BY <1>3, <2>2, <2>3, <2>4, <2>5
<1>6. edited.logo => object # "none"
  BY <1>1, <1>4 DEF BrandingInv, Opened, Resting
<1>7. ASSUME NEW row \in Row(seeded)
      PROVE  LET put == Branding(seeded)!Written(s, row) IN
             /\ put \in Row(seeded)
             /\ put.logo => row.logo \/ edited.logo
             /\ put.name # row.name => kind = "rename"
             /\ put.media # row.media => kind \in {"upload", "remove"}
  <2> DEFINE put == Branding(seeded)!Written(s, row)
  <2> HIDE DEF edited
  <2>1. DOMAIN row = {"name", "logo", "media"}  BY DEF Row
  <2>2. put = [c \in {"name", "logo", "media"} |->
                 IF edited[c] # was[c] THEN edited[c] ELSE row[c]]
    BY <2>1 DEF Branding!Written, edited
  <2>3. put = [name |-> IF edited.name # was.name THEN edited.name ELSE row.name,
               logo |-> IF edited.logo # was.logo THEN edited.logo ELSE row.logo,
               media |-> IF edited.media # was.media THEN edited.media ELSE row.media]
    BY <2>2
  <2> HIDE DEF put
  <2>4. put \in Row(seeded)  BY <1>5, <2>3 DEF Row
  <2>5. edited.name # was.name => kind = "rename"  BY <1>4 DEF edited
  <2>6. edited.media # was.media => kind \in {"upload", "remove"}  BY <1>4 DEF edited
  <2>7. /\ put.logo => row.logo \/ edited.logo
        /\ put.name # row.name => kind = "rename"
        /\ put.media # row.media => kind \in {"upload", "remove"}
    BY <2>3, <2>5, <2>6
  <2> QED  BY <2>4, <2>7 DEF put
<1> QED  BY <1>1, <1>5, <1>6, <1>7
LEMMA BrandingInit ==
  ASSUME NEW seeded \in BOOLEAN, Branding(seeded)!Init
  PROVE  BrandingInv(seeded)
<1> DEFINE default == [name |-> "default", logo |-> FALSE, media |-> "null"]
<1>1. /\ object = "none" /\ editing = [s \in Editors[seeded] |-> [at |-> "start"]]
      /\ DOMAIN rows = IF seeded THEN {"seed"} ELSE {}
      /\ \A r \in DOMAIN rows : rows[r] = default
  BY DEF Branding!Init, Branding!Idle, Branding!Defaults
<1>2. default \in Row(seeded) /\ ~ default.logo  BY DEF Row
<1>3. \A s \in Editors[seeded] : editing[s] = [at |-> "start"]  BY <1>1
<1>4. [at |-> "start"].at # "read"  OBVIOUS
<1>5. \A s \in Editors[seeded] : editing[s] \in Resting /\ editing[s].at # "read"
  BY <1>3, <1>4 DEF Resting
<1> QED  BY <1>1, <1>2, <1>3, <1>5 DEF BrandingInv, EditState, Resting

\* A step by which one session moves on and the rows stay.
LEMMA SessionMoved ==
  ASSUME NEW seeded \in BOOLEAN, BrandingInv(seeded), NEW s \in Editors[seeded],
         NEW to \in EditState(seeded), editing' = [editing EXCEPT ![s] = to],
         rows' = rows, object' \in Editors[seeded] \cup {"none"},
         object # "none" => object' # "none",
         Kind[seeded][s] = "upload" /\ to \notin Resting => object' # "none",
         to.at = "read" /\ to.was.logo => object' # "none",
         seeded /\ to.at = "read" => to.row = "seed"
  PROVE  BrandingInv(seeded)'
<1>1. editing' \in [Editors[seeded] -> EditState(seeded)]  BY DEF BrandingInv
<1>2. editing'[s] = to /\ \A e \in Editors[seeded] : e # s => editing'[e] = editing[e]
  BY DEF BrandingInv
<1>3. \A e \in Editors[seeded] :
        /\ Kind[seeded][e] = "upload" /\ editing'[e] \notin Resting => object' # "none"
        /\ editing'[e].at = "read" /\ editing'[e].was.logo => object' # "none"
  BY <1>2 DEF BrandingInv
<1>4. seeded => \A e \in Editors[seeded] : editing'[e].at = "read" => editing'[e].row = "seed"
  BY <1>2 DEF BrandingInv
<1> QED  BY <1>1, <1>3, <1>4 DEF BrandingInv, EditState, Opened, Row

\* What one commit may change.
LEMMA CommitsItsOwn ==
  ASSUME NEW seeded \in BOOLEAN, BrandingInv(seeded), NEW s \in Editors[seeded],
         Branding(seeded)!Commit(s)
  PROVE  /\ BrandingInv(seeded)'
         /\ \A r \in DOMAIN rows :
              /\ rows'[r].name # rows[r].name => Kind[seeded][s] = "rename"
              /\ rows'[r].media # rows[r].media => Kind[seeded][s] \in {"upload", "remove"}
<1> DEFINE edited == Branding(seeded)!Edited(s)
           written(row) == Branding(seeded)!Written(s, row)
<1>1. /\ editing[s].at = "read"
      /\ rows' = [r \in DOMAIN rows \cup {editing[s].row} |->
                    IF r # editing[s].row THEN rows[r]
                    ELSE IF r \in DOMAIN rows THEN written(rows[r]) ELSE edited]
      /\ editing' = [editing EXCEPT ![s] = [at |-> "end"]] /\ object' = object
  BY DEF Branding!Commit, Branding!Go, Branding!Done
<1>2. /\ editing[s] \in Opened(seeded)
      /\ edited \in Row(seeded) /\ (edited.logo => object # "none")
      /\ \A row \in Row(seeded) :
           /\ written(row) \in Row(seeded)
           /\ written(row).logo => row.logo \/ edited.logo
           /\ written(row).name # row.name => Kind[seeded][s] = "rename"
           /\ written(row).media # row.media => Kind[seeded][s] \in {"upload", "remove"}
  BY <1>1, EditedIs
<1> HIDE DEF edited, written
<1>3. /\ editing[s].row \in Editors[seeded] \cup {"seed"}
      /\ DOMAIN rows' = DOMAIN rows \cup {editing[s].row}
  BY <1>1, <1>2 DEF Opened
<1>4. \A r \in DOMAIN rows' : rows'[r] \in Row(seeded) /\ (rows'[r].logo => object' # "none")
  BY <1>1, <1>2, <1>3 DEF BrandingInv
<1>5. seeded => DOMAIN rows' = {"seed"}  BY <1>1, <1>3 DEF BrandingInv
<1>6. /\ editing'[s] = [at |-> "end"] /\ editing'[s].at # "read" /\ editing'[s] \in Resting
      /\ \A e \in Editors[seeded] : e # s => editing'[e] = editing[e]
  BY <1>1 DEF BrandingInv, Resting
<1>7. editing' \in [Editors[seeded] -> EditState(seeded)]
  BY <1>1 DEF BrandingInv, EditState, Resting
<1>8. \A e \in Editors[seeded] :
        /\ Kind[seeded][e] = "upload" /\ editing'[e] \notin Resting => object' # "none"
        /\ editing'[e].at = "read" /\ editing'[e].was.logo => object' # "none"
        /\ seeded /\ editing'[e].at = "read" => editing'[e].row = "seed"
  BY <1>1, <1>6 DEF BrandingInv
<1>9. BrandingInv(seeded)'
  BY <1>1, <1>3, <1>4, <1>5, <1>7, <1>8 DEF BrandingInv
<1>10. ASSUME NEW r \in DOMAIN rows
       PROVE  /\ rows'[r].name # rows[r].name => Kind[seeded][s] = "rename"
              /\ rows'[r].media # rows[r].media => Kind[seeded][s] \in {"upload", "remove"}
  <2>1. rows[r] \in Row(seeded)  BY DEF BrandingInv
  <2>2. rows'[r] = IF r # editing[s].row THEN rows[r] ELSE written(rows[r])  BY <1>1
  <2> QED  BY <1>2, <2>1, <2>2
<1> QED  BY <1>9, <1>10

LEMMA BrandingStep ==
  ASSUME NEW seeded \in BOOLEAN, BrandingInv(seeded), [Branding(seeded)!Next]_brandingVars
  PROVE  BrandingInv(seeded)' /\ Branding(seeded)!EditsOnlyItsOwn
<1> DEFINE itsOwn(s) == editing[s].at = "read" /\ editing'[s] = [at |-> "end"] =>
             \A r \in DOMAIN rows :
               /\ rows'[r].name # rows[r].name => Kind[seeded][s] = "rename"
               /\ rows'[r].media # rows[r].media => Kind[seeded][s] \in {"upload", "remove"}
<1>1. ASSUME NEW s \in Editors[seeded], Branding(seeded)!Put(s) PROVE BrandingInv(seeded)' /\ rows' = rows
  <2> DEFINE to == [at |-> "put"]
  <2>1. object' = s /\ editing' = [editing EXCEPT ![s] = to] /\ rows' = rows
    BY <1>1 DEF Branding!Put, Branding!Go
  <2>2. to \in EditState(seeded) /\ to.at # "read"  BY DEF EditState
  <2>3. s # "none"  BY BrandingAssumption DEF Branding!SessionsAssumption
  <2> QED  BY <2>1, <2>2, <2>3, SessionMoved
<1>2. ASSUME NEW s \in Editors[seeded], Branding(seeded)!GetOrgSettings(s)
      PROVE  BrandingInv(seeded)' /\ rows' = rows
  <2> DEFINE default == [name |-> "default", logo |-> FALSE, media |-> "null"]
  <2>1. rows' = rows /\ object' = object /\ Branding(seeded)!Ready(s)
    BY <1>2 DEF Branding!GetOrgSettings
  <2>2. Kind[seeded][s] = "upload" => object # "none"
    BY <2>1 DEF BrandingInv, Branding!Ready, Resting
  <2>3. PICK r \in Editors[seeded] \cup {"seed"}, was \in Row(seeded) :
          /\ editing' = [editing EXCEPT ![s] = [at |-> "read", row |-> r, was |-> was]]
          /\ was.logo => object # "none"
          /\ seeded => r = "seed"
    <3>1. CASE DOMAIN rows = {}
      <4>1. editing' = [editing EXCEPT ![s] = [at |-> "read", row |-> s, was |-> default]]
        BY <1>2, <3>1 DEF Branding!GetOrgSettings, Branding!Go, Branding!Defaults
      <4>2. default \in Row(seeded) /\ ~ default.logo  BY DEF Row
      <4>3. ~ seeded  BY <3>1 DEF BrandingInv
      <4> HIDE DEF default
      <4> QED  BY <4>1, <4>2, <4>3
    <3>2. CASE DOMAIN rows # {}
      <4>1. PICK r \in DOMAIN rows :
              editing' = [editing EXCEPT ![s] = [at |-> "read", row |-> r, was |-> rows[r]]]
        BY <1>2, <3>2 DEF Branding!GetOrgSettings, Branding!Go
      <4>2. /\ r \in Editors[seeded] \cup {"seed"} /\ rows[r] \in Row(seeded)
            /\ rows[r].logo => object # "none"
            /\ seeded => r = "seed"
        BY DEF BrandingInv
      <4> QED  BY <4>1, <4>2
    <3> QED  BY <3>1, <3>2
  <2> DEFINE to == [at |-> "read", row |-> r, was |-> was]
  <2>4. to \in EditState(seeded)  BY DEF EditState, Opened
  <2>5. to.row = r /\ to.was = was  OBVIOUS
  <2>6. editing' = [editing EXCEPT ![s] = to]  BY <2>3
  <2>7. object' \in Editors[seeded] \cup {"none"}  BY <2>1 DEF BrandingInv
  <2> HIDE DEF to
  <2> QED  BY <2>1, <2>2, <2>3, <2>4, <2>5, <2>6, <2>7, SessionMoved
<1>3. ASSUME NEW s \in Editors[seeded], Branding(seeded)!Fail(s)
      PROVE  BrandingInv(seeded)' /\ rows' = rows
  <2> DEFINE to == [at |-> "end"]
  <2>1. rows' = rows /\ object' = object /\ editing' = [editing EXCEPT ![s] = to]
    BY <1>3 DEF Branding!Fail, Branding!Go, Branding!Done
  <2>2. to \in EditState(seeded) /\ to \in Resting /\ to.at # "read"  BY DEF EditState, Resting
  <2>3. object' \in Editors[seeded] \cup {"none"}  BY <2>1 DEF BrandingInv
  <2> HIDE DEF to
  <2> QED  BY <2>1, <2>2, <2>3, SessionMoved
<1>4. ASSUME NEW s \in Editors[seeded], Branding(seeded)!Commit(s)
      PROVE  BrandingInv(seeded)' /\ \A e \in Editors[seeded] : itsOwn(e)
  <2>1. \A e \in Editors[seeded] : e # s => editing'[e] = editing[e]
    BY <1>4 DEF Branding!Commit, Branding!Go, BrandingInv
  <2>2. \A e \in Editors[seeded] : editing[e] = [at |-> "end"] => editing[e].at # "read"  OBVIOUS
  <2>3. itsOwn(s)  BY <1>4, CommitsItsOwn
  <2>4. \A e \in Editors[seeded] : e # s => itsOwn(e)  BY <2>1, <2>2
  <2> QED  BY <1>4, <2>3, <2>4, CommitsItsOwn
<1>5. ASSUME UNCHANGED brandingVars PROVE BrandingInv(seeded)' /\ rows' = rows
  BY <1>5 DEF BrandingInv, brandingVars
<1>6. rows' = rows => \A s \in Editors[seeded] : itsOwn(s)  OBVIOUS
<1>7. (\A s \in Editors[seeded] : itsOwn(s)) => Branding(seeded)!EditsOnlyItsOwn
  BY DEF Branding!EditsOnlyItsOwn, Branding!Done
<1> HIDE DEF itsOwn
<1> QED  BY <1>1, <1>2, <1>3, <1>4, <1>5, <1>6, <1>7 DEF Branding!Next, brandingVars

LEMMA BrandingPromises ==
  ASSUME NEW seeded \in BOOLEAN, BrandingInv(seeded)
  PROVE  /\ Branding(seeded)!TypeOK
         /\ Branding(WithRow)!LogoIsStored
         /\ seeded => Branding(WithRow)!SingletonRow
<1>1. Branding(seeded)!TypeOK
  BY DEF BrandingInv, Branding!TypeOK, Branding!Columns, Branding!Idle, Branding!Done,
     Branding!Range, EditState, Opened, Resting, Row
<1>2. Branding(WithRow)!LogoIsStored  BY DEF BrandingInv, Branding!LogoIsStored
<1>3. ASSUME seeded PROVE Branding(WithRow)!SingletonRow
  <2>1. Cardinality(DOMAIN rows) = 1  BY <1>3, FS_Singleton DEF BrandingInv
  <2> QED  BY <2>1 DEF Branding!SingletonRow, Branding!Cardinality, Cardinality
<1> QED  BY <1>1, <1>2, <1>3
-----------------------------------------------------------------------------
(***************************************************************************)
(* The seeds.  Until its commit a seed is sure to activate a dataset or to *)
(* have found one active; it has every sample that is missing, so that all *)
(* of them are there with the first commit.                                *)
(***************************************************************************)
Current == {v \in Datasets : dataset[v] = "active"}
Working == {"loaded", "datasets", "extras", "validated"}
SeedPlaces == Working \cup {"idle", "begun", "done", "failed"}
SavePlaces == {"idle", "looked", "checked", "done"}

SeedsType(overlap) ==
  /\ Reseeding(overlap)!TypeOK
  /\ off \in [Seeds -> SUBSET Datasets]
  /\ \A s \in Seeds : seeding[s] \in SeedPlaces
  /\ \A w \in Saves : seeding[w] \in SavePlaces

SeedsSure ==
  /\ \A s \in Seeds : seeding[s] = "begun" => users
  /\ \A s \in Seeds : seeding[s] \in {"idle", "begun"} => ~ on[s] /\ off[s] = {}
  /\ \A s \in Seeds : seeding[s] \in Working => on[s] \/ (users /\ off[s] = {})
  /\ \A s \in Seeds : seeding[s] \in {"extras", "validated"} => missing \subseteq new[s]
  /\ users => missing = {} /\ Current # {}
  /\ ~ users => Current = {}
LookupsFind ==
  \A w \in Saves :
    /\ seeding[w] \in {"looked", "checked", "done"} => users /\ looked[w].aerodromes # {}
    /\ seeding[w] \in {"checked", "done"} => looked[w].firs # {}

SeedsInv(overlap) == SeedsType(overlap) /\ SeedsSure /\ LookupsFind

\* The datasets of a seed: on and off do not meet.
LEMMA OnIsNotOff ==
  ASSUME NEW overlap \in BOOLEAN, SeedsType(overlap), NEW s \in Seeds
  PROVE  /\ VersionOf[overlap][s] \in Datasets
         /\ off[s] \subseteq Datasets /\ VersionOf[overlap][s] \notin off[s]
BY DatasetsAssumption DEF SeedsType, Reseeding!TypeOK, Reseeding!SeedingAssumption

\* What is active after a commit.
LEMMA CommitActivates ==
  ASSUME NEW overlap \in BOOLEAN, SeedsType(overlap), NEW s \in Seeds,
         Reseeding(overlap)!Commit(s)
  PROVE  /\ Current' = (Current \ off[s]) \cup (IF on[s] THEN {VersionOf[overlap][s]} ELSE {})
         /\ Current' = Reseeding(overlap)!ActiveTo(s)
         /\ dataset' \in [Datasets -> {"absent", "inactive", "active"}]
<1> DEFINE v0 == VersionOf[overlap][s]
<1>1. v0 \in Datasets /\ off[s] \subseteq Datasets /\ v0 \notin off[s]  BY OnIsNotOff
<1>2. dataset' = [v \in Datasets |-> IF v \in off[s] THEN "inactive"
                  ELSE IF on[s] /\ v = v0 THEN "active" ELSE dataset[v]]
  BY DEF Reseeding!Commit
<1>3. dataset \in [Datasets -> {"absent", "inactive", "active"}] /\ on[s] \in BOOLEAN
  BY DEF SeedsType, Reseeding!TypeOK
<1> HIDE DEF v0
<1>4. \A v \in Datasets : dataset'[v] = "active"
        <=> (v \notin off[s] /\ (dataset[v] = "active" \/ (on[s] /\ v = v0)))
  BY <1>2
<1>5. Current' = (Current \ off[s]) \cup (IF on[s] THEN {v0} ELSE {})
  BY <1>1, <1>3, <1>4 DEF Current
<1>6. Reseeding(overlap)!ActiveTo(s) = (Current \ off[s]) \cup (IF on[s] THEN {v0} ELSE {})
  BY DEF Reseeding!ActiveTo, Reseeding!Active, Current, v0
<1> QED  BY <1>2, <1>3, <1>5, <1>6 DEF v0

LEMMA SeedsInit ==
  ASSUME NEW overlap \in BOOLEAN, Reseeding(overlap)!Init
  PROVE  SeedsInv(overlap)
<1> DEFINE empty == [place |-> None, warnings |-> {}]
<1>1. /\ users = FALSE /\ dataset = [v \in Datasets |-> "absent"]
      /\ missing = {"samples", "intake"} /\ draft = empty
      /\ seeding = [x \in Seeds \cup Saves |-> "idle"]
      /\ on = [s \in Seeds |-> FALSE] /\ off = [s \in Seeds |-> {}] /\ new = [s \in Seeds |-> {}]
      /\ found = [s \in Seeds |-> [was |-> empty, val |-> {}]]
      /\ looked = [w \in Saves |-> [aerodromes |-> {}, firs |-> {}]]
  BY DEF Reseeding!Init, Reseeding!Extras
<1>2. \A x \in Seeds \cup Saves : seeding[x] = "idle"  BY <1>1
<1>3. Current = {}  BY <1>1 DEF Current
<1>4. empty \in Reseeding(overlap)!Drafts  BY DEF Reseeding!Drafts
<1> HIDE DEF empty
<1>5. found \in [Seeds -> [was : Reseeding(overlap)!Drafts, val : SUBSET {"place"}]]
  BY <1>1, <1>4
<1>6. looked \in [Saves -> [aerodromes : SUBSET Datasets, firs : SUBSET Datasets]]  BY <1>1
<1>7. Reseeding(overlap)!TypeOK
  BY <1>1, <1>4, <1>5, <1>6 DEF Reseeding!TypeOK, Reseeding!Extras
<1>8. SeedsType(overlap)
  BY <1>1, <1>2, <1>7 DEF SeedsType, SeedPlaces, SavePlaces
<1> QED  BY <1>1, <1>2, <1>3, <1>8 DEF SeedsInv, SeedsSure, LookupsFind, Working
\* What a look-up may find active.
LEMMA AnswersAre ==
  ASSUME NEW overlap \in BOOLEAN, NEW a \in Reseeding(overlap)!Answers
  PROVE  /\ a \in SUBSET Datasets
         /\ Current # {} => a # {}
         /\ \A v : Current = {v} => a = {v}
BY DEF Reseeding!Answers, Reseeding!Active, Current

LEMMA SeedsTyped ==
  ASSUME NEW overlap \in BOOLEAN, SeedsType(overlap), [Reseeding(overlap)!Next]_seedingVars
  PROVE  SeedsType(overlap)'
<1> USE DEF SeedsType, Reseeding!TypeOK, Reseeding!Go, SeedPlaces, SavePlaces, Working,
        Reseeding!db, Reseeding!seedVars
<1>0. /\ \A s \in Seeds : VersionOf[overlap][s] \in Datasets
      /\ Seeds \cap Saves = {}
  BY DatasetsAssumption DEF Reseeding!SeedingAssumption
<1>1. ASSUME NEW s \in Seeds, Reseeding(overlap)!Fill(s) PROVE SeedsType(overlap)'
  BY <1>0, <1>1 DEF Reseeding!Fill
<1>2. ASSUME NEW s \in Seeds, Reseeding(overlap)!Begin(s) PROVE SeedsType(overlap)'
  BY <1>0, <1>2 DEF Reseeding!Begin
<1>3. ASSUME NEW s \in Seeds, Reseeding(overlap)!Uptodate(s) PROVE SeedsType(overlap)'
  BY <1>0, <1>3 DEF Reseeding!Uptodate
<1>4. ASSUME NEW s \in Seeds, Reseeding(overlap)!LoadDatasets(s) PROVE SeedsType(overlap)'
  <2>1. Reseeding(overlap)!Active = Current /\ Current \subseteq Datasets
        /\ VersionOf[overlap][s] \notin Current
    BY <1>4 DEF Reseeding!LoadDatasets, Reseeding!Active, Current
  <2>2. off' \in [Seeds -> SUBSET Datasets]
        /\ \A t \in Seeds : off'[t] \subseteq Datasets \ {VersionOf[overlap][t]}
    BY <1>0, <1>4, <2>1 DEF Reseeding!LoadDatasets
  <2>3. on' \in [Seeds -> BOOLEAN] /\ new' \in [Seeds -> SUBSET (Reseeding(overlap)!Extras \cup {"users", "dataset"})]
    BY <1>4 DEF Reseeding!LoadDatasets
  <2> QED  BY <1>0, <1>4, <2>2, <2>3 DEF Reseeding!LoadDatasets
<1>5. ASSUME NEW s \in Seeds, Reseeding(overlap)!FlushDatasets(s) PROVE SeedsType(overlap)'
  BY <1>0, <1>5 DEF Reseeding!FlushDatasets
<1>6. ASSUME NEW s \in Seeds, Reseeding(overlap)!AddExtras(s) PROVE SeedsType(overlap)'
  BY <1>0, <1>6 DEF Reseeding!AddExtras
<1>7. ASSUME NEW s \in Seeds, Reseeding(overlap)!Revalidate(s) PROVE SeedsType(overlap)'
  BY <1>0, <1>7 DEF Reseeding!Revalidate
<1>8. ASSUME NEW s \in Seeds, Reseeding(overlap)!Commit(s) PROVE SeedsType(overlap)'
  <2>1. dataset' \in [Datasets -> {"absent", "inactive", "active"}]
    BY <1>8, CommitActivates
  <2>2. draft' \in Reseeding(overlap)!Drafts
    BY <1>8 DEF Reseeding!Commit, Reseeding!Drafts
  <2> QED  BY <1>0, <1>8, <2>1, <2>2 DEF Reseeding!Commit
<1>9. ASSUME NEW s \in Seeds, Reseeding(overlap)!Fail(s) PROVE SeedsType(overlap)'
  BY <1>0, <1>9 DEF Reseeding!Fail
<1>10. ASSUME NEW w \in Saves, Reseeding(overlap)!ListAerodromes(w) PROVE SeedsType(overlap)'
  <2>1. PICK a \in Reseeding(overlap)!Answers : looked' = [looked EXCEPT ![w].aerodromes = a]
    BY <1>10 DEF Reseeding!ListAerodromes
  <2>2. looked' \in [Saves -> [aerodromes : SUBSET Datasets, firs : SUBSET Datasets]]
    BY <2>1, AnswersAre
  <2> QED  BY <1>0, <1>10, <2>2 DEF Reseeding!ListAerodromes
<1>11. ASSUME NEW w \in Saves, Reseeding(overlap)!ListFirs(w) PROVE SeedsType(overlap)'
  <2>1. PICK a \in Reseeding(overlap)!Answers : looked' = [looked EXCEPT ![w].firs = a]
    BY <1>11 DEF Reseeding!ListFirs
  <2>2. looked' \in [Saves -> [aerodromes : SUBSET Datasets, firs : SUBSET Datasets]]
    BY <2>1, AnswersAre
  <2> QED  BY <1>0, <1>11, <2>2 DEF Reseeding!ListFirs
<1>12. ASSUME NEW w \in Saves, Reseeding(overlap)!SaveDraft(w) PROVE SeedsType(overlap)'
  <2>1. draft' \in Reseeding(overlap)!Drafts
    BY <1>12 DEF Reseeding!SaveDraft, Reseeding!Drafts, Reseeding!Places
  <2> QED  BY <1>0, <1>12, <2>1 DEF Reseeding!SaveDraft
<1>13. CASE UNCHANGED seedingVars  BY <1>13 DEF seedingVars
<1> QED  BY <1>1, <1>2, <1>3, <1>4, <1>5, <1>6, <1>7, <1>8, <1>9, <1>10, <1>11, <1>12, <1>13
         DEF Reseeding!Next, Reseeding!Seed
LEMMA SeedsStep ==
  ASSUME NEW overlap \in BOOLEAN, SeedsInv(overlap), [Reseeding(overlap)!Next]_seedingVars
  PROVE  SeedsInv(overlap)'
<1>0. /\ SeedsType(overlap)' /\ SeedsType(overlap)
      /\ Seeds \cap Saves = {}
  BY SeedsTyped, DatasetsAssumption DEF SeedsInv, Reseeding!SeedingAssumption
<1>1. /\ seeding \in [Seeds \cup Saves -> SeedPlaces \cup SavePlaces]
      /\ on \in [Seeds -> BOOLEAN] /\ off \in [Seeds -> SUBSET Datasets]
      /\ DOMAIN new = Seeds
      /\ looked \in [Saves -> [aerodromes : SUBSET Datasets, firs : SUBSET Datasets]]
  BY <1>0 DEF SeedsType, Reseeding!TypeOK, SeedPlaces, SavePlaces, Working
<1> USE DEF Reseeding!Go, Working, Reseeding!db, Reseeding!seedVars
<1>2. ASSUME NEW s \in Seeds, Reseeding(overlap)!Fill(s) PROVE SeedsSure' /\ LookupsFind'
  <2>1. Current' = Current  BY <1>2 DEF Reseeding!Fill, Current
  <2> QED  BY <1>0, <1>1, <1>2, <2>1 DEF Reseeding!Fill, SeedsInv, SeedsSure, LookupsFind
<1>3. ASSUME NEW s \in Seeds, Reseeding(overlap)!Begin(s) PROVE SeedsSure' /\ LookupsFind'
  <2>1. Current' = Current  BY <1>3 DEF Reseeding!Begin, Current
  <2> QED  BY <1>0, <1>1, <1>3, <2>1 DEF Reseeding!Begin, SeedsInv, SeedsSure, LookupsFind
<1>4. ASSUME NEW s \in Seeds, Reseeding(overlap)!Uptodate(s) PROVE SeedsSure' /\ LookupsFind'
  <2>1. Current' = Current  BY <1>4 DEF Reseeding!Uptodate, Current
  <2> QED  BY <1>0, <1>1, <1>4, <2>1 DEF Reseeding!Uptodate, SeedsInv, SeedsSure, LookupsFind
<1>5. ASSUME NEW s \in Seeds, Reseeding(overlap)!LoadDatasets(s) PROVE SeedsSure' /\ LookupsFind'
  <2>1. Current' = Current  BY <1>5 DEF Reseeding!LoadDatasets, Current
  <2> QED  BY <1>0, <1>1, <1>5, <2>1 DEF Reseeding!LoadDatasets, SeedsInv, SeedsSure, LookupsFind
<1>6. ASSUME NEW s \in Seeds, Reseeding(overlap)!FlushDatasets(s) PROVE SeedsSure' /\ LookupsFind'
  <2>1. Current' = Current  BY <1>6 DEF Reseeding!FlushDatasets, Current
  <2> QED  BY <1>0, <1>1, <1>6, <2>1 DEF Reseeding!FlushDatasets, SeedsInv, SeedsSure, LookupsFind
<1>7. ASSUME NEW s \in Seeds, Reseeding(overlap)!AddExtras(s) PROVE SeedsSure' /\ LookupsFind'
  <2>1. Current' = Current  BY <1>7 DEF Reseeding!AddExtras, Current
  <2> QED  BY <1>0, <1>1, <1>7, <2>1 DEF Reseeding!AddExtras, SeedsInv, SeedsSure, LookupsFind
<1>8. ASSUME NEW s \in Seeds, Reseeding(overlap)!Revalidate(s) PROVE SeedsSure' /\ LookupsFind'
  <2>1. Current' = Current  BY <1>8 DEF Reseeding!Revalidate, Current
  <2> QED  BY <1>0, <1>1, <1>8, <2>1 DEF Reseeding!Revalidate, SeedsInv, SeedsSure, LookupsFind
<1>9. ASSUME NEW s \in Seeds, Reseeding(overlap)!Commit(s) PROVE SeedsSure' /\ LookupsFind'
  <2>1. Current' = (Current \ off[s]) \cup (IF on[s] THEN {VersionOf[overlap][s]} ELSE {})
    BY <1>0, <1>9, CommitActivates
  <2>2. /\ seeding[s] = "validated" /\ seeding' = [seeding EXCEPT ![s] = "done"]
        /\ users' = TRUE /\ missing' = missing \ new[s]
        /\ UNCHANGED <<on, off, new, found, looked>>
    BY <1>9 DEF Reseeding!Commit
  <2>3. missing' = {}  BY <2>2 DEF SeedsInv, SeedsSure
  <2>4. Current' # {}  BY <2>1, <2>2 DEF SeedsInv, SeedsSure
  <2> QED  BY <1>0, <1>1, <2>2, <2>3, <2>4 DEF SeedsInv, SeedsSure, LookupsFind
<1>10. ASSUME NEW s \in Seeds, Reseeding(overlap)!Fail(s) PROVE SeedsSure' /\ LookupsFind'
  <2>1. Current' = Current  BY <1>10 DEF Reseeding!Fail, Current
  <2> QED  BY <1>0, <1>1, <1>10, <2>1 DEF Reseeding!Fail, SeedsInv, SeedsSure, LookupsFind
<1>11. ASSUME NEW w \in Saves, Reseeding(overlap)!ListAerodromes(w) PROVE SeedsSure' /\ LookupsFind'
  <2>1. PICK a \in Reseeding(overlap)!Answers : looked' = [looked EXCEPT ![w].aerodromes = a]
    BY <1>11 DEF Reseeding!ListAerodromes
  <2>2. Current' = Current /\ a # {} /\ users
    BY <1>11, AnswersAre DEF Reseeding!ListAerodromes, Current, SeedsInv, SeedsSure
  <2> QED  BY <1>0, <1>1, <1>11, <2>1, <2>2
           DEF Reseeding!ListAerodromes, SeedsInv, SeedsSure, LookupsFind
<1>12. ASSUME NEW w \in Saves, Reseeding(overlap)!ListFirs(w) PROVE SeedsSure' /\ LookupsFind'
  <2>1. PICK a \in Reseeding(overlap)!Answers : looked' = [looked EXCEPT ![w].firs = a]
    BY <1>12 DEF Reseeding!ListFirs
  <2>2. Current' = Current /\ a # {} /\ users
    BY <1>12, AnswersAre DEF Reseeding!ListFirs, Current, SeedsInv, SeedsSure, LookupsFind
  <2> QED  BY <1>0, <1>1, <1>12, <2>1, <2>2 DEF Reseeding!ListFirs, SeedsInv, SeedsSure, LookupsFind
<1>13. ASSUME NEW w \in Saves, Reseeding(overlap)!SaveDraft(w) PROVE SeedsSure' /\ LookupsFind'
  <2>1. Current' = Current  BY <1>13 DEF Reseeding!SaveDraft, Current
  <2> QED  BY <1>0, <1>1, <1>13, <2>1 DEF Reseeding!SaveDraft, SeedsInv, SeedsSure, LookupsFind
<1>14. ASSUME UNCHANGED seedingVars PROVE SeedsSure' /\ LookupsFind'
  BY <1>14 DEF seedingVars, SeedsInv, SeedsSure, LookupsFind, Current
<1> QED  BY <1>0, <1>2, <1>3, <1>4, <1>5, <1>6, <1>7, <1>8, <1>9, <1>10, <1>11, <1>12, <1>13, <1>14
         DEF Reseeding!Next, Reseeding!Seed, SeedsInv
\* One at a time: what is active, what a seed will have made active, and what
\* a save has looked up stay the same while it is under way.
Busy(x) == seeding[x] \notin {"idle", "done", "failed"}
Coming(s) == (Current \ off[s]) \cup (IF on[s] THEN {VersionOf[Serial][s]} ELSE {})
Flagged(warnings, place, known) ==
  place # None => ("place" \in warnings <=> \A v \in known : place \notin Known[v])

OneBusy == \A x, y \in Seeds \cup Saves : Busy(x) /\ Busy(y) => x = y
SeedSteady(s) ==
  /\ seeding[s] \in Working /\ on[s] => off[s] = Current
  /\ seeding[s] = "validated" =>
       found[s].was = draft /\ Flagged(found[s].val, draft.place, Coming(s))
SaveSteady(w) ==
  /\ seeding[w] \in {"looked", "checked"} => looked[w].aerodromes = Current
  /\ seeding[w] = "checked" => looked[w].firs = Current

SerialInv ==
  /\ SeedsInv(Serial)
  /\ OneBusy
  /\ users => \E v \in Datasets : Current = {v}
  /\ \A s \in Seeds : SeedSteady(s)
  /\ \A w \in Saves : SaveSteady(w)
  /\ Flagged(draft.warnings, draft.place, Current)

LEMMA SerialIs == ~ Serial /\ Serial \in BOOLEAN
BY DEF Serial

LEMMA SerialInit ==
  ASSUME Reseeding(Serial)!Init
  PROVE  SerialInv
<1>1. SeedsInv(Serial)  BY SerialIs, SeedsInit
<1>2. /\ users = FALSE /\ draft.place = None
      /\ \A x \in Seeds \cup Saves : seeding[x] = "idle"
  BY DEF Reseeding!Init
<1> QED  BY <1>1, <1>2
         DEF SerialInv, OneBusy, Busy, SeedSteady, SaveSteady, Working, Flagged

\* Whoever moves is the only one under way, before if it had begun and after.
LEMMA OneMoves ==
  ASSUME SerialInv, NEW x \in Seeds \cup Saves, NEW to,
         seeding' = [seeding EXCEPT ![x] = to],
         Busy(x) \/ Reseeding(Serial)!Free
  PROVE  /\ \A y \in (Seeds \cup Saves) \ {x} : ~ Busy(y) /\ seeding'[y] = seeding[y]
         /\ seeding'[x] = to
         /\ OneBusy'
<1>1. DOMAIN seeding = Seeds \cup Saves
  BY DEF SerialInv, SeedsInv, SeedsType, Reseeding!TypeOK
<1>2. \A y \in (Seeds \cup Saves) \ {x} : ~ Busy(y)
  BY SerialIs DEF SerialInv, OneBusy, Busy, Reseeding!Free, Reseeding!Open
<1>3. /\ seeding'[x] = to
      /\ \A y \in (Seeds \cup Saves) \ {x} : seeding'[y] = seeding[y]
  BY <1>1
<1> QED  BY <1>2, <1>3 DEF OneBusy, Busy

\* Nobody else is under way, so that only the one who moves matters.
LEMMA OthersSteady ==
  ASSUME NEW x \in Seeds \cup Saves,
         \A y \in (Seeds \cup Saves) \ {x} : seeding'[y] \in {"idle", "done", "failed"},
         x \in Seeds => SeedSteady(x)',
         x \in Saves => SaveSteady(x)'
  PROVE  (\A s \in Seeds : SeedSteady(s)') /\ (\A w \in Saves : SaveSteady(w)')
BY DEF SeedSteady, SaveSteady, Working

LEMMA SerialStep ==
  ASSUME SerialInv, [Reseeding(Serial)!Next]_seedingVars
  PROVE  SerialInv'
<1>0. /\ SeedsInv(Serial)' /\ SeedsInv(Serial) /\ SeedsType(Serial) /\ SeedsSure
      /\ Seeds \cap Saves = {}
  BY SerialIs, SeedsStep, DatasetsAssumption DEF SerialInv, SeedsInv, Reseeding!SeedingAssumption
<1>1. /\ DOMAIN seeding = Seeds \cup Saves
      /\ on \in [Seeds -> BOOLEAN] /\ off \in [Seeds -> SUBSET Datasets]
      /\ found \in [Seeds -> [was : Reseeding(Serial)!Drafts, val : SUBSET {"place"}]]
      /\ looked \in [Saves -> [aerodromes : SUBSET Datasets, firs : SUBSET Datasets]]
  BY <1>0 DEF SeedsType, Reseeding!TypeOK
<1> USE DEF Reseeding!Go, Reseeding!db, Reseeding!seedVars
\* What follows for a step of x after which x is steady.
<1>2. ASSUME NEW x \in Seeds \cup Saves, NEW to, seeding' = [seeding EXCEPT ![x] = to],
             Busy(x) \/ Reseeding(Serial)!Free,
             x \in Seeds => SeedSteady(x)', x \in Saves => SaveSteady(x)',
             users' => \E v \in Datasets : Current' = {v},
             Flagged(draft'.warnings, draft'.place, Current')
      PROVE  SerialInv'
  <2>1. /\ \A y \in (Seeds \cup Saves) \ {x} : seeding'[y] \in {"idle", "done", "failed"}
        /\ OneBusy'
    BY <1>2, OneMoves DEF Busy
  <2>2. (\A s \in Seeds : SeedSteady(s)') /\ (\A w \in Saves : SaveSteady(w)')
    BY <1>2, <2>1, OthersSteady
  <2> QED  BY <1>0, <1>2, <2>1, <2>2 DEF SerialInv, Flagged
\* A step that leaves the database as it is.
<1>3. ASSUME NEW x \in Seeds \cup Saves, NEW to, seeding' = [seeding EXCEPT ![x] = to],
             Busy(x) \/ Reseeding(Serial)!Free,
             x \in Seeds => SeedSteady(x)', x \in Saves => SaveSteady(x)',
             UNCHANGED <<users, dataset, missing, draft>>
      PROVE  SerialInv'
  <2>1. Current' = Current  BY <1>3 DEF Current
  <2>2. /\ users' => \E v \in Datasets : Current' = {v}
        /\ Flagged(draft'.warnings, draft'.place, Current')
    BY <1>3, <2>1 DEF SerialInv
  <2> QED  BY <1>2, <1>3, <2>2
<1>4. ASSUME NEW s \in Seeds, Reseeding(Serial)!Fill(s) PROVE SerialInv'
  <2>1. /\ seeding' = [seeding EXCEPT ![s] = "datasets"] /\ off' = off /\ ~ users
        /\ UNCHANGED <<users, dataset, missing, draft>> /\ Reseeding(Serial)!Free
        /\ seeding[s] = "idle"
    BY <1>4 DEF Reseeding!Fill
  <2>2. Current' = {} /\ off'[s] = {}
    BY <1>0, <2>1 DEF Current, SeedsSure
  <2>3. SeedSteady(s)'  BY <1>1, <2>1, <2>2 DEF SeedSteady
  <2> QED  BY <1>0, <1>3, <2>1, <2>3
<1>5. ASSUME NEW s \in Seeds, Reseeding(Serial)!Begin(s) PROVE SerialInv'
  <2>1. /\ seeding' = [seeding EXCEPT ![s] = "begun"]
        /\ UNCHANGED <<users, dataset, missing, draft>> /\ Reseeding(Serial)!Free
    BY <1>5 DEF Reseeding!Begin
  <2>2. SeedSteady(s)'  BY <1>1, <2>1 DEF SeedSteady, Working
  <2> QED  BY <1>0, <1>3, <2>1, <2>2
<1>6. ASSUME NEW s \in Seeds, Reseeding(Serial)!Uptodate(s) PROVE SerialInv'
  <2>1. /\ seeding' = [seeding EXCEPT ![s] = "datasets"] /\ seeding[s] = "begun"
        /\ UNCHANGED <<users, dataset, missing, draft, on>> /\ ~ on[s]
    BY <1>0, <1>6 DEF Reseeding!Uptodate, SeedsSure
  <2>2. SeedSteady(s)'  BY <1>1, <2>1 DEF SeedSteady
  <2>3. Busy(s)  BY <2>1 DEF Busy
  <2> QED  BY <1>0, <1>3, <2>1, <2>2, <2>3
<1>7. ASSUME NEW s \in Seeds, Reseeding(Serial)!LoadDatasets(s) PROVE SerialInv'
  <2>1. /\ seeding' = [seeding EXCEPT ![s] = "loaded"] /\ seeding[s] = "begun"
        /\ UNCHANGED <<users, dataset, missing, draft>>
        /\ off' = [off EXCEPT ![s] = Current]
    BY <1>7 DEF Reseeding!LoadDatasets, Reseeding!Active, Current
  <2>2. Current' = Current  BY <2>1 DEF Current
  <2>3. SeedSteady(s)'  BY <1>1, <2>1, <2>2 DEF SeedSteady
  <2>4. Busy(s)  BY <2>1 DEF Busy
  <2> QED  BY <1>0, <1>3, <2>1, <2>3, <2>4
<1>8. ASSUME NEW s \in Seeds, NEW from \in {"loaded", "datasets"}, NEW to \in {"datasets", "extras"},
             seeding[s] = from, seeding' = [seeding EXCEPT ![s] = to],
             UNCHANGED <<users, dataset, missing, draft, on, off>>
      PROVE  SerialInv'
  <2>1. Current' = Current  BY <1>8 DEF Current
  <2>2. SeedSteady(s)'  BY <1>1, <1>8, <2>1 DEF SeedSteady, SerialInv, Working
  <2>3. Busy(s)  BY <1>8 DEF Busy
  <2> QED  BY <1>0, <1>3, <1>8, <2>2, <2>3
<1>9. ASSUME NEW s \in Seeds, Reseeding(Serial)!FlushDatasets(s) PROVE SerialInv'
  BY <1>8, <1>9 DEF Reseeding!FlushDatasets
<1>10. ASSUME NEW s \in Seeds, Reseeding(Serial)!AddExtras(s) PROVE SerialInv'
  BY <1>8, <1>10 DEF Reseeding!AddExtras
<1>11. ASSUME NEW s \in Seeds, Reseeding(Serial)!Revalidate(s) PROVE SerialInv'
  <2> DEFINE val == IF \E v \in Reseeding(Serial)!ActiveTo(s) : draft.place \in Known[v] \cup {None}
                    THEN {} ELSE {"place"}
  <2>1. /\ seeding' = [seeding EXCEPT ![s] = "validated"] /\ seeding[s] = "extras"
        /\ UNCHANGED <<users, dataset, missing, draft, on, off>>
        /\ found' = [found EXCEPT ![s] = [was |-> draft, val |-> val]]
    BY <1>11 DEF Reseeding!Revalidate
  <2>2. Current' = Current /\ Coming(s)' = Coming(s)  BY <2>1 DEF Current, Coming
  <2>3. Reseeding(Serial)!ActiveTo(s) = Coming(s)
    BY DEF Reseeding!ActiveTo, Reseeding!Active, Coming, Current
  <2>4. Flagged(val, draft.place, Coming(s))  BY <2>3 DEF Flagged
  <2> HIDE DEF val
  <2>5. found'[s].was = draft' /\ found'[s].val = val  BY <1>1, <2>1
  <2>6. Flagged(found'[s].val, draft'.place, Coming(s)')  BY <2>1, <2>2, <2>4, <2>5
  <2>7. seeding[s] \in Working /\ (on'[s] => off'[s] = Current')
    BY <2>1, <2>2 DEF SerialInv, SeedSteady, Working
  <2>8. SeedSteady(s)'  BY <2>5, <2>6, <2>7 DEF SeedSteady, Flagged
  <2>9. Busy(s)  BY <2>1 DEF Busy
  <2> QED  BY <1>0, <1>3, <2>1, <2>8, <2>9
<1>12. ASSUME NEW s \in Seeds, Reseeding(Serial)!Commit(s) PROVE SerialInv'
  <2> DEFINE v0 == VersionOf[Serial][s]
  <2>1. /\ seeding' = [seeding EXCEPT ![s] = "done"] /\ seeding[s] = "validated"
        /\ draft' = [draft EXCEPT !.warnings =
             IF found[s].was.place # None /\ found[s].val # found[s].was.warnings
             THEN found[s].val ELSE draft.warnings]
    BY <1>12 DEF Reseeding!Commit
  <2>2. Current' = Coming(s)
    BY <1>0, <1>12, SerialIs, CommitActivates DEF Coming
  <2>3. v0 \in Datasets  BY <1>0, SerialIs, OnIsNotOff
  <2>4. \E v \in Datasets : Current' = {v}
    <3>1. CASE on[s]
      <4>1. off[s] = Current  BY <2>1, <3>1 DEF SerialInv, SeedSteady, Working
      <4> QED  BY <2>2, <2>3, <3>1, <4>1 DEF Coming
    <3>2. CASE ~ on[s]
      <4>1. users /\ off[s] = {}  BY <1>0, <2>1, <3>2 DEF SeedsSure, Working
      <4> QED  BY <2>2, <3>2, <4>1 DEF Coming, SerialInv
    <3> QED  BY <3>1, <3>2
  <2>5. draft \in [place : Reseeding(Serial)!Places \cup {None}, warnings : SUBSET {"place", "supplement"}]
    BY <1>0 DEF SeedsType, Reseeding!TypeOK, Reseeding!Drafts
  <2>6. found[s].was = draft /\ Flagged(found[s].val, draft.place, Coming(s))
    BY <2>1 DEF SerialInv, SeedSteady
  <2>7. draft'.place = draft.place
        /\ (draft.place # None => draft'.warnings = found[s].val)
    BY <2>1, <2>5, <2>6
  <2>8. Flagged(draft'.warnings, draft'.place, Current')
    BY <2>2, <2>6, <2>7 DEF Flagged
  <2>9. SeedSteady(s)'  BY <1>1, <2>1 DEF SeedSteady, Working
  <2>10. Busy(s)  BY <2>1 DEF Busy
  <2> QED  BY <1>0, <1>2, <2>1, <2>4, <2>8, <2>9, <2>10
<1>13. ASSUME NEW s \in Seeds, Reseeding(Serial)!Fail(s) PROVE SerialInv'
  <2>1. /\ seeding' = [seeding EXCEPT ![s] = "failed"] /\ Busy(s)
        /\ UNCHANGED <<users, dataset, missing, draft>>
    BY <1>13 DEF Reseeding!Fail, Reseeding!Open, Busy
  <2>2. SeedSteady(s)'  BY <1>1, <2>1 DEF SeedSteady, Working
  <2> QED  BY <1>0, <1>3, <2>1, <2>2
<1>14. ASSUME NEW w \in Saves, Reseeding(Serial)!ListAerodromes(w) PROVE SerialInv'
  <2>1. PICK a \in Reseeding(Serial)!Answers : looked' = [looked EXCEPT ![w].aerodromes = a]
    BY <1>14 DEF Reseeding!ListAerodromes
  <2>2. /\ seeding' = [seeding EXCEPT ![w] = "looked"] /\ Reseeding(Serial)!Free /\ users
        /\ UNCHANGED <<users, dataset, missing, draft>>
    BY <1>14 DEF Reseeding!ListAerodromes
  <2>3. Current' = Current /\ a = Current
    BY <2>2, SerialIs, AnswersAre DEF Current, SerialInv
  <2>4. SaveSteady(w)'  BY <1>1, <2>1, <2>2, <2>3 DEF SaveSteady
  <2> QED  BY <1>0, <1>3, <2>2, <2>4
<1>15. ASSUME NEW w \in Saves, Reseeding(Serial)!ListFirs(w) PROVE SerialInv'
  <2>1. PICK a \in Reseeding(Serial)!Answers : looked' = [looked EXCEPT ![w].firs = a]
    BY <1>15 DEF Reseeding!ListFirs
  <2>2. /\ seeding' = [seeding EXCEPT ![w] = "checked"] /\ seeding[w] = "looked"
        /\ UNCHANGED <<users, dataset, missing, draft>> /\ Busy(w) /\ users
    BY <1>0, <1>15 DEF Reseeding!ListFirs, Busy, SeedsInv, LookupsFind
  <2>3. Current' = Current /\ a = Current /\ looked[w].aerodromes = Current
    BY <2>2, SerialIs, AnswersAre DEF Current, SerialInv, SaveSteady
  <2>4. SaveSteady(w)'  BY <1>1, <2>1, <2>2, <2>3 DEF SaveSteady
  <2> QED  BY <1>0, <1>3, <2>2, <2>4
<1>16. ASSUME NEW w \in Saves, Reseeding(Serial)!SaveDraft(w) PROVE SerialInv'
  <2> DEFINE warnings == {x \in {"place", "supplement"} :
                \/ x = "place" /\ looked[w].aerodromes \cup looked[w].firs # {}
                   /\ \A v \in looked[w].aerodromes : PlaceOf[w] \notin Known[v]
                \/ x = "supplement" /\ w \in Perm}
  <2>1. /\ seeding' = [seeding EXCEPT ![w] = "done"] /\ seeding[w] = "checked"
        /\ UNCHANGED <<users, dataset, missing>> /\ Busy(w)
        /\ draft' = [place |-> PlaceOf[w], warnings |-> warnings]
    BY <1>16 DEF Reseeding!SaveDraft, Busy
  <2>2. Current' = Current  BY <2>1 DEF Current
  <2>3. looked[w].aerodromes = Current /\ Current # {}
    BY <1>0, <2>1 DEF SerialInv, SaveSteady, SeedsSure, SeedsInv, LookupsFind
  <2>4. "place" \in warnings <=> \A v \in Current : PlaceOf[w] \notin Known[v]
    BY <2>3
  <2> HIDE DEF warnings
  <2>5. Flagged(draft'.warnings, draft'.place, Current')
    BY <2>1, <2>2, <2>4 DEF Flagged
  <2>6. users' => \E v \in Datasets : Current' = {v}  BY <2>1, <2>2 DEF SerialInv
  <2>7. SaveSteady(w)'  BY <1>1, <2>1 DEF SaveSteady
  <2> QED  BY <1>0, <1>2, <2>1, <2>5, <2>6, <2>7
<1>17. CASE UNCHANGED seedingVars
  <2>1. Current' = Current /\ \A s \in Seeds : Coming(s)' = Coming(s)
    BY <1>17 DEF seedingVars, Current, Coming
  <2>2. (\A s \in Seeds : SeedSteady(s)') /\ (\A w \in Saves : SaveSteady(w)')
    BY <1>17, <2>1 DEF seedingVars, SerialInv, SeedSteady, SaveSteady, Flagged
  <2> QED  BY <1>0, <1>17, <2>1, <2>2 DEF seedingVars, SerialInv, OneBusy, Busy, Flagged
<1> QED  BY <1>4, <1>5, <1>6, <1>7, <1>9, <1>10, <1>11, <1>12, <1>13, <1>14, <1>15, <1>16, <1>17
         DEF Reseeding!Next, Reseeding!Seed

LEMMA SeedsPromises ==
  ASSUME NEW overlap \in BOOLEAN, SeedsInv(overlap)
  PROVE  /\ Reseeding(overlap)!TypeOK
         /\ Reseeding(overlap)!SeedsAreWhole /\ Reseeding(overlap)!KnownIsNeverEmpty
BY DEF SeedsInv, SeedsType, SeedsSure, LookupsFind, Reseeding!SeedsAreWhole, Reseeding!KnownIsNeverEmpty

LEMMA SerialPromises ==
  ASSUME SerialInv
  PROVE  Reseeding(Serial)!OneActive /\ Reseeding(Serial)!PlacesAreFlagged
<1>1. Reseeding(Serial)!Active = Current  BY DEF Reseeding!Active, Current
<1>2. ASSUME users PROVE Cardinality(Current) = 1
  BY <1>2, FS_Singleton DEF SerialInv
<1>3. Reseeding(Serial)!OneActive
  BY <1>1, <1>2 DEF Reseeding!OneActive, Reseeding!Cardinality, Cardinality
<1>4. Reseeding(Serial)!PlacesAreFlagged
  BY <1>1 DEF SerialInv, Flagged, Reseeding!PlacesAreFlagged
<1> QED  BY <1>3, <1>4
-----------------------------------------------------------------------------
(***************************************************************************)
(* The suggestions.  The first entry of a table that occurs is one entry,  *)
(* so at most one code is read off a narrative, and the proposals are all  *)
(* the codes found, in the order of their ranks.                           *)
(***************************************************************************)
SuggestionsInv ==
  /\ text \subseteq Words
  /\ lexical \in [Catalog -> Lexical] /\ semantic \in [Catalog -> Semantic]
  /\ results = <<>> \/ results \in Suggestions!suggest_q_codes(text, lexical, semantic)

LEMMA TablesAre ==
  /\ DOMAIN Suggestions!Locations = 1..4 /\ DOMAIN Suggestions!Conditions = 1..5
  /\ Suggestions!Conditions[1] = <<"clsd", "LC">>
  /\ Suggestions!Conditions[2] = <<"unserviceable", "AS">>
  /\ Suggestions!Conditions[3] = <<"serviceable", "AK">>
  /\ Suggestions!Conditions[4] = <<"wip", "HW">>
  /\ Suggestions!Conditions[5] = <<"caution", "OB">>
BY DEF Suggestions!Locations, Suggestions!Conditions

LEMMA OneFirst ==
  ASSUME NEW table, NEW n \in Nat, DOMAIN table = 1..n, NEW t
  PROVE  \A a, b \in Suggestions!FirstOf(table, t) : a = b
<1> SUFFICES ASSUME NEW a \in Suggestions!FirstOf(table, t), NEW b \in Suggestions!FirstOf(table, t)
             PROVE  a = b
  OBVIOUS
<1> DEFINE first(j) == /\ Suggestions!Occurs(table[j][1], t)
                       /\ \A k \in 1..(j - 1) : ~ Suggestions!Occurs(table[k][1], t)
<1>1. PICK i \in 1..n : a = table[i][2] /\ first(i)  BY DEF Suggestions!FirstOf
<1>2. PICK j \in 1..n : b = table[j][2] /\ first(j)  BY DEF Suggestions!FirstOf
<1>3. ASSUME NEW x \in 1..n, NEW y \in 1..n, first(x), first(y) PROVE ~ (x < y)
  BY <1>3
<1>4. i = j  BY <1>1, <1>2, <1>3
<1> QED  BY <1>1, <1>2, <1>4

LEMMA OneHit ==
  ASSUME NEW t
  PROVE  \A a, b \in Suggestions!score_narrative(t) : a = b
<1>1. \A a, b \in Suggestions!FirstOf(Suggestions!Locations, t) : a = b
  BY TablesAre, OneFirst, 4 \in Nat
<1>2. \A a, b \in Suggestions!FirstOf(Suggestions!Conditions, t) : a = b
  BY TablesAre, OneFirst, 5 \in Nat
<1>3. \A a, b \in Suggestions!Location(t) : a = b  BY <1>1 DEF Suggestions!Location
<1> QED  BY <1>2, <1>3 DEF Suggestions!score_narrative

LEMMA HitConfidence ==
  ASSUME NEW t, NEW h \in Suggestions!score_narrative(t)
  PROVE  h.confidence \in {42, 48, 80, 84, 88, 90}
<1>1. \A c : Suggestions!Certainty(t, c) \in {80, 84, 88, 90}
  BY DEF Suggestions!Certainty, Suggestions!Least
<1> HIDE DEF Suggestions!Certainty
<1> QED  BY <1>1 DEF Suggestions!score_narrative, Suggestions!Hit

\* The confidence and the rank of what the keyword tier did not find.
LEMMA Rounded ==
  /\ \A n \in 1..11 : Suggestions!Of75(n, 4) \in Nat \ {0}
  /\ \A n \in 0..10 : Suggestions!Of75(n, 10) \in Nat
<1>1. ASSUME NEW n \in 1..11 PROVE Suggestions!Of75(n, 4) \in Nat \ {0}
  <2> DEFINE q == (n * 75) \div 4
  <2>1. q \in Nat /\ q > 0  OBVIOUS
  <2> QED  BY <2>1 DEF Suggestions!Of75
<1>2. ASSUME NEW n \in 0..10 PROVE Suggestions!Of75(n, 10) \in Nat
  <2> DEFINE q == (n * 75) \div 10
  <2>1. q \in Nat  OBVIOUS
  <2> QED  BY <2>1 DEF Suggestions!Of75
<1> QED  BY <1>1, <1>2

LEMMA Blended ==
  ASSUME NEW lex \in 0..11, NEW sem \in 0..10, lex > 0 \/ sem > 0
  PROVE  /\ Suggestions!Blend(lex, sem).confidence \in 1..78
         /\ Suggestions!Blend(lex, sem).rank \in Nat
         /\ lex <= 5 => Suggestions!Blend(lex, sem).rank <= 70
<1>1. CASE lex > 0
  <2>1. Suggestions!Of75(lex, 4) \in Nat \ {0}  BY <1>1, Rounded
  <2>2. Suggestions!Least(75, Suggestions!Of75(lex, 4)) \in 1..75
    BY <2>1 DEF Suggestions!Least
  <2>3. sem \div 2 \in Nat  OBVIOUS
  <2> QED  BY <1>1, <2>2, <2>3 DEF Suggestions!Blend, Suggestions!Least
<1>2. CASE ~ (lex > 0)
  <2>1. Suggestions!Of75(sem, 10) \in Nat  BY Rounded
  <2> QED  BY <1>2, <2>1 DEF Suggestions!Blend, Suggestions!Least, Suggestions!Most
<1> QED  BY <1>1, <1>2
\* The codes found, and what is proposed of each.
Hits == Suggestions!keyword_hits(text)
Found == {q \in Catalog : lexical[q] > 0 \/ semantic[q] > 0 \/ \E h \in Hits : h.code = q}
OfCode(q) == Suggestions!Candidate(q, Hits, lexical[q], semantic[q])

LEMMA CandidateIs ==
  ASSUME SuggestionsInv, NEW q \in Found
  PROVE  /\ lexical[q] \in 0..11 /\ OfCode(q).confidence \in 1..90
         /\ \A h \in Hits : h.code = q =>
              OfCode(q) = [rank |-> h.confidence + 2 * lexical[q], confidence |-> h.confidence]
         /\ (\A h \in Hits : h.code # q) =>
              /\ OfCode(q).confidence <= 78
              /\ lexical[q] <= 5 => OfCode(q).rank \in 0..70
<1>1. lexical[q] \in 0..11 /\ semantic[q] \in 0..10
  <2>1. lexical[q] \in Lexical /\ semantic[q] \in Semantic  BY DEF SuggestionsInv, Found
  <2>2. Lexical \subseteq 0..11 /\ Semantic \subseteq {0} \cup 4..10
    BY SuggestionsAssumption DEF Suggestions!SuggestionsAssumption
  <2>3. {0} \cup 4..10 \subseteq 0..10  OBVIOUS
  <2> QED  BY <2>1, <2>2, <2>3, Zenon
<1>2. ASSUME NEW h \in Hits, h.code = q
      PROVE  OfCode(q) = [rank |-> h.confidence + 2 * lexical[q], confidence |-> h.confidence]
  <2>1. \A a, b \in Hits : a = b  BY OneHit DEF Hits, Suggestions!keyword_hits
  <2>2. (CHOOSE k \in Hits : k.code = q) = h  BY <1>2, <2>1
  <2> QED  BY <1>2, <2>2 DEF OfCode, Suggestions!Candidate
<1>3. ASSUME NEW h \in Hits, h.code = q PROVE OfCode(q).confidence \in 1..90
  <2>1. h.confidence \in 1..90  BY HitConfidence DEF Hits, Suggestions!keyword_hits
  <2> QED  BY <1>2, <1>3, <2>1
<1>4. ASSUME \A h \in Hits : h.code # q
      PROVE  OfCode(q).confidence \in 1..78 /\ (lexical[q] <= 5 => OfCode(q).rank \in 0..70)
  <2>1. OfCode(q) = Suggestions!Blend(lexical[q], semantic[q])
    BY <1>4 DEF OfCode, Suggestions!Candidate
  <2>2. lexical[q] > 0 \/ semantic[q] > 0  BY <1>4 DEF Found
  <2>3. /\ Suggestions!Blend(lexical[q], semantic[q]).confidence \in 1..78
        /\ Suggestions!Blend(lexical[q], semantic[q]).rank \in Nat
        /\ lexical[q] <= 5 => Suggestions!Blend(lexical[q], semantic[q]).rank <= 70
    BY <1>1, <2>2, Blended
  <2>4. OfCode(q).confidence \in 1..78 /\ OfCode(q).rank \in Nat
        /\ (lexical[q] <= 5 => OfCode(q).rank <= 70)
    BY <2>1, <2>3
  <2> QED  BY <2>4
<1> QED  BY <1>1, <1>2, <1>3, <1>4

LEMMA ProposedInOrder ==
  ASSUME SuggestionsInv, results # <<>>
  PROVE  \E r \in [1..Cardinality(Found) -> Found] :
           /\ Cardinality(Found) \in Nat
           /\ \A q \in Found : \E i \in DOMAIN r : r[i] = q
           /\ \A i, j \in DOMAIN r : i < j => OfCode(r[i]).rank >= OfCode(r[j]).rank
           /\ \E n \in Nat :
                /\ n <= limit /\ n <= Cardinality(Found)
                /\ results = [i \in 1..n |-> [code |-> r[i], confidence |-> OfCode(r[i]).confidence]]
<1> DEFINE of == [q \in Found |-> OfCode(q)]
           rank == [q \in Found |-> of[q].rank]
           N == Cardinality(Found)
<1>1. IsFiniteSet(Found) /\ N \in Nat
  <2>1. IsFiniteSet(Catalog)
    BY SuggestionsAssumption
    DEF Suggestions!SuggestionsAssumption, Suggestions!IsFiniteSet, IsFiniteSet
  <2> QED  BY <2>1, FS_Subset, FS_CardinalityType DEF Found
<1>2. Suggestions!Cardinality(Found) = N  BY DEF Suggestions!Cardinality, Cardinality
<1>3. results \in
        {[i \in 1..Suggestions!Least(limit, Len(r)) |->
           [code |-> r[i], confidence |-> of[r[i]].confidence]] : r \in Suggestions!Sorted(Found, rank)}
  BY DEF SuggestionsInv, Suggestions!suggest_q_codes, Found, OfCode, Hits
<1>4. PICK r \in Suggestions!Sorted(Found, rank) :
        results = [i \in 1..Suggestions!Least(limit, Len(r)) |->
                    [code |-> r[i], confidence |-> of[r[i]].confidence]]
  BY <1>3
<1> HIDE DEF of, rank, N
<1>5. /\ r \in [1..N -> Found]
      /\ \A i, j \in 1..N : i < j => r[i] # r[j] /\ rank[r[i]] >= rank[r[j]]
  BY <1>2 DEF Suggestions!Sorted
<1>6. Len(r) = N  BY <1>1, <1>5
<1>7. \A q \in Found : \E i \in 1..N : r[i] = q
  <2>1. r \in Injection(1..N, Found)
    <3>1. ASSUME NEW i \in 1..N, NEW j \in 1..N, r[i] = r[j] PROVE i = j
      BY <1>1, <1>5, <3>1
    <3> QED  BY <1>5, <3>1 DEF Injection, IsInjective
  <2>2. Cardinality(1..N) = N  BY <1>1, FS_Interval
  <2>3. r \in Surjection(1..N, Found)  BY <1>1, <2>1, <2>2, FS_Injection DEF N
  <2> QED  BY <2>3 DEF Surjection
<1>8. \A i, j \in 1..N : i < j => OfCode(r[i]).rank >= OfCode(r[j]).rank
  BY <1>5 DEF rank, of
<1>9. limit \in Nat  BY SuggestionsAssumption DEF Suggestions!SuggestionsAssumption
<1> DEFINE n == Suggestions!Least(limit, N)
<1>10. n \in Nat /\ n <= limit /\ n <= N  BY <1>1, <1>9 DEF Suggestions!Least
<1>11. results = [i \in 1..n |-> [code |-> r[i], confidence |-> of[r[i]].confidence]]
  BY <1>4, <1>6
<1> HIDE DEF n
<1>12. \A i \in 1..n : r[i] \in Found /\ of[r[i]] = OfCode(r[i])
  BY <1>1, <1>5, <1>10 DEF of
<1>13. results = [i \in 1..n |-> [code |-> r[i], confidence |-> OfCode(r[i]).confidence]]
  BY <1>11, <1>12
<1> QED  BY <1>1, <1>5, <1>7, <1>8, <1>10, <1>13 DEF N

LEMMA SuggestionsPromises ==
  ASSUME SuggestionsInv
  PROVE  /\ Suggestions!TypeOK
         /\ Suggestions!FullHitFirst /\ Suggestions!TiersAreApart
         /\ Suggestions!ConfidenceCapped /\ Suggestions!StatusIsPrimary
<1>0. Found \subseteq Catalog  BY DEF Found
<1>1. Suggestions!StatusIsPrimary
  <2> SUFFICES ASSUME NEW h \in Suggestions!score_narrative(text)
               PROVE  /\ "clsd" \in text => h.code[2] = "LC"
                      /\ "unserviceable" \in text => h.code[2] \notin {"AK", "HW", "OB"}
    BY DEF Suggestions!StatusIsPrimary
  <2> DEFINE C == Suggestions!FirstOf(Suggestions!Conditions, text)
  <2>1. (C # {} => h.code[2] \in C)
    BY DEF Suggestions!score_narrative, Suggestions!Hit
  <2>2. {"clsd", "unserviceable"} \subseteq Suggestions!Phrases
    BY TablesAre DEF Suggestions!Phrases
  <2>3. \A w \in {"clsd", "unserviceable"} : w \in text => Suggestions!Occurs(w, text)
    BY <2>2, SuggestionsAssumption
    DEF Suggestions!SuggestionsAssumption, Suggestions!Occurs, SuggestionsInv
  <2>4. ASSUME "clsd" \in text PROVE C = {"LC"}
    <3>1. Suggestions!Occurs(Suggestions!Conditions[1][1], text)
      BY <2>3, <2>4, TablesAre
    <3>2. "LC" \in C  BY <3>1, TablesAre DEF Suggestions!FirstOf
    <3>3. \A a, b \in C : a = b  BY TablesAre, OneFirst, 5 \in Nat
    <3> QED  BY <3>2, <3>3
  <2>5. ASSUME "unserviceable" \in text PROVE C # {} /\ C \subseteq {"LC", "AS"}
    <3>1. Suggestions!Occurs(Suggestions!Conditions[2][1], text)
      BY <2>3, <2>5, TablesAre
    <3>2. C \subseteq {"LC", "AS"}
      BY <3>1, TablesAre DEF Suggestions!FirstOf
    <3>3. C # {}
      <4>1. CASE Suggestions!Occurs(Suggestions!Conditions[1][1], text)
        BY <4>1, TablesAre DEF Suggestions!FirstOf
      <4>2. CASE ~ Suggestions!Occurs(Suggestions!Conditions[1][1], text)
        BY <3>1, <4>2, TablesAre DEF Suggestions!FirstOf
      <4> QED  BY <4>1, <4>2
    <3> QED  BY <3>2, <3>3
  <2> QED  BY <2>1, <2>4, <2>5
<1>2. CASE results = <<>>
  <2>1. DOMAIN results = {} /\ results \in [1..0 -> [code : Catalog, confidence : 1..100]]
    BY <1>2
  <2>2. 0 \in 0..limit  BY SuggestionsAssumption DEF Suggestions!SuggestionsAssumption
  <2> QED
    BY <1>1, <1>2, <2>1, <2>2
    DEF SuggestionsInv, Suggestions!TypeOK, Suggestions!FullHitFirst, Suggestions!TiersAreApart,
        Suggestions!ConfidenceCapped, Suggestions!Confidences, Suggestions!Answered
<1>3. CASE results # <<>>
  <2>1. PICK r \in [1..Cardinality(Found) -> Found] :
           /\ Cardinality(Found) \in Nat
           /\ \A q \in Found : \E i \in DOMAIN r : r[i] = q
           /\ \A i, j \in DOMAIN r : i < j => OfCode(r[i]).rank >= OfCode(r[j]).rank
           /\ \E n \in Nat :
                /\ n <= limit /\ n <= Cardinality(Found)
                /\ results = [i \in 1..n |-> [code |-> r[i], confidence |-> OfCode(r[i]).confidence]]
    BY <1>3, ProposedInOrder
  <2>2. PICK n \in Nat :
                /\ n <= limit /\ n <= Cardinality(Found)
                /\ results = [i \in 1..n |-> [code |-> r[i], confidence |-> OfCode(r[i]).confidence]]
    BY <2>1
  <2> DEFINE offered(i) == [code |-> r[i], confidence |-> OfCode(r[i]).confidence]
  <2>3. DOMAIN results = 1..n /\ \A i \in 1..n : results[i] = offered(i)  BY <2>2
  <2>4. ASSUME NEW i \in 1..n
        PROVE  /\ r[i] \in Found /\ results[i].code = r[i]
               /\ results[i].confidence = OfCode(r[i]).confidence
               /\ results[i] = [code |-> r[i], confidence |-> OfCode(r[i]).confidence]
    <3>1. i \in 1..Cardinality(Found)  BY <2>1, <2>2
    <3>2. r[i] \in Found  BY <3>1
    <3> QED  BY <2>3, <3>2
  <2>5. \A i \in 1..n : results[i].confidence \in 1..90
    <3> SUFFICES ASSUME NEW i \in 1..n PROVE results[i].confidence \in 1..90  OBVIOUS
    <3>1. OfCode(r[i]).confidence \in 1..90  BY <2>4, CandidateIs
    <3> QED  BY <2>4, <3>1
  <2>6. Suggestions!ConfidenceCapped
    <3>1. ASSUME NEW c \in Suggestions!Confidences PROVE c <= 90
      <4>1. PICK i \in 1..n : c = results[i].confidence
        BY <2>3, <3>1 DEF Suggestions!Confidences
      <4>2. c \in 1..90  BY <2>5, <4>1
      <4> QED  BY <4>2
    <3> QED  BY <3>1 DEF Suggestions!ConfidenceCapped
  <2>7. Suggestions!TypeOK
    <3>1. \A i \in 1..n : results[i] \in [code : Catalog, confidence : 1..100]
      <4> SUFFICES ASSUME NEW i \in 1..n PROVE results[i] \in [code : Catalog, confidence : 1..100]
        OBVIOUS
      <4>1. results[i].confidence \in 1..100
        <5>1. results[i].confidence \in 1..90  BY <2>5
        <5> QED  BY <5>1
      <4>2. r[i] \in Catalog  BY <1>0, <2>4
      <4>3. OfCode(r[i]).confidence \in 1..100  BY <2>4, <4>1
      <4>4. offered(i) \in [code : Catalog, confidence : 1..100]  BY <4>2, <4>3
      <4> QED  BY <2>3, <4>4, Zenon
    <3>2. results \in [1..n -> [code : Catalog, confidence : 1..100]]
      BY <2>2, <3>1
    <3>3. n \in 0..limit  BY <2>2, SuggestionsAssumption DEF Suggestions!SuggestionsAssumption
    <3> QED  BY <3>2, <3>3 DEF Suggestions!TypeOK, SuggestionsInv
  <2>8. Suggestions!TiersAreApart
    <3> SUFFICES ASSUME NEW i \in 1..n, results[i].confidence >= 80
                 PROVE  \E h \in Suggestions!Full : h.code = results[i].code
      BY <2>3 DEF Suggestions!TiersAreApart
    <3>0. OfCode(r[i]).confidence = results[i].confidence /\ r[i] \in Found  BY <2>4
    <3>1. ~ (OfCode(r[i]).confidence <= 78)
      <4>1. results[i].confidence \in 1..90  BY <2>5
      <4>2. \A x, y : x \in 1..90 /\ x >= 80 /\ y = x => ~ (y <= 78)  OBVIOUS
      <4> QED  BY <3>0, <4>1, <4>2, Zenon
    <3>2. PICK h \in Hits : h.code = r[i]  BY <2>4, <3>1, CandidateIs
    <3>3. h.confidence = results[i].confidence
      <4>1. OfCode(r[i]) = [rank |-> h.confidence + 2 * lexical[r[i]], confidence |-> h.confidence]
        BY <3>0, <3>2, CandidateIs
      <4> QED  BY <3>0, <4>1
    <3> QED  BY <2>4, <3>2, <3>3 DEF Suggestions!Full, Hits
  <2>9. Suggestions!FullHitFirst
    <3> SUFFICES ASSUME NEW h \in Suggestions!Full, \A q \in Catalog : lexical[q] <= 5
                 PROVE  results[1].code = h.code
      BY DEF Suggestions!FullHitFirst
    <3>1. h \in Hits /\ h.confidence \in 80..90
      BY HitConfidence DEF Suggestions!Full, Hits, Suggestions!keyword_hits
    <3>2. h.code \in Found  BY <3>1 DEF Hits, Found, Suggestions!keyword_hits
    <3>3. PICK j \in 1..Cardinality(Found) : r[j] = h.code  BY <2>1, <3>2
    <3>4. n > 0  BY <1>3, <2>2
    <3>5. 1 \in 1..n /\ 1 \in 1..Cardinality(Found) /\ r[1] \in Found  BY <2>1, <2>2, <3>4
    <3>6. OfCode(h.code).rank \in Int /\ OfCode(h.code).rank >= 80
      <4>1. lexical[h.code] \in 0..11  BY <3>2, CandidateIs
      <4>2. OfCode(h.code) = [rank |-> h.confidence + 2 * lexical[h.code], confidence |-> h.confidence]
        BY <3>1, <3>2, CandidateIs
      <4>3. OfCode(h.code).rank = h.confidence + 2 * lexical[h.code]  BY <4>2
      <4>4. \A x \in 80..90, y \in 0..11 : x + 2 * y \in 80..112  OBVIOUS
      <4>5. OfCode(h.code).rank \in 80..112  BY <3>1, <4>1, <4>3, <4>4, Zenon
      <4>6. \A x \in 80..112 : x \in Int /\ x >= 80  OBVIOUS
      <4> QED  BY <4>5, <4>6, Zenon
    <3>7. ASSUME r[1] # h.code PROVE FALSE
      <4>1. \A k \in Hits : k.code # r[1]
        BY <3>1, <3>7, OneHit DEF Hits, Suggestions!keyword_hits
      <4>2. OfCode(r[1]).rank \in 0..70
        BY <1>0, <3>5, <4>1, CandidateIs
      <4>3. 1 < j  BY <3>3, <3>7
      <4>4. OfCode(r[1]).rank >= OfCode(h.code).rank  BY <2>1, <3>3, <3>5, <4>3
      <4>5. \A x \in Int, y \in 0..70 : x >= 80 => ~ (y >= x)  OBVIOUS
      <4> QED  BY <3>6, <4>2, <4>4, <4>5, Zenon
    <3> QED  BY <2>4, <3>5, <3>7
  <2> QED  BY <1>1, <2>6, <2>7, <2>8, <2>9
<1> QED  BY <1>2, <1>3
LEMMA SuggestionsStep == SuggestionsInv /\ [Suggestions!Next]_suggestionVars => SuggestionsInv'
BY DEF SuggestionsInv, Suggestions!Next, Suggestions!Suggest, suggestionVars

-----------------------------------------------------------------------------
(***************************************************************************)
(* The parts together.                                                     *)
(***************************************************************************)
Inv ==
  /\ shown \in Parts
  /\ RulesInv /\ MatcherInv
  /\ shown = "serial" => SerialInv
  /\ shown # "serial" => SeedsInv(Overlapping)
  /\ shown = "first" => BrandingInv(WithoutRow)
  /\ shown # "first" => BrandingInv(WithRow)
  /\ shown = "suggestions" => SuggestionsInv

LEMMA KindsAre == Overlapping \in BOOLEAN /\ WithRow /\ WithRow \in BOOLEAN /\ WithoutRow \in BOOLEAN
BY DEF Overlapping, WithRow, WithoutRow

LEMMA InvInit == Init => Inv
<1> SUFFICES ASSUME Init PROVE Inv  OBVIOUS
<1>1. shown \in Parts /\ RulesInv /\ MatcherInv  BY RulesInit, MatcherInit DEF Init
<1>2. ASSUME shown = "serial" PROVE SerialInv  BY <1>2, SerialInit DEF Init
<1>3. ASSUME shown # "serial" PROVE SeedsInv(Overlapping)
  BY <1>3, KindsAre, SeedsInit DEF Init
<1>4. ASSUME shown = "first" PROVE BrandingInv(WithoutRow)
  BY <1>4, KindsAre, BrandingInit DEF Init
<1>5. ASSUME shown # "first" PROVE BrandingInv(WithRow)
  BY <1>5, KindsAre, BrandingInit DEF Init
<1>6. ASSUME shown = "suggestions" PROVE SuggestionsInv
  BY <1>6, SuggestionsAssumption
  DEF Init, Suggestions!InitWith, Suggestions!Narratives, Suggestions!NoHits, SuggestionsInv,
      Suggestions!SuggestionsAssumption
<1> QED  BY <1>1, <1>2, <1>3, <1>4, <1>5, <1>6 DEF Inv

\* What each step does to the parts: it is a step of one, or of none.
LEMMA StepOfOne ==
  ASSUME [Next]_referenceVars
  PROVE  /\ shown' = shown
         /\ [RuleVersions!Next]_rulesVars /\ [Matcher!Next]_matcherVars
         /\ IF shown = "serial" THEN [Reseeding(Serial)!Next]_seedingVars
            ELSE [Reseeding(Overlapping)!Next]_seedingVars
         /\ IF shown = "first" THEN [Branding(WithoutRow)!Next]_brandingVars
            ELSE [Branding(WithRow)!Next]_brandingVars
         /\ [Suggestions!Next]_suggestionVars
BY DEF Next, referenceVars

LEMMA InvStep == Inv /\ [Next]_referenceVars => Inv'
<1> SUFFICES ASSUME Inv, [Next]_referenceVars PROVE Inv'  OBVIOUS
<1>1. shown' = shown /\ shown \in Parts  BY StepOfOne DEF Inv
<1>2. RulesInv' /\ MatcherInv'  BY StepOfOne, RulesStep, MatcherStep DEF Inv
<1>3. ASSUME shown = "serial" PROVE SerialInv'  BY <1>3, StepOfOne, SerialStep DEF Inv
<1>4. ASSUME shown # "serial" PROVE SeedsInv(Overlapping)'
  BY <1>4, KindsAre, StepOfOne, SeedsStep DEF Inv
<1>5. ASSUME shown = "first" PROVE BrandingInv(WithoutRow)'
  BY <1>5, KindsAre, StepOfOne, BrandingStep DEF Inv
<1>6. ASSUME shown # "first" PROVE BrandingInv(WithRow)'
  BY <1>6, KindsAre, StepOfOne, BrandingStep DEF Inv
<1>7. ASSUME shown = "suggestions" PROVE SuggestionsInv'
  BY <1>7, StepOfOne, SuggestionsStep DEF Inv
<1> QED  BY <1>1, <1>2, <1>3, <1>4, <1>5, <1>6, <1>7 DEF Inv

LEMMA Invariance == Spec => []Inv
BY InvInit, InvStep, PTL DEF Spec

LEMMA InvPromises == Inv => TypeOK /\ AtMostOneActive /\ PlacesAreFlagged /\ SuggestionsFit
<1> SUFFICES ASSUME Inv PROVE TypeOK /\ AtMostOneActive /\ PlacesAreFlagged /\ SuggestionsFit
  OBVIOUS
<1>1. RuleVersions!TypeOK /\ AtMostOneActive  BY RulesPromises DEF Inv, AtMostOneActive
<1>2. Matcher!TypeOK /\ Matcher!ScoresFitRules /\ Matcher!LoadingIsHeld
  BY MatcherPromises DEF Inv
<1>3. ASSUME shown = "serial"
      PROVE  Reseeding(Serial)!TypeOK /\ Reseeding(Serial)!OneActive /\ Reseeding(Serial)!PlacesAreFlagged
  BY <1>3, SerialIs, SeedsPromises, SerialPromises DEF Inv, SerialInv
<1>4. ASSUME shown # "serial"
      PROVE  /\ Reseeding(Overlapping)!TypeOK
             /\ Reseeding(Overlapping)!SeedsAreWhole /\ Reseeding(Overlapping)!KnownIsNeverEmpty
  BY <1>4, KindsAre, SeedsPromises DEF Inv
<1>5. ASSUME shown = "first" PROVE Branding(WithoutRow)!TypeOK
  BY <1>5, KindsAre, BrandingPromises DEF Inv
<1>6. ASSUME shown # "first" PROVE Branding(WithRow)!TypeOK
  BY <1>6, KindsAre, BrandingPromises DEF Inv
<1>7. ASSUME shown = "suggestions"
      PROVE  /\ Suggestions!TypeOK
             /\ Suggestions!FullHitFirst /\ Suggestions!TiersAreApart
             /\ Suggestions!ConfidenceCapped /\ Suggestions!StatusIsPrimary
  BY <1>7, SuggestionsPromises DEF Inv
<1>8. TypeOK  BY <1>1, <1>2, <1>3, <1>4, <1>5, <1>6, <1>7 DEF TypeOK
<1>9. PlacesAreFlagged  BY <1>3, <1>4 DEF PlacesAreFlagged
<1>10. SuggestionsFit  BY <1>2, <1>7 DEF SuggestionsFit
<1> QED  BY <1>1, <1>8, <1>9, <1>10

-----------------------------------------------------------------------------
\* Versions, sessions, threads, datasets, rows and proposals stay of their
\* types in every part (reference services).
THEOREM TypeCorrect == Spec => []TypeOK
BY Invariance, InvPromises, PTL

\* However many managers activate versions, and however their transactions
\* overlap or end, at most one version is active and no rules with a false
\* checksum are in force (activate_rule_version, reload_catalog).
THEOREM AtMostOneActiveHolds == Spec => []AtMostOneActive
BY Invariance, InvPromises, PTL

\* Seeds and saves one at a time leave one dataset active and a place flagged
\* exactly when it does not know it; overlapping, a seed is seen whole and no
\* look-up meets an empty reference (_seed_aip_reference, create_draft).
THEOREM PlacesAreFlaggedHolds == Spec => []PlacesAreFlagged
BY Invariance, InvPromises, PTL

\* The semantic tier scores the rules it names, and for any table of words the
\* proposals keep their tiers apart, a subject with its condition first
\* (search, suggest_q_codes).
THEOREM SuggestionsFitHolds == Spec => []SuggestionsFit
BY Invariance, InvPromises, PTL

\* No session of the branding writes back what it only read, and no row names
\* a logo that was not stored (update_org_settings, upload_org_logo,
\* remove_org_logo).
THEOREM EditsAreSeparateHolds == Spec => EditsAreSeparate
<1>1. Inv /\ [Next]_referenceVars =>
        [IF shown = "first" THEN Branding(WithoutRow)!EditsOnlyItsOwn
         ELSE Branding(WithRow)!EditsOnlyItsOwn]_referenceVars
  <2> SUFFICES ASSUME Inv, [Next]_referenceVars
               PROVE  IF shown = "first" THEN Branding(WithoutRow)!EditsOnlyItsOwn
                      ELSE Branding(WithRow)!EditsOnlyItsOwn
    OBVIOUS
  <2>1. CASE shown = "first"  BY <2>1, KindsAre, StepOfOne, BrandingStep DEF Inv
  <2>2. CASE shown # "first"  BY <2>2, KindsAre, StepOfOne, BrandingStep DEF Inv
  <2> QED  BY <2>1, <2>2
<1>2. Inv => Branding(WithRow)!LogoIsStored /\ (shown # "first" => Branding(WithRow)!SingletonRow)
  <2>1. ASSUME Inv, shown = "first" PROVE Branding(WithRow)!LogoIsStored
    BY <2>1, KindsAre, BrandingPromises DEF Inv
  <2>2. ASSUME Inv, shown # "first"
        PROVE  Branding(WithRow)!LogoIsStored /\ Branding(WithRow)!SingletonRow
    BY <2>2, KindsAre, BrandingPromises DEF Inv
  <2> QED  BY <2>1, <2>2
<1> QED  BY Invariance, <1>1, <1>2, PTL DEF Spec, EditsAreSeparate

=============================================================================
