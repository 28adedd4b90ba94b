------------------------------ MODULE Seeding ------------------------------
(***************************************************************************)
(* app.seed: one transaction that fills an empty database, or brings one   *)
(* that has users up to date: it activates the AIP dataset of its own code, *)
(* adds the sample drafts and the intake account that are missing, and     *)
(* validates every draft again.  Beside it, the saves of one draft, which  *)
(* look its place up in the active dataset.  PostgreSQL, READ COMMITTED.   *)
(***************************************************************************)
EXTENDS FiniteSets, Naturals

CONSTANTS
  Versions,   \* dataset versions
  Known,      \* the location indicators in each
  Seeds,      \* runs of app.seed
  VersionOf,  \* the dataset version each run's code carries
  Saves,      \* saves of the draft
  PlaceOf,    \* item A of each
  Perm,       \* those of a PERM NOTAM without an AIP supplement
  Overlap,    \* FALSE: one transaction at a time
  NoPlace

Places == {PlaceOf[w] : w \in Saves}

SeedingAssumption ==
  /\ VersionOf \in [Seeds -> Versions]
  /\ \A v \in Versions : Known[v] # {}
  /\ Perm \subseteq Saves /\ NoPlace \notin Places
  /\ Seeds \cap Saves = {}

VARIABLES
  users,     \* the accounts, the rule version and the sample requests are there
  dataset,   \* the row of each dataset version
  missing,   \* not there yet: drafts of the sample requests, intake account
  draft,     \* the draft: its place and the warnings of its validation_result
  pc,        \* progress of seeds and saves
  on, off,   \* of each seed: it activates its version; those it deactivates
  new,       \* of each seed: what it inserts, its dataset among it
  found,     \* of each seed: the draft it loaded, and its warnings for it
  looked     \* of each save: the datasets its aerodromes and FIRs are of

seedVars == <<on, off, new, found>>
db == <<users, dataset, missing, draft>>
vars == <<db, pc, seedVars, looked>>

Extras == {"samples", "intake"}
Drafts == [place : Places \cup {NoPlace}, warnings : SUBSET {"place", "supplement"}]

TypeOK ==
  /\ users \in BOOLEAN
  /\ dataset \in [Versions -> {"absent", "inactive", "active"}]
  /\ missing \subseteq Extras
  /\ draft \in Drafts
  /\ pc \in [Seeds \cup Saves ->
       {"idle", "begun", "loaded", "datasets", "extras", "validated",
        "looked", "checked", "done", "failed"}]
  /\ on \in [Seeds -> BOOLEAN]
  /\ \A s \in Seeds : off[s] \subseteq Versions \ {VersionOf[s]}
  /\ new \in [Seeds -> SUBSET (Extras \cup {"users", "dataset"})]
  /\ found \in [Seeds -> [was : Drafts, val : SUBSET {"place"}]]
  /\ looked \in [Saves -> [aerodromes : SUBSET Versions, firs : SUBSET Versions]]

Init ==
  /\ users = FALSE
  /\ dataset = [v \in Versions |-> "absent"]
  /\ missing = Extras
  /\ draft = [place |-> NoPlace, warnings |-> {}]
  /\ pc = [x \in Seeds \cup Saves |-> "idle"]
  /\ on = [s \in Seeds |-> FALSE]
  /\ off = [s \in Seeds |-> {}]
  /\ new = [s \in Seeds |-> {}]
  /\ found = [s \in Seeds |-> [was |-> draft, val |-> {}]]
  /\ looked = [w \in Saves |-> [aerodromes |-> {}, firs |-> {}]]

-----------------------------------------------------------------------------
Go(x, from, to) == pc[x] = from /\ pc' = [pc EXCEPT ![x] = to]

Open(x) == pc[x] \notin {"idle", "done", "failed"}
Free == Overlap \/ \A x \in Seeds \cup Saves : ~ Open(x)

Active == {v \in Versions : dataset[v] = "active"}

\* What a seed sees of the datasets: committed rows and its own.
ActiveTo(s) == (Active \ off[s]) \cup (IF on[s] THEN {VersionOf[s]} ELSE {})

\* Rows a seed has flushed and not committed; another one that updates them,
\* or inserts the same, waits.
Flushed(s) == pc[s] \in {"datasets", "extras", "validated"}
Held(s) == (IF on[s] THEN {VersionOf[s]} ELSE {}) \cup off[s]

\* The first seed inserts everything, its dataset already active.
Fill(s) ==
  /\ Free /\ ~ users
  /\ \A t \in Seeds : ~ (Open(t) /\ "users" \in new[t])
  /\ Go(s, "idle", "datasets")
  /\ on' = [on EXCEPT ![s] = TRUE]
  /\ new' = [new EXCEPT ![s] = {"users", "dataset"}]
  /\ UNCHANGED <<db, off, found, looked>>

\* Otherwise it starts with the datasets.
Begin(s) ==
  /\ Free /\ users
  /\ Go(s, "idle", "begun")
  /\ UNCHANGED <<db, seedVars, looked>>

\* Its version is active: nothing to do.
Uptodate(s) ==
  /\ VersionOf[s] \in Active
  /\ Go(s, "begun", "datasets")
  /\ UNCHANGED <<db, seedVars, looked>>

\* All rows are loaded and made inactive, its own is made active or added.
LoadDatasets_KeepingOthers(s) ==
  /\ VersionOf[s] \notin Active
  /\ Go(s, "begun", "loaded")
  /\ on' = [on EXCEPT ![s] = TRUE]
  /\ new' = [new EXCEPT ![s] = IF dataset[VersionOf[s]] = "absent" THEN {"dataset"} ELSE {}]
  /\ UNCHANGED <<db, off, found, looked>>
LoadDatasets(s) ==
  /\ VersionOf[s] \notin Active
  /\ Go(s, "begun", "loaded")
  /\ on' = [on EXCEPT ![s] = TRUE]
  /\ off' = [off EXCEPT ![s] = Active]
  /\ new' = [new EXCEPT ![s] = IF dataset[VersionOf[s]] = "absent" THEN {"dataset"} ELSE {}]
  /\ UNCHANGED <<db, found, looked>>

FlushDatasets(s) ==
  /\ \A t \in Seeds \ {s} : Flushed(t) => Held(s) \cap Held(t) = {}
  /\ "dataset" \in new[s] => dataset[VersionOf[s]] = "absent"
  /\ Go(s, "loaded", "datasets")
  /\ UNCHANGED <<db, seedVars, looked>>

\* Drafts of the sample requests and the intake account, if they are missing;
\* one that another seed is adding is waited for, and then found or refused.
AddExtras(s) ==
  /\ Go(s, "datasets", "extras")
  /\ new' = [new EXCEPT ![s] = @ \cup missing]
  /\ \A t \in Seeds \ {s} : Flushed(t) => missing \cap new[t] = {}
  /\ UNCHANGED <<db, on, off, found, looked>>

\* validate_selection and the look-up of item A, for the draft as loaded.
Revalidate_AsActive(s) ==
  /\ Go(s, "extras", "validated")
  /\ found' = [found EXCEPT ![s] = [was |-> draft,
       val |-> IF \E v \in Active : draft.place \in Known[v] \cup {NoPlace} THEN {} ELSE {"place"}]]
  /\ UNCHANGED <<db, on, off, new, looked>>
Revalidate(s) ==
  /\ Go(s, "extras", "validated")
  /\ found' = [found EXCEPT ![s] = [was |-> draft,
       val |-> IF \E v \in ActiveTo(s) : draft.place \in Known[v] \cup {NoPlace} THEN {} ELSE {"place"}]]
  /\ UNCHANGED <<db, on, off, new, looked>>

\* The commit writes validation_result where it differs from the one loaded.
Commit_Early(s) ==
  /\ Go(s, "datasets", "done")
  /\ users' = TRUE
  /\ dataset' = [v \in Versions |-> IF v \in off[s] THEN "inactive"
                 ELSE IF on[s] /\ v = VersionOf[s] THEN "active" ELSE dataset[v]]
  /\ UNCHANGED <<missing, draft, seedVars, looked>>
Commit_InTwo(s) ==
  /\ Go(s, "validated", "done")
  /\ users' = TRUE
  /\ dataset' = [v \in Versions |-> IF v \in off[s] THEN "inactive" ELSE dataset[v]]
  /\ missing' = missing \ new[s]
  /\ draft' = [draft EXCEPT !.warnings = IF found[s].was.place = NoPlace THEN @ ELSE found[s].val]
  /\ UNCHANGED <<seedVars, looked>>
Commit(s) ==
  /\ Go(s, "validated", "done")
  /\ users' = TRUE
  /\ dataset' = [v \in Versions |-> IF v \in off[s] THEN "inactive"
                 ELSE IF on[s] /\ v = VersionOf[s] THEN "active" ELSE dataset[v]]
  /\ missing' = missing \ new[s]
  /\ draft' = [draft EXCEPT !.warnings =
       IF found[s].was.place # NoPlace /\ found[s].val # found[s].was.warnings
       THEN found[s].val ELSE @]
  /\ UNCHANGED <<seedVars, looked>>

\* A unique key another seed has taken, a lost connection or an interrupted
\* run: all of it is rolled back.
Fail(s) ==
  /\ Open(s)
  /\ pc' = [pc EXCEPT ![s] = "failed"]
  /\ UNCHANGED <<db, seedVars, looked>>

-----------------------------------------------------------------------------
\* Each list of the provider asks anew which dataset is active, and takes any
\* if there are several.
Answers == IF Active = {} THEN {{}} ELSE {{v} : v \in Active}

ListAerodromes(w) ==
  /\ Free /\ users
  /\ Go(w, "idle", "looked")
  /\ \E a \in Answers : looked' = [looked EXCEPT ![w].aerodromes = a]
  /\ UNCHANGED <<db, seedVars>>

ListFirs(w) ==
  /\ Go(w, "looked", "checked")
  /\ \E a \in Answers : looked' = [looked EXCEPT ![w].firs = a]
  /\ UNCHANGED <<db, seedVars>>

\* Item A is an aerodrome; nothing is said of it when nothing is known.
SaveDraft(w) ==
  /\ Go(w, "checked", "done")
  /\ draft' = [place |-> PlaceOf[w],
       warnings |-> {x \in {"place", "supplement"} :
         \/ x = "place" /\ looked[w].aerodromes \cup looked[w].firs # {}
            /\ \A v \in looked[w].aerodromes : PlaceOf[w] \notin Known[v]
         \/ x = "supplement" /\ w \in Perm}]
  /\ UNCHANGED <<users, dataset, missing, seedVars, looked>>

Seed(s) == \/ Fill(s) \/ Begin(s) \/ Uptodate(s) \/ LoadDatasets(s) \/ FlushDatasets(s)
           \/ AddExtras(s) \/ Revalidate(s) \/ Commit(s) \/ Fail(s)

Next == \/ \E s \in Seeds : Seed(s)
        \/ \E w \in Saves : ListAerodromes(w) \/ ListFirs(w) \/ SaveDraft(w)

Spec == Init /\ [][Next]_vars

-----------------------------------------------------------------------------
\* "Exactly one dataset is `active` at a time" (AipDataset), once there is one.
OneActive == users => Cardinality(Active) = 1

\* Nothing of a seed is seen before all of it: an office with accounts has the
\* drafts of its sample requests and the account that receives e-mail.
SeedsAreWhole == users => missing = {}

\* A look-up in a seeded system never meets an empty reference, which would
\* let every place pass without a warning (create_draft).
KnownIsNeverEmpty == \A w \in Saves :
  pc[w] \in {"checked", "done"} => looked[w].aerodromes # {} /\ looked[w].firs # {}

\* "Re-evaluate validation results ... against the currently active AIP
\* dataset" (seed.py): a place is flagged exactly when it is unknown there,
\* whether it was saved before or after the dataset became active.
PlacesAreFlagged ==
  draft.place # NoPlace =>
    ("place" \in draft.warnings <=> \A v \in Active : draft.place \notin Known[v])

\* "`python -m app.seed` is idempotent and does nothing on a database that
\* already has users" (README.md).
ReseedDoesNothing ==
  [][\A s \in Seeds : users /\ pc[s] # "done" /\ pc'[s] = "done" => UNCHANGED db]_vars

\* "rows scoped to a single active AipDataset" (provider.py).
ListsAgree == \A w \in Saves :
  pc[w] \in {"checked", "done"} => looked[w].aerodromes = looked[w].firs
=============================================================================
