------------------------------ MODULE Reference ------------------------------
(***************************************************************************)
(* The data that drafts are checked against, and what is proposed from it: *)
(* the rule versions, the seeds of the reference datasets, the branding of *)
(* the office, the matcher's loading, and the suggestions.  As in Intake a *)
(* behaviour shows one part, and the others stand still.                   *)
(***************************************************************************)
EXTENDS Naturals, Sequences, FiniteSets

CONSTANTS
  Versions, Shipped, Genuine, Rules, Managers,       \* of RuleCatalog
  Datasets, Known, Seeds, VersionOf, Saves, PlaceOf, Perm,   \* of Seeding; VersionOf by Overlap
  Editors, Kind, MediaType,                          \* of OrgBranding; both by Seeded
  Words, Within, MaxWords, Catalog, Lexical, Semantic, limit,   \* of QCodeSuggestions
  Faults, None

VARIABLES
  shown,
  active, catalog, session, locked, settled, drafts,
  inForce, model, rules, embedded, initialized, loading, holder, thread, answer,
  users, dataset, missing, draft, seeding, on, off, new, found, looked,
  rows, object, editing,
  text, lexical, semantic, results

rulesVars == <<active, catalog, session, locked, settled, drafts>>
matcherVars == <<inForce, model, rules, embedded, initialized, loading, holder, thread, answer>>
seedingVars == <<users, dataset, missing, draft, seeding, on, off, new, found, looked>>
brandingVars == <<rows, object, editing>>
suggestionVars == <<text, lexical, semantic, results>>
referenceVars == <<shown, rulesVars, matcherVars, seedingVars, brandingVars, suggestionVars>>

-----------------------------------------------------------------------------
RuleVersions == INSTANCE RuleCatalog

Matcher == INSTANCE SemanticMatcher WITH catalog <- inForce, pc <- thread

\* One transaction at a time, and several.
Serial == FALSE
Overlapping == TRUE
Reseeding(overlap) == INSTANCE Seeding WITH
  Versions <- Datasets, VersionOf <- VersionOf[overlap], Overlap <- overlap,
  NoPlace <- None, pc <- seeding

\* With and without a row to begin with.
WithRow == TRUE
WithoutRow == FALSE
Branding(seeded) == INSTANCE OrgBranding WITH
  Sessions <- Editors[seeded], Kind <- Kind[seeded], Seeded <- seeded, session <- editing

Suggestions == INSTANCE QCodeSuggestions

ASSUME RulesAssumption == RuleVersions!VersionsAssumption /\ Matcher!MatcherAssumption
ASSUME DatasetsAssumption == \A overlap \in BOOLEAN : Reseeding(overlap)!SeedingAssumption
ASSUME BrandingAssumption == \A seeded \in BOOLEAN : Branding(seeded)!SessionsAssumption
ASSUME SuggestionsAssumption == Suggestions!SuggestionsAssumption

-----------------------------------------------------------------------------
Parts == {"rules", "matcher", "serial", "overlapping", "seeded", "first", "suggestions"}

Init ==
  /\ shown \in Parts
  /\ RuleVersions!Init /\ Matcher!Init
  /\ IF shown = "serial" THEN Reseeding(Serial)!Init ELSE Reseeding(Overlapping)!Init
  /\ IF shown = "first" THEN Branding(WithoutRow)!Init ELSE Branding(WithRow)!Init
  /\ Suggestions!InitWith(IF shown = "suggestions" THEN Suggestions!Narratives ELSE {{}})

Next ==
  \/ /\ shown = "rules" /\ RuleVersions!Next
     /\ UNCHANGED <<shown, matcherVars, seedingVars, brandingVars, suggestionVars>>
  \/ /\ shown = "matcher" /\ Matcher!Next
     /\ UNCHANGED <<shown, rulesVars, seedingVars, brandingVars, suggestionVars>>
  \/ /\ shown = "serial" /\ Reseeding(Serial)!Next
     /\ UNCHANGED <<shown, rulesVars, matcherVars, brandingVars, suggestionVars>>
  \/ /\ shown = "overlapping" /\ Reseeding(Overlapping)!Next
     /\ UNCHANGED <<shown, rulesVars, matcherVars, brandingVars, suggestionVars>>
  \/ /\ shown = "seeded" /\ Branding(WithRow)!Next
     /\ UNCHANGED <<shown, rulesVars, matcherVars, seedingVars, suggestionVars>>
  \/ /\ shown = "first" /\ Branding(WithoutRow)!Next
     /\ UNCHANGED <<shown, rulesVars, matcherVars, seedingVars, suggestionVars>>
  \/ /\ shown = "suggestions" /\ Suggestions!Next
     /\ UNCHANGED <<shown, rulesVars, matcherVars, seedingVars, brandingVars>>

Spec == Init /\ [][Next]_referenceVars

-----------------------------------------------------------------------------
TypeOK ==
  /\ RuleVersions!TypeOK /\ Matcher!TypeOK
  /\ IF shown = "serial" THEN Reseeding(Serial)!TypeOK ELSE Reseeding(Overlapping)!TypeOK
  /\ IF shown = "first" THEN Branding(WithoutRow)!TypeOK ELSE Branding(WithRow)!TypeOK
  /\ shown = "suggestions" => Suggestions!TypeOK

\* However activations overlap, are rolled back or cut off, two rule versions
\* are never active together, and no rules with a false checksum are in force
\* or have passed a draft (activate_rule_version, reload_catalog).
AtMostOneActive == RuleVersions!AtMostOneActive /\ RuleVersions!OnlyGenuineRules

\* Seeds and saves one at a time: one dataset is active, and a place is
\* flagged exactly when that dataset does not know it, whichever came first.
\* Overlapping: what a seed brings is seen all together or not at all, and no
\* look-up meets an empty reference (_seed_aip_reference, create_draft).
PlacesAreFlagged ==
  /\ shown = "serial" => Reseeding(Serial)!OneActive /\ Reseeding(Serial)!PlacesAreFlagged
  /\ shown = "overlapping" => Reseeding(Overlapping)!SeedsAreWhole /\ Reseeding(Overlapping)!KnownIsNeverEmpty

\* No session writes back a name or a logo that it only read; a row never names
\* a logo that was not stored, and there is one row if there was one
\* (update_org_settings, upload_org_logo, remove_org_logo).
EditsAreSeparate ==
  /\ [][IF shown = "first" THEN Branding(WithoutRow)!EditsOnlyItsOwn ELSE Branding(WithRow)!EditsOnlyItsOwn]_referenceVars
  /\ [](Branding(WithRow)!LogoIsStored /\ (shown # "first" => Branding(WithRow)!SingletonRow))

\* What the semantic tier scores are the rules it names, whichever thread
\* loads the model while versions are activated; and in the proposals what was
\* read off the text as subject and condition comes first, its status is not
\* read out of the opposite, and nothing else is as sure (search,
\* suggest_q_codes).
SuggestionsFit ==
  /\ Matcher!ScoresFitRules /\ Matcher!LoadingIsHeld
  /\ shown = "suggestions" =>
       /\ Suggestions!FullHitFirst /\ Suggestions!TiersAreApart
       /\ Suggestions!ConfidenceCapped /\ Suggestions!StatusIsPrimary
=============================================================================
