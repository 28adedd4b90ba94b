# NOTAMSYS in TLA+

NOTAMSYS is the workflow system of a NOTAM office: it takes requests in, lets
staff prepare a NOTAM, has it reviewed by a second person, sends it over several
channels and keeps the evidence. This directory holds TLA+ modules of that
system, the TLC configurations that check them on small instances and proofs
that TLAPS checks for every instance. Paths below are relative to the repository
root; `api/` stands for `apps/api/app/`.

## 1. Inventory

| Part | State it keeps | Operations | Meets |
|---|---|---|---|
| NOTAM workflow: `api/services/workflow.py`, `api/api/router.py` | status of a request, its audit events, its NOTAM row (number, kind, reference, text, preparer, approver, `published_at`) | create, save draft, submit, request changes, approve, publish, mark published | every other part writes through it |
| Publication: `api/services/publication/` | one delivery per channel per publish call: status, body, external reference | dispatch, retry, acknowledge, reconcile | workflow, bridge, evidence store (AIXM) |
| AFTN outbox and bridge: `router.py`, `scripts/aftn_bridge.py` | files in the watched directory | poll, write, acknowledge | publication, over HTTP, from another machine |
| NOTAM text: `api/services/formatter.py`, `publication/aftn.py` | none | wrap items, check the alphabet, build the envelope | workflow, publication |
| Registry of published NOTAMs: `router.py`, `published-notam-registry.tsx` | none (derived from rows and the clock) | list, filter, count | workflow |
| Accounts and sessions: `api/dependencies.py`, `api/core/security.py`, `router.py` | accounts, roles, tokens, `last_seen_at` | login, refresh, role check, create, deactivate, presence | every handler |
| Web session: `apps/web/src/middleware.ts`, the proxy route | two cookies | renew, pass on, second attempt, logout | accounts |
| Workbench: `notam-workbench.tsx` | a form, the draft last loaded or saved, the request as rendered | load, save, submit, approve, return | workflow, over HTTP |
| Intake: `api/services/intake/email_poller.py`, `api/email_poller.py` | the mailbox's Seen flags | poll, ingest | workflow, evidence store |
| Evidence storage: `api/services/storage.py` | files or objects named by their SHA-256 | put, get | attachments, AIXM channel, branding |
| Extraction pipeline: `api/services/extraction/orchestrator.py` | runs and extracted fields, `extracted_data` of the request | run, rerun, accept | attachments |
| Suggestions: `extraction/narrative.py`, `keyword_rules.py`, `semantic.py` | a matcher per process: model, rules, embeddings | warm up, search, suggest | rules |
| Selection rules: `api/services/rules.py`, `router.py` | rule versions, the catalog in memory | activate a version, reload, validate | workflow |
| Reference data and seeding: `api/seed.py`, `api/services/aip/` | active AIP dataset, sample rows | fill, activate, add what is missing, revalidate every stored draft | workflow (`validation_result`) |
| Branding: `router.py` | one settings row, one logo | read, update, upload, remove | evidence store |

The API is one asyncio process. Every request has its own database session
(`api/core/database.py`), nothing is locked but by an UPDATE, no row carries a
version, and a handler commits once, at its end; a handler that raises rolls
everything back. Handlers interleave wherever they await. The bridge, the e-mail
poller, the seed script and the Celery worker are processes of their own.

What makes this hard: a status is read, checked and written by handlers that may
interleave; channels fail and are retried one by one and acknowledged late; a
publication may be repeated; a number is computed from the rows and also printed
in a text; external effects (a mail sent, a file written, a flag set) precede
the commit that records them; values are cached (the catalog, the embeddings, a
page's form, a token) beside the rows they come from; tokens expire while the
request that carries them is under way.

What makes each part correct:

- *Workflow*: four eyes; an approved text never changes; every status is reached
  along the table and the audit trail replays to it; numbers identify NOTAMs.
- *Publication*: only approved NOTAMs are sent; a request completes exactly when
  its channels have; what counts as acknowledged left the house, was simulated by
  configuration, or was confirmed.
- *Bridge*: every queued envelope is eventually written and acknowledged; what is
  acknowledged was written.
- *Text and registry*: nothing the officer typed is lost on the way to the
  terminal; a NOTAM out of force stays so.
- *Accounts and web*: a deactivated account does nothing; nothing is done twice;
  nobody is sent away without a cause; what is submitted was saved.
- *Rules, reference data, suggestions*: one version is active, its rules are
  genuine; drafts carry the warnings of the data in force; scores belong to the
  rules they are shown for.
- *Intake, storage, extraction*: no mail is lost or taken twice; evidence is what
  its hash says; extracted data is what a recorded run read.

The hazards behind these, at their lines, are listed in `PROJECT.json`.

## 2. Modules

| Module | What it is |
|---|---|
| `Workflow` | roles, statuses, `TRANSITIONS`, and walks through that table |
| `NotamLifecycle` | the core: requests, NOTAM rows, deliveries; one action per endpoint |
| `ApprovalGate` | abstract specification: prepare, sign by another, release, nothing after |
| `NotamSessions` | the same handlers split at their awaits, flushes, row locks and commits; refers to `NotamLifecycle` as its abstract specification |
| `AftnBridge` | the pull queue of AFTN envelopes: outbox endpoints, bridge process, watched directory |
| `Channels` | one publication on its four channels: adapters, receipts, roll-backs, retries, changes of settings; its outcomes are those of `NotamLifecycle` |
| `NotamText` | items wrapped into lines and then into an AFTN envelope |
| `NotamRegistry` | the life-cycle status of published NOTAMs, and its filters |
| `EmailIntake` | the mail poller: flags, evidence, transaction, loop |
| `EvidenceStore` | uploads to either store, the unique key of the rows |
| `ExtractionRuns` | runs as transactions, and the acceptance of their fields |
| `Accounts` | accounts, tokens, middleware, proxy, presence |
| `Workbench` | pages of one request, their calls and the answers to them |
| `RuleCatalog` | activation of rule versions, the catalog in memory, drafts |
| `SemanticMatcher` | the matcher's lock, flags, embeddings and its two threads |
| `QCodeSuggestions` | the tiers of the suggestions, their ranks and caps |
| `Seeding` | seeds of several codes beside saves of one draft |
| `OrgBranding` | sessions that edit the settings row and the logo |
| `Intake`, `Publication`, `Web`, `Reference` | composition of the parts that meet in one stage of the work |
| `MCNotamLifecycle`, `MCNotamSessions`, `MCIntake`, `MCPublication`, `MCWeb`, `MCReference` | constants of the small instances |
| `NotamLifecycleProofs`, `NotamSessionsProofs`, `AftnBridgeProofs`, `IntakeProofs`, `PublicationProofs`, `WebProofs`, `ReferenceProofs` | theorems about the module each is named after |
| `NotamSessionsRefinement` | the proof that `NotamSessions` implements `NotamLifecycle` |

### NotamLifecycle

| Variable | Code |
|---|---|
| `status`, `trail` | `notam_requests.status`; the statuses in the request's audit events (the first stands for `request_received`, which names none) |
| `notam` | the row of `notams`: `id` is (series, serial_number, year); `printed` and `printedRef` are the identifiers inside `formatted_message`; `body` the other content; `valid` is `validation_result.valid`; `published` is "`published_at` is set" |
| `deliveries` | rows of `publication_deliveries`, one function from channels to statuses for every call of `publish` |
| `year` | the calendar year of `create_draft` |
| `preparers` | history: every account that saved the NOTAM |

Each action is a handler run to its commit: `CreateRequest` (three ways in),
`SaveDraft`, `Submit`, `RequestChanges`, `Approve`, `Publish`, `RetryDelivery`,
`AcknowledgeDelivery`, `AftnAck`, `MarkPublished`, and `RevalidateDrafts` of the
seed script. A handler that chains transitions before its commit walks a *path*
through the table (`Transition`), as `SaveDraft` does on a new request
(received, triage, draft) and `Publish` when all channels answer at once.

Data is abstracted to what the properties tell apart: a body is a model value,
either within the AFTN alphabet and line width (`ITA2`) or not. Which outcomes
a channel may have (`Outcomes`) follows from the adapters `build_adapter`
chooses; `Channels` derives them from the adapters and checks that they are the
same. The mode of a channel is a setting, so each dispatch chooses afresh. A save
that fails validation changes nothing, so only valid bodies are enumerated; a
stored draft turns invalid when the seed script revalidates it. The initial state
is the empty database.

### NotamSessions

`row` holds the committed columns of one request and its NOTAM, `deliveries` and
`events` the other rows. `session` is what each open database session is doing:
the columns it read and its changed copy, the rows it has still to flush and
those it has locked, and its next step. A handler starts by reading (`SaveDraft`,
`Submit`, ... have the guards of the code), then goes through `Flush`, `Send`,
`Reconcile`, `Override` and `Commit`; `Fail` rolls it back anywhere, and
`EndedByDatabase` is PostgreSQL's end of a deadlock or of a second insert. A
commit writes the columns whose value differs from the one read, as SQLAlchemy
does. `handed`, `savers` and `alone` are history.

### AftnBridge

| Variable | Code |
|---|---|
| `row` | a row of `publication_deliveries` of channel AFTN: `status`, whether `external_reference` is set (`named`), and `attempted_at` (`attempted`) |
| `attempts` | dispatches so far; it stamps `attempted_at` |
| `pc`, `batch` | where `poll_once` is and the items it has left |
| `late` | acknowledgements whose `_call` has timed out and that the API may still serve |
| `directory` | whether the watched directory holds a complete file, a torn one or both for a delivery |

The deployment is the one `docs/AFTN_BRIDGE.md` describes: AFTN is real and the
key is set, so `dispatch_delivery` goes through `PullQueueAftnAdapter`.
`Dispatch` is a publication or a retry, `AcknowledgeByHand` either manual
override; the two endpoints of the bridge are `IsOutbox` and `Acknowledged`.
The bridge polls, opens a file, fills it, has its acknowledgement served and
goes on. It may stop waiting for an answer at any time (`GiveUp`), and the
request it abandoned was lost or is served later; it may crash anywhere and
keeps nothing. Text, file names and the HTTP transport are left out: the text is
frozen from approval on (`ApprovedTextIsFrozen`), and two writes for one delivery
have different names because a poll or a restart lies between them. What an
acknowledgement does to the request is `AftnAck` of `NotamLifecycle`.

### Channels, NotamText, NotamRegistry

`Channels` follows one `publish`: `settings` of the running process choose an
adapter for each channel in turn (`BuildAdapter`, `ModeForChannel`), the adapter
answers with a receipt or raises, and the deliveries are committed together or
rolled back together. `reached`, `confirmed`, `simulated` and `allowed` are
history. `Redeploy` replaces the process and its settings between two handlers
or in the middle of one.

`NotamText` has two steps, the formatter (`wrap_notam_text` on each item) and the
envelope (`wrap_aftn_lines` and its check of the alphabet). A word is its length and two
flags, so a text is a sequence of words and a line the pieces on it. The loop
over words is a fold of `AddWord`.

`NotamRegistry` publishes NOTAMs with any content and lets time pass; everything
else is derived as in `list_notams`: `Listed` is the query, `Superseding` the
`replacing_map`, `Lifecycle` the cascade of `_build_notam_read`, `Wanted` the
filters. Times are counted in units of which `Soon` are 48 hours.

### EmailIntake, EvidenceStore, ExtractionRuns

`EmailIntake`: `arrived` and `seen` are the mailbox; `batch`, `pending` and `pc`
the poll in progress; `requests` counts committed requests of a mail; `objects`
is the evidence store. `Fetch` sets the flag, as `RFC822` without `PEEK` does,
`Store` and `Flag` follow, `Commit` comes once after the last mail, `Raise` is
an exception of the ingestion, `Fault` one of the machines. Persons read the same
mailbox.

`EvidenceStore`: an upload is received, finds the key present or writes it,
flushes its row and commits. With `AtomicPut` the object appears at once (MinIO);
without, it is first torn (`write_bytes`), which only the end of the process
(`Crash`) can leave behind.

`ExtractionRuns`: a task loads the request (`view`), picks an attachment, stores
a run as RUNNING, reads, flushes and commits; it writes the columns that differ
from those it loaded, and an UPDATE waits for the lock of another. `Overlap`
FALSE restricts it to one transaction at a time, for what is only then true.

### Accounts, Workbench

`Accounts`: `account` is the row, `cookie` the two tokens of a browser, `request`
where its request is: `mint` (refresh), `call`, `handle`, `answer`. `Begin` is
the middleware or the proxy, `Mint` the refresh endpoint, `Call`
`get_current_user`, `Handle` the endpoint, `Lose` a connection lost before or
after it, `Finish` the proxy's second attempt or the answer. A token is the time
at which it expires.

`Workbench`: `status`, `draft`, `text`, `author` are the server's; `page` the
state of React (form, shown draft, load in flight, busy flag), `main` and `side`
the calls of the guarded buttons and of "Save draft", which no flag guards.
Answers come when they do, or never.

### RuleCatalog, SemanticMatcher, QCodeSuggestions, Seeding, OrgBranding

`RuleCatalog`: an activation reads a version and its checksum (`Get`), flushes
its updates one row lock at a time (`Lock`), reloads the catalog of the process
(`Reload`) and only then commits; deadlocks, faults and restarts roll back.
`SaveDraft` checks against the catalog and records the constant version.

`SemanticMatcher`: two threads go through `_initialize` step by step, under the
lock (`holder`); the event loop reads the flags without it. `QCodeSuggestions`
keeps the two tables with one phrase of each kind, the certainties, ranks and
caps, and takes lexical and semantic scores as inputs within their ranges.

`Seeding`: a seed fills an empty database in one step of its transaction, or
loads the datasets, flushes its activation, adds what is missing, revalidates the
draft it loaded and commits; saves look up two lists by two queries.

`OrgBranding`: an upload replaces the object (`Put`) before it reads the row
(`GetOrgSettings`, which inserts the first one) and commits its columns.

### Composition

`Intake`, `Publication`, `Web` and `Reference` instantiate the components of one
stage on disjoint variables, for any values of their constants. Components of one module share no row, file or process: they meet only
through what each takes as an input (a text within ITA-2, a recorded rule
version, a stored draft). So any behaviour of all of them together projects to a
behaviour of each, and a property of one component is violated by the whole
exactly when it is by that part. The variable `shown` therefore picks the part
that a behaviour runs while the others stand still, which explores the sum of the
state spaces and not their product. Where a component is wanted with two sets of
constants (both stores, with and without a row to begin with, overlapping or not)
it is instantiated twice on the same variables and `shown` tells which one runs;
a conjunct `shown = ... =>` says for which one a property is meant. Components
that do share rows are composed in full: `NotamSessions` interleaves all
handlers of a request, and `Channels` and `NotamSessions` refer to
`NotamLifecycle`.

## 3. Checks

| Run | Instance | Shows |
|---|---|---|
| `review` | one request; an officer, a manager, an administrator; AFTN, e-mail and AIXM; one body within ITA-2 and one outside | type invariant, `FourEyes`, `AuditTrailReplays`, `OnlyApprovedIsSent`, `PublishingHasWork`, `ListedIffPublished`; the action properties `ApprovedTextIsFrozen` and `CompletionIsEarned`; and that every step is a step of `ApprovalGate` (`ImplementsGate`) |
| `numbers` | two requests that refer to each other and to themselves, two series, two years, one officer | `ReferencesResolve`, `NextNumberIsFree` |
| `sessions` | two sessions at a time, seven handlers, an officer and a manager, two channels, two texts | whatever overlaps and is rolled back: `StatusIsFounded`, `UnsignedIsNotHanded`, `OnlyOverridesDeadlock`; and a handler that runs alone is one step of `NotamLifecycle` (`ImplementsLifecycle`) |
| `bridge` | three deliveries, one that cannot be built, three dispatches, one late acknowledgement of each delivery at a time | type invariant, `NamedIsWritten`, `SentIsListed`; liveness `EverySentIsAcknowledged` |
| `intake` | two good mails and a faulty one, two faults; three uploads, two of one file, to each store; three attachments, a rerun, a job, two acceptances | `OnlyRollbacksLose`, `EvidenceIsWhole`, `DataIsOfARun`; liveness `EveryMailIsRead` |
| `publication` | five deployments; every text of up to three words over nine kinds of word on lines of six; every registry of three NOTAMs over five times | `AcknowledgedIsEarned`, `SentIsInReach`, `TextIsKept`, `NeverBackInForce` |
| `web` | an administrator through several lives of both tokens; an administrator and a clerk; two pages, two saves and two openings | `PresenceFollowsUse`, `AppliedOnce`, `RefusedForCause`, `SubmittedWasSaved` |
| `reference` | three managers, three rule versions; three seeds of two and of three datasets, two saves; five sessions on the branding; two threads of the matcher; narratives of three words | `AtMostOneActive`, `PlacesAreFlagged`, `EditsAreSeparate`, `SuggestionsFit` |
| `duplicate_identifiers` | two requests of one series | a draft saved twice prints number 2, its row keeps 1; the next draft takes and prints 2 |
| `draft_after_approval` | two sessions | a save that read the draft before its submission commits after its author approved it |
| `lost_completion` | two sessions | two acknowledgements each read the other's delivery as sent; both commit, the request stays in PUBLISHING |
| `lost_mail` | the poller alone, no fault of the machines | a mail that cannot be ingested takes the requests of those before it along, which no poll finds again |

The last four each check one statement of the documentation that the code does
not keep, and TLC prints the shortest way to break it.

**Bounds.** `MaxTrail` bounds the length of a request's trail (statuses only grow
the trail, so it bounds reviews and publications), `MaxYear` the calendar. A trail
of 9 holds one round of changes and re-approval, and two publications: received,
triage, draft, review, changes_requested, draft, review, approved, publishing
and, because the bound guards only the two actions that start another round
(`RequestChanges`, `Publish`), what completes them. One request suffices for
`review`: its properties speak of one request, and requests meet only in numbers
and references, which `numbers` has. Three channels are the AFTN one, which can
leave a delivery "sent", and two that acknowledge or fail, so that every mixture
of outcomes occurs.

In `sessions`, `MaxHandlers` 7 is a draft saved, submitted, approved, published,
two acknowledgements and an override or a retry; every step of each may overlap
another handler's, and any of them may be replaced by another one the status
allows. Two sessions are enough for every pair of handlers; three would add only
cycles of three locks.

In `bridge`, two deliveries compete for a batch, a third dispatch is a retry of
one of them, and crashes, lost and given-up acknowledgements are not bounded.
Deliveries are bounded in number of dispatches, as an operator who keeps retrying
can keep any delivery waiting. In `intake`, `MaxFaults` 2 lets a poll be cut off
on its second attempt too.

In `publication` the words lie at the edges of a line of six with a label of two:
one short, one that fits beside the label, one below, at and above the width, and
one longer than two lines. Three words put any of them first, in the middle and
last. `MaxNow` 4 passes every item C by more than the 48 hours.

In `web`, times are small multiples of each other in the order of the code's
(`Patience + Margin < AccessTTL < RefreshTTL`, `Throttle < Online`), and `MaxNow` 9
is past the end of a session that renewed its token at the last moment. `MCView`
drops, for two users, the times of last use and of logins: no guard reads them, so
states that differ in them only have the same future. `PresenceFollowsUse` does
read them, and TLC shows every case of it at the first office only; the theorem
covers every office.
`Patient` says that nobody acts on a page before it has loaded its draft; without
it `TypedIsKept` is refuted (below).

In `reference` the narratives have up to three words because a code depends on a
subject, a condition and one modifier; a lexical score of 5 or 7 lies beyond what
the rank of a partial hit and of a full one is, a similarity of 10 is the
largest. `FullHitFirst` therefore speaks of narratives that share few words with
each rule, as those in use do.

Deadlock is checked in `review`, `numbers` and `bridge` (where the seed script and
the loop are always enabled); the other systems end when every upload, save or
handler within the bounds has been made, or the clock has.

**Fairness.** In `bridge`: the loop goes on and systemd restarts it (weak); a
poll, a file write or an acknowledgement that is attempted again and again does
not fail every time (strong, an assumption on the box and the network, not on the
code). In `intake`: the poller's loop goes on and the platform restarts it (weak);
a mail that is asked for again and again is not passed over every time (strong, an
assumption on the mail server). Both loops are the code's `while True`. No
fairness is assumed anywhere else: whether a handler, a click or an upload is
ever made or answered is up to people and networks, and no property of the other
modules needs it.

**Mistakes.** Definitions whose names contain `_With`, `_Without` or end in
another variation (`Others_Active`, `Seen_Rarely`, ...) are the definition that
follows them with a plausible mistake in it. They are used by no specification;
for every property of a passing run, and for most of the conjuncts of the composed
properties, there is one that makes TLC refute it.

### Statements the code does not keep

The modules also define statements of the documentation, a comment or a test that
TLC refutes and that have no run of their own. To see a counterexample, name the
definition under `INVARIANT` (or `PROPERTY` when it has a box) of the
configuration given here; for a module that a composition instantiates, define
`P == Instance!Definition` in the MC module and name `P`.

| Definition | Configuration | What happens |
|---|---|---|
| `NotamLifecycle!NoPreparerApproves` | `NotamReview` | a manager saves a draft, an officer saves it again, the manager approves: `approve` compares with the last preparer only; "A preparer cannot approve the same NOTAM" (`docs/ARCHITECTURE.md:39`) |
| `NotamLifecycle!StartingOverCompletes` | `NotamReview` | a publication fails everywhere, the second succeeds everywhere, the request stays in PUBLISHING: the failed deliveries still count (`router.py:1105`) |
| `NotamLifecycle!PublishedIsDelivered` | `NotamReview` | a retry on a published NOTAM leaves its delivery sent or failed (`router.py:949`); "not considered delivered merely because it was queued" (`docs/ARCHITECTURE.md:38`) |
| `NotamLifecycle!OnlyTotalFailureReverts` | `NotamReview` | approving a request that is PUBLISHING takes it back to APPROVED (`router.py:849`); "only a *total* failure reverts to APPROVED" (`router.py:1080`) |
| `NotamLifecycle!ReferencesActive` | `NotamNumbers` | a NOTAM replaces or cancels one that was never in force, or itself (`workflow.py:133`); "must reference exactly one active NOTAM" (`workflow.py:130`) |
| `NotamSessions!TransitionsChain` | `Sessions` | two reviewers each commit a transition from REVIEW (`workflow.py:65`) |
| `NotamSessions!OnlyFailureStartsOver` | `Sessions` | a roll-back after the channels were called leaves the request APPROVED with no delivery (`router.py:891`) |
| `AftnBridge!EveryFileIsWhole` | `AftnBridge` | the bridge stops, or is observed, while it fills a file the terminal already sees (`aftn_bridge.py:56`) |
| `Channels!ModesAreIndependent`, as `Unsendable` | `Publication` | the Celery task simulates a channel that is pinned to its real adapter (`worker.py:62`) |
| `NotamText!LinesFit` | `Publication` | a word longer than a line makes a line that long, unless it is the first of its item (`formatter.py:21`) |
| `NotamRegistry!PlaceIsView` | `Publication` | a list filtered by aerodrome shows as active what a NOTAM of another one replaced (`router.py:471`) |
| `NotamRegistry!DueIsOpen` | `Publication` | the dashboard's estimated NOTAM that require action include replaced ones (`router.py:1438`) |
| `EvidenceStore!EvidenceIsWhole`, as `Local` | `Intake` | after a crash inside `write_bytes` a repeated upload names a truncated file (`storage.py:53`) |
| `ExtractionRuns!FailureIsRecorded`, as `Overlapping` | `Intake` | a NUL in a field rolls the run back with everything else (`orchestrator.py:74`) |
| `ExtractionRuns!UploadsAreRead`, as `Overlapping` | `Intake` | evidence from the portal is not read until an officer asks (`router.py:254`) |
| `Workbench!FormIsDraft` | `Web` | a page refreshed into an editable status keeps the request's defaults in its form (`notam-workbench.tsx:132`) |
| `Workbench!TypedIsKept`, with `Patient <- FALSE` | `Web` | the draft that arrives late replaces what was typed (`notam-workbench.tsx:134`) |
| `Workbench!ApprovedWasShown` | `Web` | a page that still shows the first draft approves the second (`notam-workbench.tsx:349`) |
| `RuleCatalog!CatalogIsActive`, `ActivationActivates` | `Reference` | overlapping activations leave the rules of one version in force and another active, or none active (`router.py:1374-1375`) |
| `RuleCatalog!DraftsRecordTheirRules` | `Reference` | a draft records a constant version, whichever checked it (`workflow.py:182`) |
| `Seeding!OneActive`, as `Overlapping` | `Reference` | seeds of two codes leave two datasets active (`seed.py:146`) |
| `Seeding!ReseedDoesNothing` | `Reference` | a seed of a database with users drops the warning of a PERM NOTAM (`seed.py:135`) |
| `Seeding!ListsAgree` | `Reference` | aerodromes and FIRs of one save come from two datasets (`workflow.py:108`) |
| `OrgBranding!SingletonRow`, as `WithoutRow` | `Reference` | two first readers insert two rows (`router.py:1587`) |
| `OrgBranding!LogoHasItsType` | `Reference` | two uploads leave the content of one and the type of the other (`router.py:1672`) |
| `QCodeSuggestions!KeywordTierFirst` | `Reference` | shared words outrank a subject read off the text (`narrative.py:98`) |
| `QCodeSuggestions!SubjectsAreTokens` | `Reference` | "through" is read as a threshold (`keyword_rules.py:160`) |
| `SemanticMatcher!NeverBlocks` | `Reference` | a search waits for the warm-up thread's lock (`semantic.py:157`) |
| `SemanticMatcher!AnswersAreCurrent` | `Reference` | after an activation the embeddings are those of the old version (`semantic.py:129`) |

`ExtractionRuns!DataHasItsConfidence` and `AcceptedAsAudited` hold of transactions
one at a time, as checked, and not of overlapping ones: an UPDATE leaves out a
column whose new value equals the one loaded.

## 4. Proofs

What a theorem proves holds for every value of the constants that meets the
assumptions named in the module it is about; each of these is evaluated by TLC on
the instances. Every safety and action property of a passing run is stated
by a theorem, the composed ones as a conjunction over their parts. In each module an
inductive invariant that TLC found to hold is proved from `Init`, kept by each
action in a lemma of its own, and shown to imply the properties. (That of the text
ranges over all sequences of words, so TLC saw only what it implies.)

**`NotamLifecycleProofs`**, for any requests, accounts, channels and bodies. The
inductive invariant `IInv` is the type invariant and `Good` of each request, the
conjunction of `FourEyes`, `OnlyApprovedIsSent`, `PublishingHasWork` and
`ListedIffPublished` for its status, NOTAM and deliveries. None of the four is
inductive alone: that a save cannot carry a `published_at` into a new draft needs
`ListedIffPublished`, that a retry finds a signed NOTAM to update needs
`OnlyApprovedIsSent` with `FourEyes`. Every action but the revalidation touches one
request (`OneRequest`); those that dispatch, retry or acknowledge share `Settled`.
Beside these four:

- `GateImplemented`: every step is one of `ApprovalGate` or invisible to it, and
  `ApprovedTextIsFrozenHolds` is its corollary.
- `AuditTrailReplaysHolds`: a legal path appended to a trail that replays to its
  start replays to its end.
- `CompletionIsEarnedHolds`; `ReferencesResolveHolds`, as no handler deletes a
  NOTAM; `NextNumberIsFreeHolds`, where a number above every one of a series in a
  year meets no row.

**`NotamSessionsProofs`**, for any number of sessions, accounts, channels and
handlers. The invariant says, of each open handler, what its copy of the columns
may be beside the committed row (`Founded`: its audit events lead to its status, and
approval and `published_at`, once read, are still there behind its back), which
deliveries it may change (`Addressed`: committed ones, or the next publication
while it holds the request's row), and in which order it locks (`Disciplined`).
Hence `StatusIsFoundedHolds`, `UnsignedIsNotHandedHolds` and
`OnlyOverridesDeadlockHolds`: along a cycle of waits without an override the rank of
the row waited for would grow at every step, and there are three ranks.

**`NotamSessionsRefinement`** proves `ImplementsLifecycleHolds`: under the refinement
mapping of `NotamSessions`, a handler that no other overlaps is one step of
`NotamLifecycle` when it commits and a stutter before. The invariant above is not
enough for it; `RInv` adds, in four parts,

- `AloneIsFaithful`: a session that began alone and was not overtaken is the only one
  open, and its copy is the committed row with what one handler (`Saves`, `Submits`,
  ..., `Completes`) has changed up to the part where it stands;
- `HasText`: what is signed or published, in the row or in any open copy, has a text.
  Without it a stale copy could be thought to stamp a NOTAM that does not exist;
- `HasStaff`: while a handler is open or a delivery exists there is an account with the
  role that started it, which the step of `NotamLifecycle` needs as its actor. An
  acknowledgement takes no role and finds this witness in the delivery itself;
- `Counted`: every handler that was started makes at most two transitions, so the
  trail stays within the bound of `NotamLifecycle`, which is `2 * MaxHandlers` here.

`GoesOn`, `Begins` and `Finishes` reduce each step to one handler, the lemmas named
`...Keeps` are one to an action, and those named `...IsLife` turn the commit of each
handler into its action of `NotamLifecycle`. Overlapping handlers need not refine
it, and section 3 shows that they do not.

**`AftnBridgeProofs`**, for any finite set of deliveries and any bounds:
`BridgeTypeCorrect`, `NamedIsWrittenHolds`, `SentIsListedHolds`. The invariant
strengthens `NamedIsWritten` to `AckedIsWritten`: every acknowledgement the bridge
has sent, answered, abandoned or late, was sent for a complete file.

**`IntakeProofs`**, for any mails, uploads, attachments and tasks:
`OnlyRollbacksLoseHolds` (what a poll has fetched is recorded, pending or in hand,
as long as nothing was rolled back), `EvidenceIsWholeHolds` (of both stores that a
row has an object; that it is whole only where the put is atomic) and
`DataIsOfARunHolds`. Of transactions one at a time the last one needs three more
parts: at most one is active (`AloneInv`), it sees what is committed
(`LoadedInv`), and the request shows the newest run that read something
(`LatestInv`).

**`PublicationProofs`**, for any deployments, any registry, and any words on lines
of any width: `AcknowledgedIsEarnedHolds` and `SentIsInReachHolds` from what each
committed or pending receipt was earned by, `NeverBackInForceHolds` from the order of
the publications, in which the first NOTAM to refer to another is the one that
supersedes it for good, and `TextIsKeptHolds`.

The text takes most of the module, because wrapping, spelling and joining are folds,
and what a fold computes needs induction over data. The induction theorems of the
library have an operator as parameter, which no prover here can instantiate, so the
proofs go by sets: `Induct` says that a set of naturals with 0 and every successor
is all of them, which follows from `<` being well-founded on them. `Run`
stands for both loops; `RunNil`, `RunNext` and `RunJoin` say what it does with no
piece, one more and two sequences, and `FlatNext` and `FlatJoin` the same of joining.
The invariant of the loop over the words is `Good`: the lines so far, with the one
under construction, spell the words so far after any words before them; a line
begins with a whole word only where a word ended; a line wider than `Width` is one
whole word alone; and no line had room for what the next begins with. `Extend`,
`NewLine` and `LongWord` show that it survives the three ways to add a word, of which
the last is the hard one, a remainder of the division by `Width` being 0 or not.
Hence `WrapItem`, of one item, and `EnvelopeOf`: only a line that is too wide is
wrapped again, and as it stands where a word ended, what comes out spells the same.
`Closed`, `Lays` and `Posts` then follow `Format` and `BuildEnvelope`, and `TextInv`
is the invariant of the two.

**`WebProofs`**, for any offices, users, pages and lengths of tokens:
`AppliedOnceHolds` and `RefusedForCauseHolds` from what is known of a request where
it stands (`RequestFits`); `PresenceFollowsUseHolds`, because a cookie never holds a
token that ends later than its login allows and the time of last use lags by the
throttle at most; `SubmittedWasSavedHolds`, for which a page with a call
under way has no load in flight, a save that was sent holds what the form holds, and a
save that was answered names a draft of that text and of that author. A count of
saves sent but not served bounds the drafts.

**`ReferenceProofs`**, for any versions, seeds, saves, editors and tables:
`AtMostOneActiveHolds` (a session that is about to commit has locked every other
version, and locks exclude each other, so an activation that overlaps it cannot
have read an older set); `PlacesAreFlaggedHolds`, in two parts: overlapping seeds
are seen whole and no look-up meets an empty reference, and one at a time the warning
of the draft is that of the dataset in force; `EditsAreSeparateHolds`; and
`SuggestionsFitHolds`, of the matcher's two threads by an invariant of its lock
and flags, and of the suggestions from the bounds of the tiers alone.

**What the proofs changed.** An invariant that is not inductive, or a lemma that
is false, was a fault of the model more than once, and was corrected against the
source:

- A commit in `NotamSessions` wrote only columns that differ from those read. A
  session that walks from a status and back to it has flushed the status on its
  way, so `Written` has it.
- `ExtractionRuns` told runs apart by when they were made only; which of two is
  the newest depends on when they ran (`madeAt`, `ranAt`).
- The cases of the validity of item C in `NotamRegistry` overlapped.
- Several constants had values no deployment has, such as a NULL that is also a
  thread, a refresh token that lives for no time, a workbench without pages or a
  line whose width is no number; the assumptions now exclude them.

**Only model-checked:**

- `EverySentIsAcknowledged` and `EveryMailIsRead`, which rest on fairness and
  ENABLED, out of the prover's reach.
- The statements that are refuted (section 3).

## 5. Plan

What is modelled is complete but for section 6, and every property of a passing run
is stated by a theorem but the two that rest on fairness. What is left to state are
abstract specifications of single components, as `ApprovalGate` is of the life
cycle, with their refinements: an outbox that hands each delivery to the terminal and
may at any time record what the terminal has, for `AftnBridge`; a store in which one
version is in force at a time, for `RuleCatalog`; and a mailbox whose mails are read
or still to be read, for `EmailIntake`.

## 6. Not modelled

- *AIXM events* (`services/aixm/`): the layout of an XML document and
  floating-point geometry. What other parts see of it, a document that is missing
  or over the limit, is an outcome of the AIXM channel in `Channels`.
- *Migrations, deployment and data preparation*: run once by hand. The two
  migrations that say what a row may be are read where a module needs them.
- *Field checks of `qline.py` and of the schemas*, each a comparison of one
  value; a save that fails them changes nothing.
- *What documents say*: OCR, parsers, regular expressions, typo correction and the
  similarity of embeddings. Their quality is statistical; which run, rule or
  request their result is stored with is modelled.
- *Parsing of mails and multipart forms*: a mail is one that can be ingested or not.
- *The rest of the web interface*: the publication buttons, the look-ups beside
  the form, the other pages, which show what the API answers. Sorting, paging and
  exports are layout.
- *Password hashing and the signing of tokens*: a token is valid until it expires.
- In `NotamRegistry`, reading a single NOTAM, which is not told what replaced it.
- Liveness of handlers, searches and buttons: nothing in the code retries them.

`PROJECT.json` lists every part with its status.
