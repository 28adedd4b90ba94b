--------------------------- MODULE NotamLifecycle ---------------------------
(***************************************************************************)
(* A NOTAM request from its receipt to its publication, one action per     *)
(* endpoint of apps/api/app/api/router.py.  An action is a handler run to  *)
(* its commit with no other handler in between; a handler that raises      *)
(* before it commits is rolled back and is no step here.                   *)
(***************************************************************************)
EXTENDS Workflow, FiniteSets

CONSTANTS
  Requests,     \* requests that may arrive; request r owns at most one NOTAM
  Users,        \* accounts
  RoleOf,       \* the role of each account
  Channels,     \* publication channels, a subset of CHANNELS
  Series,       \* NOTAM series
  Bodies,       \* the content of a valid draft: Q-line and Items A) to G)
  ITA2,         \* the bodies whose text fits the AFTN alphabet and line width
  None,         \* SQL NULL
  MaxYear,      \* bound: calendar years 0..MaxYear
  MaxTrail      \* bound: length of a request's trail of statuses

CHANNELS == {"AFTN", "GCAA_WEB", "EMAIL", "AIXM"}

ASSUME UsersAssumption    == RoleOf \in [Users -> Role]
ASSUME ChannelsAssumption == Channels \subseteq CHANNELS /\ Channels # {}
ASSUME NoneAssumption     == None \notin Users \cup Requests \cup WorkflowStatus
ASSUME BodiesAssumption   == ITA2 \subseteq Bodies
ASSUME FiniteAssumption   == IsFiniteSet(Requests)
ASSUME BoundsAssumption   == MaxYear \in Nat /\ MaxTrail \in Nat

VARIABLES
  year,         \* datetime.now(UTC).year
  status,       \* notam_requests.status, None until the request exists
  trail,        \* the statuses in the request's audit events, oldest first
  notam,        \* the row of notams for the request, NoNotam until one exists
  deliveries,   \* publication_deliveries of the NOTAM: one function per publish
  preparers     \* history: everyone who ever saved the NOTAM

vars == <<year, status, trail, notam, deliveries, preparers>>

-----------------------------------------------------------------------------
DeliveryStatus == {"sent", "acknowledged", "failed"}

Identifier == [series : Series, serial : Nat, year : Nat]
NoNotam    == [exists |-> FALSE]

\* printed and printedRef are the two identifiers inside formatted_message.
NotamRow == [exists     : {TRUE},
             kind       : NotamKind,
             id         : Identifier,
             replaces   : Requests \cup {None},
             body       : Bodies,
             printed    : Identifier,
             printedRef : Identifier \cup {None},
             valid      : BOOLEAN,
             preparedBy : Users,
             approvedBy : Users \cup {None},
             published  : BOOLEAN]

TypeOK ==
  /\ year \in Nat
  /\ status \in [Requests -> WorkflowStatus \cup {None}]
  /\ trail \in [Requests -> Seq(WorkflowStatus)]
  /\ notam \in [Requests -> NotamRow \cup {NoNotam}]
  /\ deliveries \in [Requests -> Seq([Channels -> DeliveryStatus])]
  /\ preparers \in [Requests -> SUBSET Users]

Init ==
  /\ year = 0
  /\ status = [r \in Requests |-> None]
  /\ trail = [r \in Requests |-> <<>>]
  /\ notam = [r \in Requests |-> NoNotam]
  /\ deliveries = [r \in Requests |-> <<>>]
  /\ preparers = [r \in Requests |-> {}]

-----------------------------------------------------------------------------
(***************************************************************************)
(* The definitions named ..._Without or ..._With are the definition they   *)
(* precede with a mistake in it; each makes one property below fail.       *)
(***************************************************************************)

\* require_roles lets the administrator through every role check.
May(u, roles) == RoleOf[u] \in roles \cup {"system_admin"}

HasNotam(r) == notam[r].exists

\* transition_request, once for each status of path: check, assign, audit.
Transition_WithoutSteps(r, path) ==
  /\ status[r] # None
  /\ LegalPath(status[r], path)
  /\ status' = [status EXCEPT ![r] = Reached(@, path)]
  /\ trail'  = [trail EXCEPT ![r] = IF path = <<>> THEN @ ELSE Append(@, Reached(None, path))]
Transition(r, path) ==
  /\ status[r] # None
  /\ LegalPath(status[r], path)
  /\ status' = [status EXCEPT ![r] = Reached(@, path)]
  /\ trail'  = [trail EXCEPT ![r] = @ \o path]

-----------------------------------------------------------------------------
\* Intake: POST /requests, POST /public/requests and the e-mail poller.
CreateRequest(r) ==
  /\ status[r] = None
  /\ status' = [status EXCEPT ![r] = "received"]
  /\ trail'  = [trail EXCEPT ![r] = <<"received">>]
  /\ UNCHANGED <<year, notam, deliveries, preparers>>

\* next_serial: one more than the highest number the series has this year.
Serials(s) == {notam[q].id.serial : q \in {p \in Requests :
                 HasNotam(p) /\ notam[p].id.series = s /\ notam[p].id.year = year}}
IsNextSerial_WithCount(s, n) == n = Cardinality(Serials(s)) + 1
IsNextSerial(s, n) == /\ \A m \in Serials(s) : m < n
                      /\ n = 1 \/ n - 1 \in Serials(s)

\* The reference rules of create_draft: the referenced row must exist.
ValidReference_WithoutKind(kind, replaces) == replaces # None => HasNotam(replaces)
ValidReference(kind, replaces) ==
  IF kind = "NOTAMN" THEN replaces = None
                     ELSE replaces # None /\ HasNotam(replaces)

\* uq_notams_series_number_year: the flush fails and the handler rolls back.
NumberIsFree(r, id) == \A q \in Requests \ {r} : HasNotam(q) => notam[q].id # id

\* The statuses create_draft accepts, once it has walked DraftPath.
Draftable_WithApproved == {"received", "triage", "draft", "changes_requested", "approved"}
Draftable == {"received", "triage", "draft", "changes_requested"}

(***************************************************************************)
(* POST /requests/{id}/draft.  The first save takes a number and keeps it  *)
(* in the row; a later save assigns every field of the draft, series       *)
(* included, and formats the text with a number of its own, but leaves     *)
(* serial_number and year of the row alone.                                *)
(***************************************************************************)
SaveDraft(r, u, kind, s, n, replaces, body) ==
  LET fresh == [series |-> s, serial |-> n, year |-> year]
      id    == IF HasNotam(r) THEN [notam[r].id EXCEPT !.series = s] ELSE fresh
  IN /\ RoleOf[u] \in AISOperations
     /\ status[r] \in Draftable
     /\ ValidReference(kind, replaces)
     /\ IsNextSerial(s, n)
     /\ NumberIsFree(r, id)
     /\ Transition(r, DraftPath(status[r]))
     /\ notam' = [notam EXCEPT ![r] =
          [exists     |-> TRUE,
           kind       |-> kind,
           id         |-> id,
           replaces   |-> replaces,
           body       |-> body,
           printed    |-> fresh,
           printedRef |-> IF replaces = None THEN None ELSE notam[replaces].id,
           valid      |-> TRUE,
           preparedBy |-> u,
           approvedBy |-> IF HasNotam(r) THEN notam[r].approvedBy ELSE None,
           published  |-> HasNotam(r) /\ notam[r].published]]
     /\ preparers' = [preparers EXCEPT ![r] = @ \cup {u}]
     /\ UNCHANGED <<year, deliveries>>

\* POST /requests/{id}/submit
Submit(r, u) ==
  /\ May(u, AISOperations)
  /\ HasNotam(r)
  /\ notam[r].valid
  /\ Transition(r, <<"review">>)
  /\ UNCHANGED <<year, notam, deliveries, preparers>>

\* POST /requests/{id}/request-changes
RequestChanges(r, u) ==
  /\ May(u, Reviewers)
  /\ Len(trail[r]) < MaxTrail
  /\ Transition(r, <<"changes_requested">>)
  /\ UNCHANGED <<year, notam, deliveries, preparers>>

\* POST /requests/{id}/approve
Approve_WithoutFourEyes(r, u) ==
  /\ May(u, Reviewers)
  /\ HasNotam(r)
  /\ Transition(r, <<"approved">>)
  /\ notam' = [notam EXCEPT ![r].approvedBy = u]
  /\ UNCHANGED <<year, deliveries, preparers>>
Approve_WithRole(r, u) ==
  /\ May(u, Reviewers)
  /\ HasNotam(r)
  /\ notam[r].preparedBy # u
  /\ Transition(r, <<"approved">>)
  /\ notam' = [notam EXCEPT ![r].approvedBy = RoleOf[u]]
  /\ UNCHANGED <<year, deliveries, preparers>>
Approve(r, u) ==
  /\ May(u, Reviewers)
  /\ HasNotam(r)
  /\ notam[r].preparedBy # u
  /\ Transition(r, <<"approved">>)
  /\ notam' = [notam EXCEPT ![r].approvedBy = u]
  /\ UNCHANGED <<year, deliveries, preparers>>

-----------------------------------------------------------------------------
(***************************************************************************)
(* Publication.  Outcomes(r, c) are the ends of dispatch_delivery for the  *)
(* NOTAM of r on channel c, over the adapters build_adapter can choose and *)
(* the settings an operator can change between two calls.  The envelope of *)
(* a text outside ITA-2 can never be built, whatever the mode; a real AFTN *)
(* adapter leaves the delivery "sent", to be acknowledged later; the other *)
(* channels acknowledge, or fail: no backend configured, e-mail refused,   *)
(* AIXM XML missing or over the upload limit.                              *)
(***************************************************************************)
Outcomes(r, c) == IF c # "AFTN" THEN {"acknowledged", "failed"}
                  ELSE IF notam[r].body \in ITA2 THEN {"acknowledged", "sent"}
                  ELSE {"failed"}

Statuses(ds) == {ds[i][c] : i \in DOMAIN ds, c \in Channels}

AllFailed(ds)       == ds # <<>> /\ Statuses(ds) = {"failed"}
AllAcknowledged(ds) == Statuses(ds) \subseteq {"acknowledged"}

\* What _reconcile_publishing_status does to a request that is PUBLISHING.
Reconcile_WithoutRevert(ds) == IF AllAcknowledged(ds) THEN <<"published">> ELSE <<>>
Reconcile_WithAny(ds) == IF AllFailed(ds) THEN <<"approved">>
                         ELSE IF "acknowledged" \in Statuses(ds) THEN <<"published">>
                         ELSE <<>>
Reconcile(ds) == IF AllFailed(ds) THEN <<"approved">>
                 ELSE IF AllAcknowledged(ds) THEN <<"published">>
                 ELSE <<>>

\* Store ds and walk path; published_at is stamped on entry to PUBLISHED.
Settle_WithoutStamp(r, ds, path) ==
  /\ Transition(r, path)
  /\ deliveries' = [deliveries EXCEPT ![r] = ds]
  /\ UNCHANGED <<year, notam, preparers>>
Settle(r, ds, path) ==
  /\ Transition(r, path)
  /\ deliveries' = [deliveries EXCEPT ![r] = ds]
  /\ notam' = [notam EXCEPT ![r].published = @ \/ Reached(None, path) = "published"]
  /\ UNCHANGED <<year, preparers>>

\* POST /requests/{id}/publish: a delivery for every channel, on every call.
Publish(r, u, batch) ==
  /\ May(u, AISOperations)
  /\ HasNotam(r)
  /\ Len(trail[r]) < MaxTrail
  /\ \A c \in Channels : batch[c] \in Outcomes(r, c)
  /\ LET ds == Append(deliveries[r], batch)
     IN Settle(r, ds, <<"publishing">> \o Reconcile(ds))

\* A delivery of the NOTAM gets a new status and the request is reconciled.
Redeliver(r, i, c, st) ==
  LET ds == [deliveries[r] EXCEPT ![i][c] = st]
  IN Settle(r, ds, IF status[r] = "publishing" THEN Reconcile(ds) ELSE <<>>)

\* POST /deliveries/{id}/retry, on a delivery of any status
RetryDelivery(r, u, i, c, outcome) ==
  /\ May(u, AISOperations)
  /\ outcome \in Outcomes(r, c)
  /\ Redeliver(r, i, c, outcome)

\* POST /deliveries/{id}/acknowledge, on a delivery of any status
AcknowledgeDelivery(r, u, i, c) ==
  /\ May(u, AISOperations)
  /\ Redeliver(r, i, c, "acknowledged")

\* POST /aftn/outbox/{id}/ack by the bridge's service account
AftnAck(r, i, c) ==
  /\ c = "AFTN"
  /\ Redeliver(r, i, c, "acknowledged")

\* POST /requests/{id}/mark-published, the manual override
MarkPublished(r, u) ==
  /\ May(u, AISOperations)
  /\ HasNotam(r)
  /\ status[r] \in {"publishing", "approved", "published"}
  /\ Transition(r, CASE status[r] = "approved"   -> <<"publishing", "published">>
                     [] status[r] = "publishing" -> <<"published">>
                     [] OTHER                    -> <<>>)
  /\ deliveries' = [deliveries EXCEPT ![r] =
       [i \in DOMAIN @ |-> [c \in Channels |-> "acknowledged"]]]
  /\ notam' = [notam EXCEPT ![r].published = TRUE]
  /\ UNCHANGED <<year, preparers>>

-----------------------------------------------------------------------------
\* python -m app.seed revalidates every NOTAM against the rules on disk.
RevalidateDrafts(invalid) ==
  /\ notam' = [q \in Requests |-> IF HasNotam(q)
                                    THEN [notam[q] EXCEPT !.valid = q \notin invalid]
                                    ELSE notam[q]]
  /\ UNCHANGED <<year, status, trail, deliveries, preparers>>

NewYear ==
  /\ year < MaxYear
  /\ year' = year + 1
  /\ UNCHANGED <<status, trail, notam, deliveries, preparers>>

Preparation(r, u) ==
  \/ \E kind \in NotamKind, s \in Series, n \in 1 .. Cardinality(Requests) + 1,
        replaces \in Requests \cup {None}, body \in Bodies :
          SaveDraft(r, u, kind, s, n, replaces, body)
  \/ Submit(r, u)

Review(r, u) ==
  \/ RequestChanges(r, u)
  \/ Approve(r, u)

Publication(r, u) ==
  \/ \E batch \in [Channels -> DeliveryStatus] : Publish(r, u, batch)
  \/ \E i \in DOMAIN deliveries[r], c \in Channels, outcome \in DeliveryStatus :
        RetryDelivery(r, u, i, c, outcome)
  \/ \E i \in DOMAIN deliveries[r], c \in Channels : AcknowledgeDelivery(r, u, i, c)
  \/ MarkPublished(r, u)

Next ==
  \/ NewYear
  \/ \E invalid \in SUBSET Requests : RevalidateDrafts(invalid)
  \/ \E r \in Requests : CreateRequest(r)
  \/ \E r \in Requests, u \in Users : Preparation(r, u) \/ Review(r, u) \/ Publication(r, u)
  \/ \E r \in Requests : \E i \in DOMAIN deliveries[r], c \in Channels : AftnAck(r, i, c)

Spec == Init /\ [][Next]_vars

-----------------------------------------------------------------------------
(***************************************************************************)
(* Safety.                                                                 *)
(***************************************************************************)
Signed == {"approved", "publishing", "published"}

\* Four eyes: from approval on, the NOTAM of a request names an approver who
\* is not the account that prepared the text (approve, router.py).
FourEyes ==
  \A r \in Requests : status[r] \in Signed =>
    /\ HasNotam(r)
    /\ notam[r].approvedBy \in Users \ {notam[r].preparedBy}

\* The audit rows of a request, replayed through TRANSITIONS from RECEIVED,
\* lead to the status the request has now (transition_request, workflow.py).
AuditTrailReplays ==
  \A r \in Requests : status[r] # None =>
    /\ trail[r] # <<>>
    /\ trail[r][1] = "received"
    /\ trail[r][Len(trail[r])] = status[r]
    /\ \A i \in 2 .. Len(trail[r]) : trail[r][i] \in TRANSITIONS[trail[r][i - 1]]

\* Only an approved NOTAM has ever been handed to a channel (publish).
OnlyApprovedIsSent ==
  \A r \in Requests : deliveries[r] # <<>> => status[r] \in Signed

\* A request waits in PUBLISHING only for something: some delivery is not
\* acknowledged yet, and not all have failed (_reconcile_publishing_status).
PublishingHasWork ==
  \A r \in Requests : status[r] = "publishing" =>
    ~ AllFailed(deliveries[r]) /\ ~ AllAcknowledged(deliveries[r])

\* published_at, by which the registry lists NOTAMs, is set exactly while the
\* request is PUBLISHED (list_notams, _reconcile, mark_request_published).
ListedIffPublished ==
  \A r \in Requests : HasNotam(r) => (notam[r].published <=> status[r] = "published")

\* Whatever saves follow, a NOTAM replaces or cancels one if and only if it is
\* a NOTAMR or NOTAMC, and the one it names exists (create_draft, workflow.py).
ReferencesResolve ==
  \A r \in Requests : HasNotam(r) =>
    /\ notam[r].kind = "NOTAMN" <=> notam[r].replaces = None
    /\ notam[r].replaces # None => HasNotam(notam[r].replaces)

\* The number next_serial gives a save belongs to no other row, although a
\* change of series on a later save leaves gaps behind (next_serial).
NextNumberIsFree ==
  \A r \in Requests, s \in Series, n \in 1 .. Cardinality(Requests) + 1 :
    IsNextSerial(s, n) => NumberIsFree(r, [series |-> s, serial |-> n, year |-> year])

\* What was approved is what stays on record: from approval on no handler
\* changes the text, the number, the reference or the preparer, and no NOTAM
\* goes back to preparation (save_draft, request_changes).
Text(n) == [n EXCEPT !.valid = TRUE, !.approvedBy = None, !.published = FALSE]

ApprovedTextIsFrozen ==
  [][\A r \in Requests : status[r] \in Signed =>
       Text(notam'[r]) = Text(notam[r]) /\ status'[r] \in Signed]_vars

\* A request enters PUBLISHED only with every delivery acknowledged, whether
\* by the channels or by hand, and never leaves it again.
CompletionIsEarned ==
  [][\A r \in Requests :
       /\ status[r] = "published" => status'[r] = "published"
       /\ status[r] # "published" /\ status'[r] = "published"
            => AllAcknowledged(deliveries'[r])]_vars

(***************************************************************************)
(* What the workflow promises about a NOTAM, whatever its statuses and     *)
(* deliveries: it implements ApprovalGate.                                 *)
(***************************************************************************)
Stage(r) == CASE status[r] \in {"approved", "publishing"} -> "signed"
              [] status[r] = "published"                  -> "released"
              [] OTHER                                    -> "open"

Doc(r)    == IF HasNotam(r) THEN Text(notam[r]) ELSE NoNotam
Author(r) == IF HasNotam(r) THEN notam[r].preparedBy ELSE None
Signer(r) == IF HasNotam(r) THEN notam[r].approvedBy ELSE None

Gate == INSTANCE ApprovalGate WITH
  stage  <- [r \in Requests |-> Stage(r)],
  doc    <- [r \in Requests |-> Doc(r)],
  author <- [r \in Requests |-> Author(r)],
  signer <- [r \in Requests |-> Signer(r)]

\* Every handler is a preparation, a signature by someone else than the author,
\* a release of what was signed, or invisible to the gate (whole router).
ImplementsGate == Gate!Spec

(***************************************************************************)
(* Statements of the documentation the code does not keep.                 *)
(***************************************************************************)

\* docs/ARCHITECTURE.md, decision 7: "A preparer cannot approve the same
\* NOTAM."  approve compares the approver with the last preparer only.
NoPreparerApproves ==
  \A r \in Requests : HasNotam(r) => notam[r].approvedBy \notin preparers[r]

\* models.py declares (series, serial_number, year) unique: no two NOTAMs
\* carry one identifier.  The transmitted text has a number of its own.
PrintedIdentifiersUnique ==
  \A q, r \in Requests :
    status[q] \in Signed /\ status[r] \in Signed /\ notam[q].printed = notam[r].printed
      => q = r

\* test_publication_flow.py: after a total failure, reverting to APPROVED "and
\* asking the user to fix configuration and start over is still correct".  The
\* failed deliveries stay and still count, whatever becomes of the new ones.
StartingOverCompletes ==
  \A r \in Requests : Len(deliveries[r]) > 1 /\ AllFailed(<<deliveries[r][1]>>) =>
    (AllAcknowledged(Tail(deliveries[r])) => status[r] = "published")

\* docs/ARCHITECTURE.md, decision 6: "A NOTAM is not considered delivered
\* merely because it was queued."  A retry reopens a delivery, not the request.
PublishedIsDelivered ==
  \A r \in Requests : status[r] = "published" => AllAcknowledged(deliveries[r])

\* _reconcile_publishing_status: "only a *total* failure reverts to APPROVED".
\* The table allows PUBLISHING -> APPROVED for that, and so to approve as well.
OnlyTotalFailureReverts ==
  [][\A r \in Requests :
       status[r] = "publishing" /\ status'[r] = "approved" => AllFailed(deliveries'[r])]_vars

\* create_draft: "NOTAMR and NOTAMC must reference exactly one active NOTAM".
\* Only the existence of the referenced row is checked.
ReferencesActive ==
  [][\A r \in Requests :
       preparers'[r] # preparers[r] /\ notam'[r].replaces # None
         => notam[notam'[r].replaces].published]_vars
=============================================================================
