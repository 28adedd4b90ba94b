--------------------------- MODULE NotamSessions ---------------------------
(***************************************************************************)
(* The handlers of NotamLifecycle, interleaved.  Every call has a database *)
(* session of its own (core/database.py): it reads rows once, works on its *)
(* copy of them, and writes the columns it changed.  An UPDATE is flushed  *)
(* before the next query of the session and locks its row until the        *)
(* session commits; no row carries a version, so the last commit wins.     *)
(*                                                                         *)
(* One request and its NOTAM.  A NOTAM's content is one column here, text. *)
(***************************************************************************)
EXTENDS Workflow, FiniteSets, SequencesExt

CONSTANTS
  Sessions,     \* database sessions that can be open at once
  Users, RoleOf,
  Channels,
  Texts,        \* contents of a draft
  ITA2,         \* the texts within the AFTN alphabet and line width
  None,
  MaxHandlers   \* bound: handlers started

ASSUME SessionsAssumption == MaxHandlers \in Nat
ASSUME UsersAssumption    == RoleOf \in [Users -> Role]
ASSUME TextsAssumption    == ITA2 \subseteq Texts
ASSUME ChannelsAssumption == IsFiniteSet(Channels) /\ Channels # {}
ASSUME NoneAssumption     == None \notin Users \cup Texts \cup WorkflowStatus \cup (Nat \X Channels)

VARIABLES
  row,          \* committed columns of the request and of its NOTAM
  deliveries,   \* committed deliveries: one function per publication
  events,       \* committed audit events that are transitions
  session,      \* the handler each session runs, Idle when it runs none
  handed,       \* history: the NOTAMs handed to channels, as the handler knew them
  savers,       \* history: accounts whose save was committed
  started       \* history: handlers started

vars == <<row, deliveries, events, session, handed, savers, started>>

-----------------------------------------------------------------------------
(***************************************************************************)
(* NotamLifecycle runs each handler in one step.  Its operators are used   *)
(* here, and a handler that runs alone is one of its steps.                *)
(***************************************************************************)
TheRequest == "request"
Number(n)  == [series |-> "A", serial |-> n, year |-> 0]

NotamOf(columns) ==
  IF columns.text = None THEN [exists |-> FALSE]
  ELSE [exists |-> TRUE, kind |-> "NOTAMN", id |-> Number(1), replaces |-> None,
        body |-> columns.text, printed |-> Number(columns.printed), printedRef |-> None, valid |-> TRUE,
        preparedBy |-> columns.preparer, approvedBy |-> columns.approver,
        published |-> columns.published]

Life == INSTANCE NotamLifecycle WITH
  Requests <- {TheRequest}, Series <- {"A"}, Bodies <- Texts,
  MaxYear <- 0, MaxTrail <- 2 * MaxHandlers,
  year <- 0,
  status <- [r \in {TheRequest} |-> row.status],
  trail <- [r \in {TheRequest} |-> IF row.status = None THEN <<>>
              ELSE <<"received">> \o [i \in DOMAIN events |-> events[i].to]],
  notam <- [r \in {TheRequest} |-> NotamOf(row)],
  deliveries <- [r \in {TheRequest} |-> deliveries],
  preparers <- [r \in {TheRequest} |-> savers]

-----------------------------------------------------------------------------
\* Rows that a session can lock.
RequestRow     == <<"request">>
NotamRow       == <<"notam">>
DeliveryRow(d) == <<"delivery", d[1], d[2]>>

Columns == [status : WorkflowStatus \cup {None}, text : Texts \cup {None}, printed : 0 .. 2,
            preparer : Users \cup {None}, approver : Users \cup {None}, published : BOOLEAN]

(***************************************************************************)
(* A handler: read and now are its copy of the columns, as read and as     *)
(* changed; target the delivery it is about; changed its values of         *)
(* deliveries; walked its audit events; flushing the rows it is about to   *)
(* update, in that order; locked those it has updated; next what it does   *)
(* once they are flushed; alone (history) no other handler was under way.  *)
(***************************************************************************)
Idle == [next |-> "idle", locked |-> {}, flushing |-> <<>>]

Walk(from, path) ==
  [i \in DOMAIN path |-> [from |-> IF i = 1 THEN from ELSE path[i - 1], to |-> path[i]]]

Existing == {<<i, c>> : i \in DOMAIN deliveries, c \in Channels}
NewBatch == {<<Len(deliveries) + 1, c>> : c \in Channels}

\* Committed deliveries with the changes of a session over them.
Overlaid(changed) ==
  [i \in DOMAIN deliveries \cup {d[1] : d \in DOMAIN changed} |-> [c \in Channels |->
     IF <<i, c>> \in DOMAIN changed THEN changed[<<i, c>>] ELSE deliveries[i][c]]]

TypeOK ==
  /\ row \in Columns
  /\ deliveries \in Seq([Channels -> Life!DeliveryStatus])
  /\ events \in Seq([from : WorkflowStatus, to : WorkflowStatus])
  /\ \A s \in Sessions :
       /\ session[s].next \in {"idle", "send", "reconcile", "override", "commit"}
       /\ session[s].next # "idle" => session[s].read \in Columns /\ session[s].now \in Columns
  /\ savers \subseteq Users
  /\ started \in 0 .. MaxHandlers

Init ==
  /\ row = [status |-> None, text |-> None, printed |-> 0, preparer |-> None,
            approver |-> None, published |-> FALSE]
  /\ deliveries = <<>>
  /\ events = <<>>
  /\ session = [s \in Sessions |-> Idle]
  /\ handed = {}
  /\ savers = {}
  /\ started = 0

Received ==
  /\ row.status = None
  /\ row' = [row EXCEPT !.status = "received"]
  /\ UNCHANGED <<deliveries, events, session, handed, savers, started>>

-----------------------------------------------------------------------------
(***************************************************************************)
(* The first part of each handler: it reads the rows, checks what it read  *)
(* and walks path on its copy.  One that raises here is no step.           *)
(***************************************************************************)
Fresh == [next |-> "commit", read |-> row, now |-> row, target |-> None, saver |-> None, alone |-> TRUE,
          changed |-> <<>>, walked |-> <<>>, flushing |-> <<>>, locked |-> {}]

\* Its copy once it has walked path, and what its start means for the others.
Quiet == \A s \in Sessions : session[s] = Idle

Begun(handler, path) == [handler EXCEPT !.now.status = Reached(@, path),
                                        !.walked = Walk(row.status, path), !.alone = Quiet]
Overtaken(h)         == IF h = Idle THEN Idle ELSE [h EXCEPT !.alone = FALSE]

Begin(s, path, handler) ==
  /\ session[s] = Idle
  /\ started < MaxHandlers
  /\ row.status # None
  /\ LegalPath(row.status, path)
  /\ session' = [t \in Sessions |-> IF t = s THEN Begun(handler, path) ELSE Overtaken(session[t])]
  /\ started' = started + 1
  /\ UNCHANGED <<row, deliveries, events, handed, savers>>

Drafted == row.text # None

\* The status is written, if it changes, before the AIP and serial queries.
SaveDraft(s, u, text) ==
  LET path == DraftPath(row.status)
  IN /\ RoleOf[u] \in AISOperations
     /\ row.status \in Life!Draftable
     /\ Begin(s, path, [Fresh EXCEPT
          !.now = [@ EXCEPT !.text = text, !.preparer = u, !.printed = IF Drafted THEN 2 ELSE 1],
          !.saver = u,
          !.flushing = (IF path = <<>> THEN <<>> ELSE <<RequestRow>>) \o <<NotamRow>>])

Submit(s, u) ==
  /\ Life!May(u, AISOperations)
  /\ Drafted
  /\ Begin(s, <<"review">>, [Fresh EXCEPT !.flushing = <<RequestRow>>])

RequestChanges(s, u) ==
  /\ Life!May(u, Reviewers)
  /\ Begin(s, <<"changes_requested">>, [Fresh EXCEPT !.flushing = <<RequestRow>>])

Approve_WithRole(s, u) ==
  /\ Life!May(u, Reviewers)
  /\ Drafted
  /\ row.preparer # u
  /\ Begin(s, <<"approved">>,
       [Fresh EXCEPT !.now.approver = RoleOf[u], !.flushing = <<RequestRow, NotamRow>>])
Approve_WithNotamFirst(s, u) ==
  /\ Life!May(u, Reviewers)
  /\ Drafted
  /\ row.preparer # u
  /\ Begin(s, <<"approved">>,
       [Fresh EXCEPT !.now.approver = u, !.flushing = <<NotamRow, RequestRow>>])
Approve(s, u) ==
  /\ Life!May(u, Reviewers)
  /\ Drafted
  /\ row.preparer # u
  /\ Begin(s, <<"approved">>,
       [Fresh EXCEPT !.now.approver = u, !.flushing = <<RequestRow, NotamRow>>])

Publish(s, u) ==
  /\ Life!May(u, AISOperations)
  /\ Drafted
  /\ Begin(s, <<"publishing">>, [Fresh EXCEPT !.flushing = <<RequestRow>>, !.next = "send"])

RetryDelivery(s, u, d) ==
  /\ Life!May(u, AISOperations)
  /\ Begin(s, <<>>, [Fresh EXCEPT !.target = d, !.next = "send"])

\* POST /deliveries/{id}/acknowledge by an operator or, on AFTN, the bridge.
AcknowledgeDelivery(s, d) ==
  Begin(s, <<>>, [Fresh EXCEPT !.changed = [x \in {d} |-> "acknowledged"],
                               !.flushing = <<DeliveryRow(d)>>, !.next = "reconcile"])

OverridePath(status) == CASE status = "approved"   -> <<"publishing", "published">>
                          [] status = "publishing" -> <<"published">>
                          [] OTHER                 -> <<>>

\* published_at is written before the deliveries are read.
MarkPublished(s, u) ==
  /\ Life!May(u, AISOperations)
  /\ Drafted
  /\ row.status \in {"publishing", "approved", "published"}
  /\ Begin(s, OverridePath(row.status), [Fresh EXCEPT !.now.published = TRUE,
                                           !.flushing = <<NotamRow>>, !.next = "override"])

-----------------------------------------------------------------------------
(***************************************************************************)
(* The other parts.                                                        *)
(***************************************************************************)
At(s, next) == session[s].next = next /\ session[s].flushing = <<>>

\* An UPDATE waits until no other session has the row locked.
Flush(s) ==
  /\ session[s].flushing # <<>>
  /\ \A t \in Sessions \ {s} : Head(session[s].flushing) \notin session[t].locked
  /\ session' = [session EXCEPT ![s].flushing = Tail(@),
                                ![s].locked = @ \cup {Head(session[s].flushing)}]
  /\ UNCHANGED <<row, deliveries, events, handed, savers, started>>

(***************************************************************************)
(* dispatch_delivery for the deliveries of the handler: those of a new     *)
(* publication, or the one that is retried.  What a channel has been given *)
(* no rollback takes back.                                                 *)
(***************************************************************************)
Mine(h) == IF h.target = None THEN NewBatch ELSE {h.target}

Dispatched(h, outcome) ==
  [h EXCEPT !.changed = outcome, !.next = "reconcile",
            !.flushing = IF h.target = None THEN <<>> ELSE <<DeliveryRow(h.target)>>]

Send(s) ==
  LET h == session[s]
  IN /\ At(s, "send")
     /\ \E outcome \in [Mine(h) -> Life!DeliveryStatus] :
          /\ \A d \in Mine(h) : outcome[d] \in Life!Outcomes(TheRequest, d[2])
          /\ session' = [session EXCEPT ![s] = Dispatched(h, outcome)]
          /\ handed' = IF \A d \in Mine(h) : outcome[d] = "failed" THEN handed
                       ELSE handed \cup {[text |-> h.now.text, preparer |-> h.now.preparer,
                                          approver |-> h.now.approver]}
     /\ UNCHANGED <<row, deliveries, events, savers, started>>

(***************************************************************************)
(* _reconcile_publishing_status queries the request and the deliveries.    *)
(* publish has the request in its session already and keeps its copy of    *)
(* the status; the others see the committed one.  Of the deliveries a      *)
(* session sees the committed rows and its own changes.                    *)
(***************************************************************************)
Reconciled(h, status, path) ==
  [h EXCEPT !.read   = [h.read EXCEPT !.status = IF h.walked = <<>> THEN status ELSE h.read.status],
            !.now    = [h.now EXCEPT !.status = Reached(status, path),
                                     !.published = h.now.published \/ path = <<"published">>],
            !.walked = h.walked \o Walk(status, path),
            !.flushing = CASE path = <<>>              -> <<>>
                           [] path = <<"published">>   -> <<RequestRow, NotamRow>>
                           [] OTHER                    -> <<RequestRow>>,
            !.next   = "commit"]

Reconcile(s) ==
  LET h      == session[s]
      status == IF h.walked # <<>> THEN h.now.status ELSE row.status
      path   == IF status = "publishing" THEN Life!Reconcile(Overlaid(h.changed)) ELSE <<>>
  IN /\ At(s, "reconcile")
     /\ session' = [session EXCEPT ![s] = Reconciled(h, status, path)]
     /\ UNCHANGED <<row, deliveries, events, handed, savers, started>>

\* mark_request_published acknowledges every delivery that is not.
Overridden(h, open) ==
  [h EXCEPT !.changed = [d \in open |-> "acknowledged"],
            !.flushing = (IF h.walked = <<>> THEN <<>> ELSE <<RequestRow>>)
                           \o SetToSeq({DeliveryRow(d) : d \in open}),
            !.next = "commit"]

InStatus(statuses) == {d \in Existing : deliveries[d[1]][d[2]] \in statuses}

Override_WithoutDeliveries(s) ==
  /\ At(s, "override")
  /\ session' = [session EXCEPT ![s] = Overridden(@, InStatus({"failed"}))]
  /\ UNCHANGED <<row, deliveries, events, handed, savers, started>>
Override(s) ==
  /\ At(s, "override")
  /\ session' = [session EXCEPT ![s] = Overridden(@, InStatus({"sent", "failed"}))]
  /\ UNCHANGED <<row, deliveries, events, handed, savers, started>>

\* notams.request_id is unique: of two first saves the second insert fails.
InsertFails(s) == session[s].read.text = None /\ session[s].now.text # None /\ row.text # None

\* The columns in the UPDATEs of a session: those it changed, and the status
\* it flushed on its way, even when it came back to the one it had read.
Written(h) == {c \in DOMAIN row : h.now[c] # h.read[c]}
                \cup (IF h.walked = <<>> THEN {} ELSE {"status"})

Commit_WithoutEvents(s) ==
  LET h == session[s]
  IN /\ At(s, "commit")
     /\ ~ InsertFails(s)
     /\ row' = [c \in DOMAIN row |-> IF c \in Written(h) THEN h.now[c] ELSE row[c]]
     /\ deliveries' = Overlaid(h.changed)
     /\ events' = IF h.locked = {RequestRow} THEN events \o h.walked ELSE events
     /\ savers' = savers \cup ({h.saver} \ {None})
     /\ session' = [session EXCEPT ![s] = Idle]
     /\ UNCHANGED <<handed, started>>
Commit(s) ==
  LET h == session[s]
  IN /\ At(s, "commit")
     /\ ~ InsertFails(s)
     /\ row' = [c \in DOMAIN row |-> IF c \in Written(h) THEN h.now[c] ELSE row[c]]
     /\ deliveries' = Overlaid(h.changed)
     /\ events' = events \o h.walked
     /\ savers' = savers \cup ({h.saver} \ {None})
     /\ session' = [session EXCEPT ![s] = Idle]
     /\ UNCHANGED <<handed, started>>

\* The session is rolled back: a lost connection, a crash, a database error.
Fail(s) ==
  /\ session[s] # Idle
  /\ session' = [session EXCEPT ![s] = Idle]
  /\ UNCHANGED <<row, deliveries, events, handed, savers, started>>

\* PostgreSQL ends a session that waits for itself, and a failed insert.
WaitsFor(s, t) ==
  session[s].flushing # <<>> /\ Head(session[s].flushing) \in session[t].locked /\ s # t

Cycles == {C \in SUBSET Sessions :
  C # {} /\ \A s \in C : (\E t \in C : WaitsFor(s, t)) /\ \E t \in C : WaitsFor(t, s)}

EndedByDatabase(s) ==
  /\ \/ s \in UNION Cycles
     \/ At(s, "commit") /\ InsertFails(s)
  /\ Fail(s)

-----------------------------------------------------------------------------
Start(s, u) ==
  \/ \E text \in Texts : SaveDraft(s, u, text)
  \/ Submit(s, u) \/ RequestChanges(s, u) \/ Approve(s, u)
  \/ Publish(s, u) \/ MarkPublished(s, u)
  \/ \E d \in Existing : RetryDelivery(s, u, d)

Continue(s) == Flush(s) \/ Send(s) \/ Reconcile(s) \/ Override(s) \/ Commit(s) \/ EndedByDatabase(s)

Next ==
  \/ Received
  \/ \E s \in Sessions, u \in Users : Start(s, u)
  \/ \E s \in Sessions : \E d \in Existing : AcknowledgeDelivery(s, d)
  \/ \E s \in Sessions : Continue(s) \/ Fail(s)

Spec == Init /\ [][Next]_vars

-----------------------------------------------------------------------------
(***************************************************************************)
(* Properties, all of them about handlers that interleave.                 *)
(***************************************************************************)
\* Stale writers can only take the status where an event says: the status of
\* the request is the one its latest audit event entered (transition_request);
\* and a published request has its published_at, by which the registry finds
\* it, although the two columns are in rows locked at different moments.
StatusIsFounded ==
  /\ row.status = IF row.status = None THEN None
                  ELSE IF events = <<>> THEN "received" ELSE events[Len(events)].to
  /\ row.status = "published" => row.published

\* However handlers interleave, a NOTAM nobody signed is given to no channel
\* (publish, retry_delivery).
UnsignedIsNotHanded == \A n \in handed : n.approver # None

\* Handlers lock a delivery, the request and the NOTAM in this order; all but
\* mark_request_published, which every deadlock therefore includes.
OnlyOverridesDeadlock ==
  \A C \in Cycles : \E s \in C : session[s].now.status = "published" /\ NotamRow \in session[s].locked

\* A handler that no other overlaps, rolled back or not, is one step of
\* NotamLifecycle, whatever those that did overlap have left behind.
ImplementsLifecycle ==
  /\ Life!Init
  /\ [][(\A s \in Sessions : session[s] # Idle => session[s].alone) =>
          Life!Next \/ UNCHANGED Life!vars]_vars

(***************************************************************************)
(* Statements of the documentation that interleaved handlers do not keep.  *)
(***************************************************************************)

\* README.md: "a preparer can never approve their own draft".  A save that was
\* read before the approval commits after it.
SignedByAnother ==
  row.status \in {"approved", "publishing", "published"} => row.approver # row.preparer

\* _reconcile_publishing_status: "after any single delivery's status changes,
\* re-check the whole set".  Two acknowledgements see each other's as "sent".
AllAcknowledgedCompletes ==
  Quiet /\ row.status = "publishing" => ~ Life!AllAcknowledged(deliveries)

\* docs/ARCHITECTURE.md, decision 2: "Every transition is checked against an
\* explicit state machine".  It is checked against a status read earlier.
TransitionsChain ==
  \A i \in 2 .. Len(events) : events[i].from = events[i - 1].to

\* _reconcile_publishing_status: "only a *total* failure reverts to APPROVED
\* (nothing to retry against, start over)".  A rollback after Send reverts too.
OnlyFailureStartsOver ==
  Quiet /\ row.status = "approved" /\ handed # {} => Life!AllFailed(deliveries)
=============================================================================
