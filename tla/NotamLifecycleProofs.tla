------------------------ MODULE NotamLifecycleProofs ------------------------
(***************************************************************************)
(* What NotamLifecycle guarantees for every set of requests, accounts,     *)
(* channels and draft contents and for every bound.                        *)
(***************************************************************************)
EXTENDS NotamLifecycle, TLAPS, FiniteSetTheorems, SequenceTheorems

-----------------------------------------------------------------------------
(***************************************************************************)
(* Facts about the operators of Workflow and of the reconciliation.        *)
(***************************************************************************)

\* The paths create_draft walks.
LEMMA DraftPathFacts ==
  ASSUME NEW s \in {"received", "triage", "draft", "changes_requested"}
  PROVE  /\ DraftPath(s) \in Seq(WorkflowStatus)
         /\ Reached(s, DraftPath(s)) = "draft"
<1>1. CASE s = "received"
  <2>1. DraftPath(s) = <<"triage", "draft">>  BY <1>1 DEF DraftPath
  <2>2. <<"triage", "draft">> \in Seq(WorkflowStatus)  BY DEF WorkflowStatus
  <2>3. Reached(s, <<"triage", "draft">>) = "draft"  BY DEF Reached
  <2> QED  BY <2>1, <2>2, <2>3
<1>2. CASE s \in {"triage", "changes_requested"}
  <2>1. DraftPath(s) = <<"draft">>  BY <1>2 DEF DraftPath
  <2>2. <<"draft">> \in Seq(WorkflowStatus)  BY DEF WorkflowStatus
  <2>3. Reached(s, <<"draft">>) = "draft"  BY DEF Reached
  <2> QED  BY <2>1, <2>2, <2>3
<1>3. CASE s = "draft"
  <2>1. DraftPath(s) = <<>>  BY <1>3 DEF DraftPath
  <2>2. <<>> \in Seq(WorkflowStatus)  OBVIOUS
  <2>3. Reached(s, <<>>) = "draft"  BY <1>3 DEF Reached
  <2> QED  BY <2>1, <2>2, <2>3
<1> QED  BY <1>1, <1>2, <1>3

\* Where a path leads, and what it means to be legal, one status at a time.
LEMMA PathFacts ==
  ASSUME NEW s \in WorkflowStatus, NEW a \in WorkflowStatus
  PROVE  /\ Reached(s, <<>>) = s
         /\ <<a>> \in Seq(WorkflowStatus)
         /\ Reached(s, <<a>>) = a
         /\ LegalPath(s, <<a>>) => a \in TRANSITIONS[s]
<1>1. Reached(s, <<>>) = s  BY DEF Reached
<1>2. Reached(s, <<a>>) = a  BY DEF Reached
<1>3. ASSUME LegalPath(s, <<a>>)  PROVE a \in TRANSITIONS[s]
  <2>1. 1 \in DOMAIN <<a>> /\ <<a>>[1] = a  OBVIOUS
  <2> QED  BY <1>3, <2>1 DEF LegalPath
<1> QED  BY <1>1, <1>2, <1>3

\* A path that is extended leads where the extension leads.
LEMMA ExtendedPath ==
  ASSUME NEW s \in WorkflowStatus, NEW a \in WorkflowStatus,
         NEW q \in Seq(WorkflowStatus)
  PROVE  /\ <<a>> \o q \in Seq(WorkflowStatus)
         /\ Reached(s, <<a>> \o q) = Reached(a, q)
         /\ LegalPath(s, <<a>> \o q) => a \in TRANSITIONS[s]
<1> DEFINE p == <<a>> \o q
<1>1. /\ p \in Seq(WorkflowStatus)
      /\ Len(p) = 1 + Len(q)
      /\ p[1] = a
      /\ \A i \in 1 .. Len(q) : p[1 + i] = q[i]
  OBVIOUS
<1>2. Reached(s, p) = p[Len(p)]
  <2>1. p # <<>>  BY <1>1
  <2> QED  BY <2>1 DEF Reached
<1>3. ASSUME q = <<>>  PROVE Reached(s, p) = Reached(a, q)
  <2>1. Len(p) = 1  BY <1>1, <1>3
  <2>2. Reached(a, q) = a  BY <1>3 DEF Reached
  <2> QED  BY <1>1, <1>2, <2>1, <2>2
<1>4. ASSUME q # <<>>  PROVE Reached(s, p) = Reached(a, q)
  <2>1. Len(q) \in 1 .. Len(q)  BY <1>4
  <2>2. p[Len(p)] = q[Len(q)]  BY <1>1, <2>1
  <2>3. Reached(a, q) = q[Len(q)]  BY <1>4 DEF Reached
  <2> QED  BY <1>2, <2>2, <2>3
<1>5. ASSUME LegalPath(s, p)  PROVE a \in TRANSITIONS[s]
  <2>1. 1 \in DOMAIN p  BY <1>1
  <2> QED  BY <1>1, <1>5, <2>1 DEF LegalPath
<1> QED  BY <1>1, <1>3, <1>4, <1>5

LEMMA ReachedType ==
  ASSUME NEW s \in WorkflowStatus, NEW path \in Seq(WorkflowStatus)
  PROVE  Reached(s, path) \in WorkflowStatus
<1>1. path # <<>> => Len(path) \in 1 .. Len(path)  OBVIOUS
<1> QED  BY <1>1 DEF Reached

\* Reconciliation takes at most one step.
LEMMA ReconcileFacts ==
  ASSUME NEW ds
  PROVE  /\ Reconcile(ds) \in Seq(WorkflowStatus)
         /\ \/ AllFailed(ds) /\ Reconcile(ds) = <<"approved">>
            \/ ~ AllFailed(ds) /\ AllAcknowledged(ds) /\ Reconcile(ds) = <<"published">>
            \/ ~ AllFailed(ds) /\ ~ AllAcknowledged(ds) /\ Reconcile(ds) = <<>>
<1>1. "approved" \in WorkflowStatus /\ "published" \in WorkflowStatus
  BY DEF WorkflowStatus
<1>2. /\ <<"approved">> \in Seq(WorkflowStatus)
      /\ <<"published">> \in Seq(WorkflowStatus)
      /\ <<>> \in Seq(WorkflowStatus)
  BY <1>1
<1>3. CASE AllFailed(ds)  BY <1>2, <1>3 DEF Reconcile
<1>4. CASE ~ AllFailed(ds) /\ AllAcknowledged(ds)  BY <1>2, <1>4 DEF Reconcile
<1>5. CASE ~ AllFailed(ds) /\ ~ AllAcknowledged(ds)  BY <1>2, <1>5 DEF Reconcile
<1> QED  BY <1>3, <1>4, <1>5

-----------------------------------------------------------------------------
(***************************************************************************)
(* Type correctness.                                                       *)
(***************************************************************************)

\* A request that has a NOTAM has a whole row.
LEMMA RowFacts ==
  ASSUME TypeOK, NEW r \in Requests
  PROVE  /\ HasNotam(r) => notam[r] \in NotamRow
         /\ ~ HasNotam(r) => notam[r] = NoNotam
<1>1. notam[r] \in NotamRow \/ notam[r] = NoNotam  BY DEF TypeOK
<1>2. ASSUME notam[r] \in NotamRow  PROVE HasNotam(r)
  <2>1. notam[r].exists \in {TRUE}  BY <1>2 DEF NotamRow
  <2> QED  BY <2>1 DEF HasNotam
<1>3. ASSUME notam[r] = NoNotam  PROVE ~ HasNotam(r)
  <2>1. notam[r].exists = FALSE  BY <1>3 DEF NoNotam
  <2> QED  BY <2>1 DEF HasNotam
<1> QED  BY <1>1, <1>2, <1>3

\* What a walk through the table leaves behind.
LEMMA TransitionType ==
  ASSUME TypeOK, NEW r \in Requests, NEW path \in Seq(WorkflowStatus),
         Transition(r, path)
  PROVE  /\ status[r] \in WorkflowStatus
         /\ Reached(status[r], path) \in WorkflowStatus
         /\ status' = [status EXCEPT ![r] = Reached(status[r], path)]
         /\ status' \in [Requests -> WorkflowStatus \cup {None}]
         /\ trail' \in [Requests -> Seq(WorkflowStatus)]
<1>1. status[r] \in WorkflowStatus  BY DEF TypeOK, Transition
<1>2. Reached(status[r], path) \in WorkflowStatus  BY <1>1, ReachedType
<1>3. status' = [status EXCEPT ![r] = Reached(status[r], path)]  BY DEF Transition
<1>4. status' \in [Requests -> WorkflowStatus \cup {None}]
  BY <1>2, <1>3 DEF TypeOK
<1>5. trail[r] \in Seq(WorkflowStatus)  BY DEF TypeOK
<1>6. trail[r] \o path \in Seq(WorkflowStatus)  BY <1>5
<1>7. trail' = [trail EXCEPT ![r] = trail[r] \o path]  BY DEF Transition
<1>8. trail' \in [Requests -> Seq(WorkflowStatus)]  BY <1>6, <1>7 DEF TypeOK
<1> QED  BY <1>1, <1>2, <1>3, <1>4, <1>8

\* The same for a walk of one step.
LEMMA OneTransition ==
  ASSUME TypeOK, NEW r \in Requests, NEW a \in WorkflowStatus,
         Transition(r, <<a>>)
  PROVE  /\ status[r] \in WorkflowStatus
         /\ a \in TRANSITIONS[status[r]]
         /\ status' = [status EXCEPT ![r] = a]
         /\ trail' \in [Requests -> Seq(WorkflowStatus)]
<1>1. <<a>> \in Seq(WorkflowStatus)  OBVIOUS
<1>2. status[r] \in WorkflowStatus  BY <1>1, TransitionType
<1>3. LegalPath(status[r], <<a>>)  BY DEF Transition
<1>4. a \in TRANSITIONS[status[r]] /\ Reached(status[r], <<a>>) = a
  BY <1>2, <1>3, PathFacts
<1> QED  BY <1>1, <1>2, <1>4, TransitionType

-----------------------------------------------------------------------------
(***************************************************************************)
(* The inductive invariant.  It speaks of one request at a time: Good      *)
(* relates the status st, the NOTAM n and the deliveries ds of a request.  *)
(* FourEyes is not inductive alone: that a retry or an acknowledgement     *)
(* finds a NOTAM to update rests on deliveries existing only from approval *)
(* on, and that a save leaves no published text behind rests on            *)
(* published_at being set in no status but PUBLISHED.                      *)
(***************************************************************************)
Good(st, n, ds) ==
  /\ st \in Signed => n.exists /\ n.approvedBy \in Users \ {n.preparedBy}
  /\ ds # <<>> => st \in Signed
  /\ st = "publishing" => ~ AllFailed(ds) /\ ~ AllAcknowledged(ds)
  /\ n.exists => (n.published <=> st = "published")

IInv == TypeOK /\ \A r \in Requests : Good(status[r], notam[r], deliveries[r])

Deliveries == Seq([Channels -> DeliveryStatus])

\* A step that touches one request and leaves it good is a good step.
LEMMA OneRequest ==
  ASSUME IInv, NEW r \in Requests,
         NEW st \in WorkflowStatus, NEW n \in NotamRow \cup {NoNotam},
         NEW ds \in Deliveries, Good(st, n, ds),
         year' \in Nat,
         status' = [status EXCEPT ![r] = st],
         trail' \in [Requests -> Seq(WorkflowStatus)],
         notam' = [notam EXCEPT ![r] = n],
         deliveries' = [deliveries EXCEPT ![r] = ds],
         preparers' \in [Requests -> SUBSET Users]
  PROVE  IInv'
<1>1. TypeOK'
  <2>1. status' \in [Requests -> WorkflowStatus \cup {None}]  BY DEF IInv, TypeOK
  <2>2. notam' \in [Requests -> NotamRow \cup {NoNotam}]  BY DEF IInv, TypeOK
  <2>3. deliveries' \in [Requests -> Deliveries]  BY DEF IInv, TypeOK, Deliveries
  <2> QED  BY <2>1, <2>2, <2>3 DEF TypeOK, Deliveries
<1>2. ASSUME NEW q \in Requests
      PROVE  Good(status'[q], notam'[q], deliveries'[q])
  <2>1. /\ status \in [Requests -> WorkflowStatus \cup {None}]
        /\ notam \in [Requests -> NotamRow \cup {NoNotam}]
        /\ deliveries \in [Requests -> Deliveries]
    BY DEF IInv, TypeOK, Deliveries
  <2>2. CASE q = r
    <3>1. status'[q] = st /\ notam'[q] = n /\ deliveries'[q] = ds  BY <2>1, <2>2
    <3> QED  BY <3>1
  <2>3. CASE q # r
    <3>1. /\ status'[q] = status[q]
          /\ notam'[q] = notam[q]
          /\ deliveries'[q] = deliveries[q]
      BY <2>1, <2>3
    <3>2. Good(status[q], notam[q], deliveries[q])  BY DEF IInv
    <3> QED  BY <3>1, <3>2
  <2> QED  BY <2>2, <2>3
<1> QED  BY <1>1, <1>2 DEF IInv

\* What the invariant says of the request a handler is about to serve.
LEMMA Served ==
  ASSUME IInv, NEW r \in Requests
  PROVE  /\ notam[r] \in NotamRow \cup {NoNotam}
         /\ HasNotam(r) => notam[r] \in NotamRow
         /\ deliveries[r] \in Deliveries
         /\ Good(status[r], notam[r], deliveries[r])
         /\ notam = [notam EXCEPT ![r] = notam[r]]
         /\ deliveries = [deliveries EXCEPT ![r] = deliveries[r]]
         /\ year \in Nat
         /\ trail \in [Requests -> Seq(WorkflowStatus)]
         /\ preparers \in [Requests -> SUBSET Users]
<1>1. TypeOK /\ Good(status[r], notam[r], deliveries[r])  BY DEF IInv
<1>2. HasNotam(r) => notam[r] \in NotamRow  BY <1>1, RowFacts
<1> QED  BY <1>1, <1>2 DEF TypeOK, Deliveries

LEMMA CreateRequestStep ==
  ASSUME IInv, NEW r \in Requests, CreateRequest(r)
  PROVE  IInv'
<1>1. status[r] = None /\ None \notin WorkflowStatus
  BY NoneAssumption DEF CreateRequest
<1>2. "received" \in WorkflowStatus /\ "published" \in WorkflowStatus /\ Signed \subseteq WorkflowStatus
  BY DEF WorkflowStatus, Signed
<1>3. Good("received", notam[r], deliveries[r])
  <2>1. Good(None, notam[r], deliveries[r])  BY <1>1, Served
  <2>2. None \notin Signed /\ None # "published"  BY <1>1, <1>2
  <2>3. "received" \notin Signed  BY DEF Signed
  <2> QED  BY <2>1, <2>2, <2>3 DEF Good
<1>4. trail' \in [Requests -> Seq(WorkflowStatus)]
  <2>1. <<"received">> \in Seq(WorkflowStatus)  BY <1>2
  <2> QED  BY <2>1, Served DEF CreateRequest
<1>5. status' = [status EXCEPT ![r] = "received"]  BY DEF CreateRequest
<1>6. UNCHANGED <<year, notam, deliveries, preparers>>  BY DEF CreateRequest
<1> QED  BY <1>2, <1>3, <1>4, <1>5, <1>6, Served, OneRequest

LEMMA SubmitStep ==
  ASSUME IInv, NEW r \in Requests, NEW u \in Users, Submit(r, u)
  PROVE  IInv'
<1>1. "review" \in WorkflowStatus  BY DEF WorkflowStatus
<1>2. TypeOK /\ Transition(r, <<"review">>)  BY DEF IInv, Submit
<1>3. /\ status[r] \in WorkflowStatus
      /\ "review" \in TRANSITIONS[status[r]]
      /\ status' = [status EXCEPT ![r] = "review"]
      /\ trail' \in [Requests -> Seq(WorkflowStatus)]
  BY <1>1, <1>2, OneTransition
<1>4. status[r] = "draft"  BY <1>3 DEF TRANSITIONS, WorkflowStatus
<1>5. Good("review", notam[r], deliveries[r])
  <2>1. Good("draft", notam[r], deliveries[r])  BY <1>4, Served
  <2> QED  BY <2>1 DEF Good, Signed
<1>6. UNCHANGED <<year, notam, deliveries, preparers>>  BY DEF Submit
<1> QED  BY <1>1, <1>3, <1>5, <1>6, Served, OneRequest

LEMMA RequestChangesStep ==
  ASSUME IInv, NEW r \in Requests, NEW u \in Users, RequestChanges(r, u)
  PROVE  IInv'
<1> DEFINE st == "changes_requested"
<1>1. st \in WorkflowStatus  BY DEF WorkflowStatus
<1>2. TypeOK /\ Transition(r, <<st>>)  BY DEF IInv, RequestChanges
<1>3. /\ status[r] \in WorkflowStatus
      /\ st \in TRANSITIONS[status[r]]
      /\ status' = [status EXCEPT ![r] = st]
      /\ trail' \in [Requests -> Seq(WorkflowStatus)]
  BY <1>1, <1>2, OneTransition
<1>4. status[r] = "review"  BY <1>3 DEF TRANSITIONS, WorkflowStatus
<1>5. Good(st, notam[r], deliveries[r])
  <2>1. Good("review", notam[r], deliveries[r])  BY <1>4, Served
  <2> QED  BY <2>1 DEF Good, Signed
<1>6. UNCHANGED <<year, notam, deliveries, preparers>>  BY DEF RequestChanges
<1> QED  BY <1>1, <1>3, <1>5, <1>6, Served, OneRequest

LEMMA ApproveStep ==
  ASSUME IInv, NEW r \in Requests, NEW u \in Users, Approve(r, u)
  PROVE  IInv'
<1> DEFINE n == [notam[r] EXCEPT !.approvedBy = u]
<1>1. "approved" \in WorkflowStatus  BY DEF WorkflowStatus
<1>2. TypeOK /\ Transition(r, <<"approved">>)  BY DEF IInv, Approve
<1>3. /\ status[r] \in WorkflowStatus
      /\ "approved" \in TRANSITIONS[status[r]]
      /\ status' = [status EXCEPT ![r] = "approved"]
      /\ trail' \in [Requests -> Seq(WorkflowStatus)]
  BY <1>1, <1>2, OneTransition
<1>4. status[r] \in {"review", "publishing"}
  BY <1>3 DEF TRANSITIONS, WorkflowStatus
<1>5. HasNotam(r) /\ notam[r] \in NotamRow  BY Served DEF Approve
<1>6. /\ n \in NotamRow
      /\ n.exists
      /\ n.approvedBy = u
      /\ n.preparedBy = notam[r].preparedBy
      /\ n.published = notam[r].published
  BY <1>5 DEF NotamRow
<1>7. Good("approved", n, deliveries[r])
  <2>1. Good(status[r], notam[r], deliveries[r])  BY Served
  <2>2. u \in Users \ {n.preparedBy}  BY <1>6 DEF Approve
  <2>3. ~ notam[r].published  BY <1>4, <1>5, <2>1 DEF Good, HasNotam
  <2> QED  BY <1>6, <2>1, <2>2, <2>3 DEF Good, Signed
<1>8. notam' = [notam EXCEPT ![r] = n]  BY DEF Approve
<1>9. UNCHANGED <<year, deliveries, preparers>>  BY DEF Approve
<1> QED  BY <1>1, <1>3, <1>6, <1>7, <1>8, <1>9, Served, OneRequest

LEMMA SaveDraftStep ==
  ASSUME IInv, NEW r \in Requests, NEW u \in Users, NEW kind \in NotamKind,
         NEW s \in Series, NEW n \in Nat, NEW replaces \in Requests \cup {None},
         NEW body \in Bodies, SaveDraft(r, u, kind, s, n, replaces, body)
  PROVE  IInv'
<1> DEFINE fresh == [series |-> s, serial |-> n, year |-> year]
           id    == IF HasNotam(r) THEN [notam[r].id EXCEPT !.series = s] ELSE fresh
           ref   == IF replaces = None THEN None ELSE notam[replaces].id
           by    == IF HasNotam(r) THEN notam[r].approvedBy ELSE None
           done  == HasNotam(r) /\ notam[r].published
           row   == [exists |-> TRUE, kind |-> kind, id |-> id,
                     replaces |-> replaces, body |-> body, printed |-> fresh,
                     printedRef |-> ref, valid |-> TRUE, preparedBy |-> u,
                     approvedBy |-> by, published |-> done]
<1>1. status[r] \in {"received", "triage", "draft", "changes_requested"}
  BY DEF SaveDraft, Draftable
<1>2. ~ done
  <2>1. Good(status[r], notam[r], deliveries[r])  BY Served
  <2>2. HasNotam(r) => ~ notam[r].published  BY <1>1, <2>1 DEF Good, HasNotam
  <2> QED  BY <2>2
<1>3. row \in NotamRow
  <2>1. fresh \in Identifier  BY Served DEF Identifier
  <2>2. HasNotam(r) => notam[r] \in NotamRow  BY Served
  <2>3. HasNotam(r) => notam[r].id \in Identifier /\ notam[r].approvedBy \in Users \cup {None}
    BY <2>2 DEF NotamRow
  <2>4. id \in Identifier
    <3>1. CASE HasNotam(r)  BY <2>3, <3>1 DEF Identifier
    <3>2. CASE ~ HasNotam(r)  BY <2>1, <3>2
    <3> QED  BY <3>1, <3>2
  <2>5. ref \in Identifier \cup {None}
    <3>1. CASE replaces = None  BY <3>1
    <3>2. CASE replaces # None
      <4>1. HasNotam(replaces)  BY <3>2 DEF SaveDraft, ValidReference
      <4>2. notam[replaces] \in NotamRow  BY <3>2, <4>1, Served
      <4>3. notam[replaces].id \in Identifier  BY <4>2 DEF NotamRow
      <4> QED  BY <3>2, <4>3
    <3> QED  BY <3>1, <3>2
  <2>6. by \in Users \cup {None}  BY <2>3
  <2>7. done \in BOOLEAN  BY <1>2
  <2> HIDE DEF fresh, id, ref, by, done
  <2> QED  BY <2>1, <2>4, <2>5, <2>6, <2>7 DEF NotamRow
<1>4. Good("draft", row, deliveries[r])
  <2>1. Good(status[r], notam[r], deliveries[r])  BY Served
  <2>2. deliveries[r] = <<>>  BY <1>1, <2>1 DEF Good, Signed
  <2>3. row.published = done  OBVIOUS
  <2> HIDE DEF row, done
  <2> QED  BY <1>2, <2>2, <2>3 DEF Good, Signed
<1>5. /\ "draft" \in WorkflowStatus
      /\ status' = [status EXCEPT ![r] = "draft"]
      /\ trail' \in [Requests -> Seq(WorkflowStatus)]
  <2>1. /\ DraftPath(status[r]) \in Seq(WorkflowStatus)
        /\ Reached(status[r], DraftPath(status[r])) = "draft"
    BY <1>1, DraftPathFacts
  <2>2. TypeOK /\ Transition(r, DraftPath(status[r]))  BY DEF IInv, SaveDraft
  <2> QED  BY <2>1, <2>2, TransitionType DEF WorkflowStatus
<1>6. notam' = [notam EXCEPT ![r] = row]  BY DEF SaveDraft
<1>7. preparers' \in [Requests -> SUBSET Users]
  <2>1. preparers' = [preparers EXCEPT ![r] = preparers[r] \cup {u}]  BY DEF SaveDraft
  <2> QED  BY <2>1, Served
<1>8. UNCHANGED <<year, deliveries>>  BY DEF SaveDraft
<1> HIDE DEF row
<1> QED  BY <1>3, <1>4, <1>5, <1>6, <1>7, <1>8, Served, OneRequest

\* What the handlers that dispatch or acknowledge deliveries have in common:
\* they store ds, and walk path from a signed status to the signed status st.
Settled(r, ds, path, st) ==
  /\ Settle(r, ds, path)
  /\ status[r] \in Signed
  /\ st = Reached(status[r], path)
  /\ st \in Signed
  /\ status[r] = "published" => path = <<>>
  /\ st = "publishing" => ~ AllFailed(ds) /\ ~ AllAcknowledged(ds)
  /\ st = "published" /\ status[r] # "published" => AllAcknowledged(ds)

LEMMA SettledRow ==
  ASSUME IInv, NEW r \in Requests, NEW ds, NEW path, NEW st,
         Settled(r, ds, path, st)
  PROVE  \E n \in NotamRow :
           /\ notam' = [notam EXCEPT ![r] = n]
           /\ n.exists
           /\ n.approvedBy = notam[r].approvedBy
           /\ n.preparedBy = notam[r].preparedBy
           /\ n.published <=> st = "published"
           /\ \E v \in BOOLEAN : n = [notam[r] EXCEPT !.published = v]
<1> DEFINE n == [notam[r] EXCEPT !.published = @ \/ Reached(None, path) = "published"]
<1>1. HasNotam(r) /\ notam[r] \in NotamRow
  <2>1. HasNotam(r)  BY Served DEF Good, HasNotam, Settled
  <2> QED  BY <2>1, Served
<1>2. notam[r].published <=> status[r] = "published"
  BY <1>1, Served DEF Good, HasNotam
<1>3. Reached(None, path) = "published" <=> path # <<>> /\ st = "published"
  <2>1. CASE path = <<>>
    <3>1. Reached(None, path) = None  BY <2>1 DEF Reached
    <3>2. None # "published"  BY NoneAssumption DEF WorkflowStatus
    <3> QED  BY <2>1, <3>1, <3>2
  <2>2. CASE path # <<>>
    <3>1. Reached(None, path) = st  BY <2>2 DEF Reached, Settled
    <3> QED  BY <2>2, <3>1
  <2> QED  BY <2>1, <2>2
<1>4. path = <<>> => st = status[r]  BY DEF Reached, Settled
<1>5. (notam[r].published \/ Reached(None, path) = "published") <=> st = "published"
  BY <1>2, <1>3, <1>4 DEF Settled
<1>6. /\ n \in NotamRow
      /\ n.exists
      /\ n.approvedBy = notam[r].approvedBy
      /\ n.preparedBy = notam[r].preparedBy
      /\ n.published = (notam[r].published \/ Reached(None, path) = "published")
  BY <1>1 DEF NotamRow
<1>7. n.published <=> st = "published"  BY <1>5, <1>6
<1>8. notam' = [notam EXCEPT ![r] = n]  BY DEF Settled, Settle
<1>9. \E v \in BOOLEAN : n = [notam[r] EXCEPT !.published = v]
  <2> DEFINE v == notam[r].published \/ Reached(None, path) = "published"
  <2>1. v \in BOOLEAN  OBVIOUS
  <2>2. n = [notam[r] EXCEPT !.published = v]  OBVIOUS
  <2> HIDE DEF v, n
  <2> QED  BY <2>1, <2>2
<1> HIDE DEF n
<1> QED  BY <1>6, <1>7, <1>8, <1>9

LEMMA SettleStep ==
  ASSUME IInv, NEW r \in Requests, NEW ds \in Deliveries,
         NEW path \in Seq(WorkflowStatus), NEW st, Settled(r, ds, path, st)
  PROVE  IInv'
<1>1. PICK n \in NotamRow :
        /\ notam' = [notam EXCEPT ![r] = n]
        /\ n.exists
        /\ n.approvedBy = notam[r].approvedBy
        /\ n.preparedBy = notam[r].preparedBy
        /\ n.published <=> st = "published"
  BY SettledRow
<1>2. Good(st, n, ds)
  <2>1. notam[r].approvedBy \in Users \ {notam[r].preparedBy}
    BY Served DEF Good, Settled
  <2> QED  BY <1>1, <2>1 DEF Good, Settled
<1>3. /\ st \in WorkflowStatus
      /\ status' = [status EXCEPT ![r] = st]
      /\ trail' \in [Requests -> Seq(WorkflowStatus)]
  BY TransitionType DEF IInv, Settled, Settle
<1>4. /\ deliveries' = [deliveries EXCEPT ![r] = ds]
      /\ UNCHANGED <<year, preparers>>
  BY DEF Settled, Settle
<1> QED  BY <1>1, <1>2, <1>3, <1>4, Served, OneRequest

\* Where reconciliation of a request that is PUBLISHING leads.
LEMMA ReconciledStatus ==
  ASSUME NEW ds, NEW st, st = Reached("publishing", Reconcile(ds))
  PROVE  /\ st \in Signed
         /\ st = "publishing" => ~ AllFailed(ds) /\ ~ AllAcknowledged(ds)
         /\ st = "published" => AllAcknowledged(ds)
<1>1. {"approved", "publishing", "published"} \subseteq WorkflowStatus
  BY DEF WorkflowStatus
<1>2. CASE AllFailed(ds) /\ Reconcile(ds) = <<"approved">>
  <2>1. st = "approved"  BY <1>1, <1>2, PathFacts
  <2> QED  BY <2>1 DEF Signed
<1>3. CASE ~ AllFailed(ds) /\ AllAcknowledged(ds) /\ Reconcile(ds) = <<"published">>
  <2>1. st = "published"  BY <1>1, <1>3, PathFacts
  <2> QED  BY <1>3, <2>1 DEF Signed
<1>4. CASE ~ AllFailed(ds) /\ ~ AllAcknowledged(ds) /\ Reconcile(ds) = <<>>
  <2>1. st = "publishing"  BY <1>4 DEF Reached
  <2> QED  BY <1>4, <2>1 DEF Signed
<1> QED  BY <1>2, <1>3, <1>4, ReconcileFacts

LEMMA PublishSettles ==
  ASSUME IInv, NEW r \in Requests, NEW u \in Users,
         NEW batch \in [Channels -> DeliveryStatus], Publish(r, u, batch)
  PROVE  \E ds \in Deliveries, path \in Seq(WorkflowStatus), st \in Signed :
           Settled(r, ds, path, st)
<1> DEFINE ds   == Append(deliveries[r], batch)
           rec  == Reconcile(ds)
           path == <<"publishing">> \o rec
           st   == Reached(status[r], path)
<1>1. "publishing" \in WorkflowStatus /\ rec \in Seq(WorkflowStatus)
  BY ReconcileFacts DEF WorkflowStatus
<1>2. TypeOK /\ Transition(r, path) /\ Settle(r, ds, path)
  BY DEF IInv, Publish, Settle
<1>3. status[r] \in WorkflowStatus
  BY <1>2 DEF TypeOK, Transition
<1>4. /\ path \in Seq(WorkflowStatus)
      /\ st = Reached("publishing", rec)
      /\ "publishing" \in TRANSITIONS[status[r]]
  BY <1>1, <1>2, <1>3, ExtendedPath DEF Transition
<1>5. status[r] = "approved"  BY <1>3, <1>4 DEF TRANSITIONS, WorkflowStatus
<1>6. ds \in Deliveries
  <2>1. deliveries[r] \in Deliveries  BY Served
  <2> QED  BY <2>1 DEF Deliveries
<1>7. /\ st \in Signed
      /\ st = "publishing" => ~ AllFailed(ds) /\ ~ AllAcknowledged(ds)
      /\ st = "published" => AllAcknowledged(ds)
  <2> HIDE DEF ds, st
  <2> QED  BY <1>4, ReconciledStatus
<1>8. status[r] \in Signed /\ status[r] # "published"  BY <1>5 DEF Signed
<1>9. st = Reached(status[r], path)  OBVIOUS
<1> HIDE DEF ds, path, st
<1>10. Settled(r, ds, path, st)
  BY <1>2, <1>7, <1>8, <1>9 DEF Settled
<1> QED  BY <1>4, <1>6, <1>7, <1>10

LEMMA RedeliverSettles ==
  ASSUME IInv, NEW r \in Requests, NEW i \in DOMAIN deliveries[r],
         NEW c \in Channels, NEW d \in DeliveryStatus, Redeliver(r, i, c, d)
  PROVE  \E ds \in Deliveries, path \in Seq(WorkflowStatus), st \in Signed :
           Settled(r, ds, path, st)
<1> DEFINE ds   == [deliveries[r] EXCEPT ![i][c] = d]
           path == IF status[r] = "publishing" THEN Reconcile(ds) ELSE <<>>
           st   == Reached(status[r], path)
<1>1. Settle(r, ds, path)  BY DEF Redeliver
<1>2. deliveries[r] \in Deliveries /\ Good(status[r], notam[r], deliveries[r])
  BY Served
<1>3. ds \in Deliveries
  <2>1. deliveries[r][i] \in [Channels -> DeliveryStatus]  BY <1>2 DEF Deliveries
  <2>2. [deliveries[r][i] EXCEPT ![c] = d] \in [Channels -> DeliveryStatus]
    BY <2>1
  <2>3. ds = [deliveries[r] EXCEPT ![i] = [deliveries[r][i] EXCEPT ![c] = d]]
    OBVIOUS
  <2> HIDE DEF ds
  <2> QED  BY <1>2, <2>2, <2>3, ExceptSeq DEF Deliveries
<1>4. status[r] \in Signed
  <2>1. deliveries[r] # <<>>  OBVIOUS
  <2> QED  BY <1>2, <2>1 DEF Good
<1>5. path \in Seq(WorkflowStatus)
  <2> HIDE DEF ds
  <2>1. Reconcile(ds) \in Seq(WorkflowStatus)  BY ReconcileFacts
  <2> QED  BY <2>1
<1>6. /\ st \in Signed
      /\ st = "publishing" => ~ AllFailed(ds) /\ ~ AllAcknowledged(ds)
      /\ st = "published" /\ status[r] # "published" => AllAcknowledged(ds)
  <2> HIDE DEF ds
  <2>1. CASE status[r] = "publishing"
    <3>1. st = Reached("publishing", Reconcile(ds))  BY <2>1
    <3> HIDE DEF st
    <3> QED  BY <3>1, ReconciledStatus
  <2>2. CASE status[r] # "publishing"
    <3>1. st = status[r]  BY <2>2 DEF Reached
    <3> QED  BY <1>4, <2>2, <3>1
  <2> QED  BY <2>1, <2>2
<1>7. status[r] = "published" => path = <<>>  OBVIOUS
<1>8. st = Reached(status[r], path)  OBVIOUS
<1> HIDE DEF ds, path, st
<1>9. Settled(r, ds, path, st)
  BY <1>1, <1>4, <1>6, <1>7, <1>8 DEF Settled
<1> QED  BY <1>3, <1>5, <1>6, <1>9

\* Every step of the publication side but the manual override settles.
LEMMA PublicationSettles ==
  ASSUME IInv, NEW r \in Requests, NEW u \in Users, Publication(r, u),
         ~ MarkPublished(r, u)
  PROVE  \E ds \in Deliveries, path \in Seq(WorkflowStatus), st \in Signed :
           Settled(r, ds, path, st)
<1>1. CASE \E batch \in [Channels -> DeliveryStatus] : Publish(r, u, batch)
  BY <1>1, PublishSettles
<1>2. CASE \E i \in DOMAIN deliveries[r], c \in Channels, d \in DeliveryStatus :
             RetryDelivery(r, u, i, c, d)
  BY <1>2, RedeliverSettles DEF RetryDelivery
<1>3. CASE \E i \in DOMAIN deliveries[r], c \in Channels : AcknowledgeDelivery(r, u, i, c)
  BY <1>3, RedeliverSettles DEF AcknowledgeDelivery, DeliveryStatus
<1> QED  BY <1>1, <1>2, <1>3 DEF Publication

LEMMA AftnAckSettles ==
  ASSUME IInv, NEW r \in Requests, NEW i \in DOMAIN deliveries[r],
         NEW c \in Channels, AftnAck(r, i, c)
  PROVE  \E ds \in Deliveries, path \in Seq(WorkflowStatus), st \in Signed :
           Settled(r, ds, path, st)
BY RedeliverSettles DEF AftnAck, DeliveryStatus

LEMMA MarkPublishedStep ==
  ASSUME IInv, NEW r \in Requests, NEW u \in Users, MarkPublished(r, u)
  PROVE  IInv'
<1> DEFINE ds   == [i \in DOMAIN deliveries[r] |-> [c \in Channels |-> "acknowledged"]]
           n    == [notam[r] EXCEPT !.published = TRUE]
           path == CASE status[r] = "approved"   -> <<"publishing", "published">>
                     [] status[r] = "publishing" -> <<"published">>
                     [] OTHER                    -> <<>>
<1>1. status[r] \in Signed  BY DEF MarkPublished, Signed
<1>2. path \in Seq(WorkflowStatus) /\ Reached(status[r], path) = "published"
  <2>1. "publishing" \in WorkflowStatus /\ "published" \in WorkflowStatus
    BY DEF WorkflowStatus
  <2>2. CASE status[r] = "approved"
    <3>1. path = <<"publishing", "published">>  BY <2>2
    <3>2. <<"publishing", "published">> \in Seq(WorkflowStatus)  BY <2>1
    <3>3. Reached(status[r], <<"publishing", "published">>) = "published"
      BY DEF Reached
    <3> QED  BY <3>1, <3>2, <3>3
  <2>3. CASE status[r] = "publishing"
    <3>1. path = <<"published">>  BY <2>3
    <3>2. <<"published">> \in Seq(WorkflowStatus)  BY <2>1
    <3>3. Reached(status[r], <<"published">>) = "published"  BY DEF Reached
    <3> QED  BY <3>1, <3>2, <3>3
  <2>4. CASE status[r] = "published"
    <3>1. path = <<>>  BY <2>4
    <3>2. Reached(status[r], <<>>) = "published"  BY <2>4 DEF Reached
    <3> QED  BY <3>1, <3>2
  <2> QED  BY <1>1, <2>2, <2>3, <2>4 DEF Signed
<1>3. /\ "published" \in WorkflowStatus
      /\ status' = [status EXCEPT ![r] = "published"]
      /\ trail' \in [Requests -> Seq(WorkflowStatus)]
  <2>1. TypeOK /\ Transition(r, path)  BY DEF IInv, MarkPublished
  <2> HIDE DEF path
  <2> QED  BY <1>2, <2>1, TransitionType DEF WorkflowStatus
<1>4. HasNotam(r) /\ notam[r] \in NotamRow  BY Served DEF MarkPublished
<1>5. /\ n \in NotamRow
      /\ n.approvedBy = notam[r].approvedBy
      /\ n.preparedBy = notam[r].preparedBy
      /\ n.exists
      /\ n.published
  BY <1>4 DEF NotamRow
<1>6. ds \in Deliveries
  <2>1. deliveries[r] \in Deliveries  BY Served
  <2>2. DOMAIN deliveries[r] = 1 .. Len(deliveries[r]) /\ Len(deliveries[r]) \in Nat
    BY <2>1 DEF Deliveries
  <2>3. [c \in Channels |-> "acknowledged"] \in [Channels -> DeliveryStatus]
    BY DEF DeliveryStatus
  <2> DEFINE all == [c \in Channels |-> "acknowledged"]
  <2> HIDE DEF all
  <2>4. [i \in 1 .. Len(deliveries[r]) |-> all] \in Seq([Channels -> DeliveryStatus])
    BY <2>2, <2>3, IsASeq DEF all
  <2> QED  BY <2>2, <2>4 DEF Deliveries, all
<1>7. Good("published", n, ds)
  <2>1. notam[r].approvedBy \in Users \ {notam[r].preparedBy}
    BY <1>1, Served DEF Good
  <2> HIDE DEF n, ds
  <2> QED  BY <1>5, <2>1 DEF Good, Signed
<1>8. /\ notam' = [notam EXCEPT ![r] = n]
      /\ deliveries' = [deliveries EXCEPT ![r] = ds]
      /\ UNCHANGED <<year, preparers>>
  BY DEF MarkPublished
<1> HIDE DEF n, ds
<1> QED  BY <1>3, <1>5, <1>6, <1>7, <1>8, Served, OneRequest

LEMMA RevalidateDraftsStep ==
  ASSUME IInv, NEW invalid \in SUBSET Requests, RevalidateDrafts(invalid)
  PROVE  IInv'
<1>1. UNCHANGED <<year, status, trail, deliveries, preparers>>
  BY DEF RevalidateDrafts
<1>2. ASSUME NEW q \in Requests
      PROVE  /\ notam'[q] \in NotamRow \cup {NoNotam}
             /\ Good(status[q], notam'[q], deliveries[q])
  <2>1. CASE HasNotam(q)
    <3> DEFINE ok == q \notin invalid
               n  == [notam[q] EXCEPT !.valid = ok]
    <3>1. notam'[q] = n  BY <2>1 DEF RevalidateDrafts
    <3>2. notam[q] \in NotamRow  BY <2>1, Served
    <3>3. ok \in BOOLEAN  OBVIOUS
    <3> HIDE DEF ok
    <3>4. /\ n \in NotamRow
          /\ n.exists = notam[q].exists
          /\ n.approvedBy = notam[q].approvedBy
          /\ n.preparedBy = notam[q].preparedBy
          /\ n.published = notam[q].published
      BY <3>2, <3>3 DEF NotamRow
    <3> HIDE DEF n
    <3> QED  BY <3>1, <3>4, Served DEF Good
  <2>2. CASE ~ HasNotam(q)
    <3>1. notam'[q] = notam[q]  BY <2>2 DEF RevalidateDrafts
    <3> QED  BY <3>1, Served
  <2> QED  BY <2>1, <2>2
<1>3. notam' \in [Requests -> NotamRow \cup {NoNotam}]
  BY <1>2 DEF RevalidateDrafts
<1>4. TypeOK'  BY <1>1, <1>3 DEF IInv, TypeOK
<1> QED  BY <1>1, <1>2, <1>4 DEF IInv

LEMMA InitIInv == Init => IInv
<1> SUFFICES ASSUME Init  PROVE IInv
  OBVIOUS
<1>1. TypeOK  BY DEF Init, TypeOK
<1>2. ASSUME NEW r \in Requests
      PROVE  Good(status[r], notam[r], deliveries[r])
  <2>1. /\ status[r] = None
        /\ notam[r] = NoNotam
        /\ deliveries[r] = <<>>
    BY DEF Init
  <2>2. None \notin Signed /\ None # "publishing"
    BY NoneAssumption DEF Signed, WorkflowStatus
  <2>3. ~ NoNotam.exists  BY DEF NoNotam
  <2> QED  BY <2>1, <2>2, <2>3 DEF Good
<1> QED  BY <1>1, <1>2 DEF IInv

LEMMA NextIInv == IInv /\ [Next]_vars => IInv'
<1> SUFFICES ASSUME IInv, [Next]_vars  PROVE IInv'
  OBVIOUS
<1>1. CASE UNCHANGED vars
  BY <1>1 DEF IInv, TypeOK, vars
<1>2. CASE NewYear
  <2>1. year \in Nat  BY DEF IInv, TypeOK
  <2> QED  BY <1>2, <2>1 DEF NewYear, IInv, TypeOK
<1>3. ASSUME NEW invalid \in SUBSET Requests, RevalidateDrafts(invalid)  PROVE IInv'
  BY <1>3, RevalidateDraftsStep
<1>4. ASSUME NEW r \in Requests, CreateRequest(r)  PROVE IInv'
  BY <1>4, CreateRequestStep
<1>5. ASSUME NEW r \in Requests, NEW u \in Users, Preparation(r, u)  PROVE IInv'
  <2>1. 1 .. Cardinality(Requests) + 1 \subseteq Nat
    BY FiniteAssumption, FS_CardinalityType
  <2>2. ASSUME NEW kind \in NotamKind, NEW s \in Series,
               NEW n \in 1 .. Cardinality(Requests) + 1,
               NEW replaces \in Requests \cup {None}, NEW body \in Bodies,
               SaveDraft(r, u, kind, s, n, replaces, body)
        PROVE  IInv'
    BY <2>1, <2>2, SaveDraftStep
  <2>3. CASE Submit(r, u)  BY <2>3, SubmitStep
  <2> QED  BY <1>5, <2>2, <2>3 DEF Preparation
<1>6. ASSUME NEW r \in Requests, NEW u \in Users, Review(r, u)  PROVE IInv'
  BY <1>6, RequestChangesStep, ApproveStep DEF Review
<1>7. ASSUME NEW r \in Requests, NEW u \in Users, Publication(r, u)  PROVE IInv'
  <2>1. CASE MarkPublished(r, u)  BY <2>1, MarkPublishedStep
  <2>2. CASE ~ MarkPublished(r, u)  BY <1>7, <2>2, PublicationSettles, SettleStep
  <2> QED  BY <2>1, <2>2
<1>8. ASSUME NEW r \in Requests, NEW i \in DOMAIN deliveries[r],
             NEW c \in Channels, AftnAck(r, i, c)
      PROVE  IInv'
  BY <1>8, AftnAckSettles, SettleStep
<1> QED  BY <1>1, <1>2, <1>3, <1>4, <1>5, <1>6, <1>7, <1>8 DEF Next

LEMMA Invariance == Spec => []IInv
BY InitIInv, NextIInv, PTL DEF Spec

-----------------------------------------------------------------------------
(***************************************************************************)
(* The safety invariants.                                                  *)
(***************************************************************************)

\* Every variable has its type in every reachable state.
THEOREM TypeCorrect == Spec => []TypeOK
<1>1. IInv => TypeOK  BY DEF IInv
<1> QED  BY <1>1, Invariance, PTL

\* approve is the only way to a signed status, and its check of the preparer
\* survives everything that follows: saves, retries, second approvals.
THEOREM FourEyesHolds == Spec => []FourEyes
<1>1. IInv => FourEyes  BY DEF IInv, Good, FourEyes, HasNotam
<1> QED  BY <1>1, Invariance, PTL

\* publish and retry_delivery hand nothing to a channel before the approval.
THEOREM OnlyApprovedIsSentHolds == Spec => []OnlyApprovedIsSent
<1>1. IInv => OnlyApprovedIsSent  BY DEF IInv, Good, OnlyApprovedIsSent
<1> QED  BY <1>1, Invariance, PTL

\* _reconcile_publishing_status leaves no request in PUBLISHING with nothing
\* left to wait for, whichever handler called it.
THEOREM PublishingHasWorkHolds == Spec => []PublishingHasWork
<1>1. IInv => PublishingHasWork  BY DEF IInv, Good, PublishingHasWork
<1> QED  BY <1>1, Invariance, PTL

\* The registry's published_at agrees with the status of the request.
THEOREM ListedIffPublishedHolds == Spec => []ListedIffPublished
<1>1. IInv => ListedIffPublished  BY DEF IInv, Good, ListedIffPublished, HasNotam
<1> QED  BY <1>1, Invariance, PTL

-----------------------------------------------------------------------------
(***************************************************************************)
(* NotamLifecycle implements ApprovalGate.                                 *)
(***************************************************************************)

\* The fields a NOTAM may change without changing its text.
LEMMA TextFacts ==
  ASSUME NEW n \in NotamRow, NEW v \in BOOLEAN, NEW u \in Users
  PROVE  /\ Text([n EXCEPT !.valid = v]) = Text(n)
         /\ Text([n EXCEPT !.published = v]) = Text(n)
         /\ Text([n EXCEPT !.approvedBy = u]) = Text(n)
BY DEF Text, NotamRow

\* What the gate sees of the requests a step does not touch.
LEMMA GateFrame ==
  ASSUME IInv, NEW r \in Requests, NEW st, NEW n,
         status' = [status EXCEPT ![r] = st],
         notam' = [notam EXCEPT ![r] = n]
  PROVE  /\ status'[r] = st
         /\ notam'[r] = n
         /\ \A q \in Requests \ {r} :
              /\ Stage(q)' = Stage(q)
              /\ Doc(q)' = Doc(q)
              /\ Author(q)' = Author(q)
              /\ Signer(q)' = Signer(q)
<1>1. /\ status \in [Requests -> WorkflowStatus \cup {None}]
      /\ notam \in [Requests -> NotamRow \cup {NoNotam}]
  BY DEF IInv, TypeOK
<1>2. ASSUME NEW q \in Requests \ {r}
      PROVE  status'[q] = status[q] /\ notam'[q] = notam[q]
  BY <1>1
<1> QED  BY <1>1, <1>2 DEF Stage, Doc, Author, Signer, HasNotam

\* A step after which the gate sees the request it touched as before.
LEMMA QuietStep ==
  ASSUME IInv, NEW r \in Requests, NEW st, NEW n,
         status' = [status EXCEPT ![r] = st],
         notam' = [notam EXCEPT ![r] = n],
         Stage(r)' = Stage(r), Doc(r)' = Doc(r),
         Author(r)' = Author(r), Signer(r)' = Signer(r)
  PROVE  UNCHANGED Gate!vars
<1>1. ASSUME NEW q \in Requests
      PROVE  /\ Stage(q)' = Stage(q)
             /\ Doc(q)' = Doc(q)
             /\ Author(q)' = Author(q)
             /\ Signer(q)' = Signer(q)
  BY GateFrame
<1> QED  BY <1>1 DEF Gate!vars

\* A step that completes a signed request, or leaves its stage alone, and keeps
\* the text, the preparer and the approver of its NOTAM.
LEMMA CompletionStep ==
  ASSUME IInv, NEW r \in Requests, NEW n, NEW st \in Signed,
         status[r] \in Signed, status[r] = "published" => st = "published",
         status' = [status EXCEPT ![r] = st],
         notam' = [notam EXCEPT ![r] = n],
         n \in NotamRow, Text(n) = Text(notam[r]),
         n.preparedBy = notam[r].preparedBy, n.approvedBy = notam[r].approvedBy
  PROVE  [Gate!Next]_(Gate!vars)
<1>1. HasNotam(r)  BY Served DEF Good, HasNotam
<1>2. status'[r] = st /\ notam'[r] = n  BY GateFrame
<1>3. n.exists  BY DEF NotamRow
<1>4. /\ Doc(r)' = Doc(r)
      /\ Author(r)' = Author(r)
      /\ Signer(r)' = Signer(r)
  BY <1>1, <1>2, <1>3 DEF Doc, Author, Signer, HasNotam, Text
<1>5. CASE status[r] # "published" /\ st = "published"
  <2>1. Stage(r) = "signed" /\ Stage(r)' = "released"
    BY <1>2, <1>5 DEF Stage, Signed
  <2>2. ASSUME NEW q \in Requests
        PROVE  /\ Stage(q)' = (IF q = r THEN "released" ELSE Stage(q))
               /\ Doc(q)' = Doc(q)
               /\ Author(q)' = Author(q)
               /\ Signer(q)' = Signer(q)
    BY <1>4, <2>1, GateFrame
  <2>3. Gate!Release(r)  BY <2>1, <2>2 DEF Gate!Release
  <2> QED  BY <2>3 DEF Gate!Next
<1>6. CASE status[r] = "published" \/ st # "published"
  <2>1. Stage(r)' = Stage(r)  BY <1>2, <1>6 DEF Stage, Signed
  <2> QED  BY <1>4, <2>1, QuietStep
<1> QED  BY <1>5, <1>6

\* A step that moves a request between two statuses of the open stage and
\* leaves every NOTAM alone.
LEMMA OpenStep ==
  ASSUME IInv, NEW r \in Requests, NEW st,
         status[r] \notin Signed, st \notin Signed,
         status' = [status EXCEPT ![r] = st], UNCHANGED notam
  PROVE  UNCHANGED Gate!vars
<1>1. notam' = [notam EXCEPT ![r] = notam[r]]  BY Served
<1>2. status'[r] = st /\ notam'[r] = notam[r]  BY <1>1, GateFrame
<1>3. Stage(r)' = Stage(r)  BY <1>2 DEF Stage, Signed
<1>4. /\ Doc(r)' = Doc(r)
      /\ Author(r)' = Author(r)
      /\ Signer(r)' = Signer(r)
  BY <1>2 DEF Doc, Author, Signer, HasNotam
<1> QED  BY <1>1, <1>3, <1>4, QuietStep

LEMMA SaveDraftGate ==
  ASSUME IInv, NEW r \in Requests, NEW u \in Users, NEW kind, NEW s, NEW n,
         NEW replaces, NEW body, SaveDraft(r, u, kind, s, n, replaces, body)
  PROVE  [Gate!Next]_(Gate!vars)
<1> DEFINE row == notam'[r]
<1>1. status[r] \in {"received", "triage", "draft", "changes_requested"}
  BY DEF SaveDraft, Draftable
<1>2. status' = [status EXCEPT ![r] = "draft"]
  BY <1>1, DraftPathFacts DEF SaveDraft, Transition
<1>3. /\ notam' = [notam EXCEPT ![r] = row]
      /\ row.exists
      /\ row.preparedBy = u
      /\ row.approvedBy = IF HasNotam(r) THEN notam[r].approvedBy ELSE None
  <2>1. notam \in [Requests -> NotamRow \cup {NoNotam}]  BY DEF IInv, TypeOK
  <2> QED  BY <2>1 DEF SaveDraft
<1> HIDE DEF row
<1>4. status'[r] = "draft" /\ notam'[r] = row  BY <1>2, <1>3, GateFrame
<1>5. Stage(r) = "open" /\ Stage(r)' = "open"
  BY <1>1, <1>4 DEF Stage
<1>6. Author(r)' = u /\ Signer(r)' = Signer(r)
  BY <1>3, <1>4 DEF Author, Signer, HasNotam
<1>7. ASSUME NEW q \in Requests
      PROVE  /\ Stage(q)' = Stage(q)
             /\ Doc(q)' = (IF q = r THEN Doc(r)' ELSE Doc(q))
             /\ Author(q)' = (IF q = r THEN u ELSE Author(q))
             /\ Signer(q)' = Signer(q)
  BY <1>2, <1>3, <1>5, <1>6, GateFrame
<1>8. Gate!Prepare(r)  BY <1>5, <1>7 DEF Gate!Prepare
<1> QED  BY <1>8 DEF Gate!Next

LEMMA ApproveGate ==
  ASSUME IInv, NEW r \in Requests, NEW u \in Users, Approve(r, u)
  PROVE  [Gate!Next]_(Gate!vars)
<1> DEFINE n == [notam[r] EXCEPT !.approvedBy = u]
<1>1. "approved" \in WorkflowStatus  BY DEF WorkflowStatus
<1>2. TypeOK /\ Transition(r, <<"approved">>)  BY DEF IInv, Approve
<1>3. /\ status[r] \in WorkflowStatus
      /\ "approved" \in TRANSITIONS[status[r]]
      /\ status' = [status EXCEPT ![r] = "approved"]
  BY <1>1, <1>2, OneTransition
<1>4. status[r] \in {"review", "publishing"}
  BY <1>3 DEF TRANSITIONS, WorkflowStatus
<1>5. HasNotam(r) /\ notam[r] \in NotamRow  BY Served DEF Approve
<1>6. /\ n.exists
      /\ n.approvedBy = u
      /\ n.preparedBy = notam[r].preparedBy
      /\ Text(n) = Text(notam[r])
  BY <1>5, TextFacts DEF NotamRow
<1>7. notam' = [notam EXCEPT ![r] = n]  BY DEF Approve
<1> HIDE DEF n
<1>8. status'[r] = "approved" /\ notam'[r] = n  BY <1>3, <1>7, GateFrame
<1>9. Stage(r) \in {"open", "signed"} /\ Stage(r)' = "signed"
  BY <1>4, <1>8 DEF Stage
<1>10. /\ Doc(r)' = Doc(r)
       /\ Author(r)' = Author(r)
       /\ Signer(r)' = u
  BY <1>5, <1>6, <1>8 DEF Doc, Author, Signer, HasNotam, Text
<1>11. Author(r) \in Users \ {u}
  BY <1>5 DEF Author, Approve, NotamRow
<1>12. ASSUME NEW q \in Requests
       PROVE  /\ Stage(q)' = (IF q = r THEN "signed" ELSE Stage(q))
              /\ Doc(q)' = Doc(q)
              /\ Author(q)' = Author(q)
              /\ Signer(q)' = (IF q = r THEN u ELSE Signer(q))
  BY <1>3, <1>7, <1>9, <1>10, GateFrame
<1>13. Gate!Sign(r, u)  BY <1>9, <1>11, <1>12 DEF Gate!Sign
<1> QED  BY <1>13 DEF Gate!Next

LEMMA SettleGate ==
  ASSUME IInv, NEW r \in Requests, NEW ds, NEW path \in Seq(WorkflowStatus),
         NEW st \in Signed, Settled(r, ds, path, st)
  PROVE  [Gate!Next]_(Gate!vars)
<1>1. PICK n \in NotamRow :
        /\ notam' = [notam EXCEPT ![r] = n]
        /\ n.approvedBy = notam[r].approvedBy
        /\ n.preparedBy = notam[r].preparedBy
        /\ \E v \in BOOLEAN : n = [notam[r] EXCEPT !.published = v]
  BY SettledRow
<1>2. notam[r] \in NotamRow
  <2>1. HasNotam(r)  BY Served DEF Good, HasNotam, Settled
  <2> QED  BY <2>1, Served
<1>3. Text(n) = Text(notam[r])
  <2>1. PICK v \in BOOLEAN : n = [notam[r] EXCEPT !.published = v]  BY <1>1
  <2>2. Text([notam[r] EXCEPT !.published = v]) = Text(notam[r])
    BY <1>2 DEF Text, NotamRow
  <2> QED  BY <2>1, <2>2
<1>4. status' = [status EXCEPT ![r] = st]
  BY TransitionType DEF IInv, Settled, Settle
<1>5. status[r] \in Signed /\ (status[r] = "published" => st = "published")
  BY DEF Settled, Reached
<1> QED  BY <1>1, <1>3, <1>4, <1>5, CompletionStep

LEMMA MarkPublishedGate ==
  ASSUME IInv, NEW r \in Requests, NEW u \in Users, MarkPublished(r, u)
  PROVE  [Gate!Next]_(Gate!vars)
<1> DEFINE n    == [notam[r] EXCEPT !.published = TRUE]
           path == CASE status[r] = "approved"   -> <<"publishing", "published">>
                     [] status[r] = "publishing" -> <<"published">>
                     [] OTHER                    -> <<>>
<1>1. status[r] \in Signed  BY DEF MarkPublished, Signed
<1>2. status' = [status EXCEPT ![r] = "published"]
  <2>1. status' = [status EXCEPT ![r] = Reached(status[r], path)]
    BY DEF MarkPublished, Transition
  <2>2. CASE status[r] = "approved"
    <3>1. path = <<"publishing", "published">>  BY <2>2
    <3>2. Reached(status[r], <<"publishing", "published">>) = "published"  BY DEF Reached
    <3> QED  BY <2>1, <3>1, <3>2
  <2>3. CASE status[r] = "publishing"
    <3>1. path = <<"published">>  BY <2>3
    <3>2. Reached(status[r], <<"published">>) = "published"  BY DEF Reached
    <3> QED  BY <2>1, <3>1, <3>2
  <2>4. CASE status[r] = "published"
    <3>1. path = <<>>  BY <2>4
    <3>2. Reached(status[r], <<>>) = "published"  BY <2>4 DEF Reached
    <3> QED  BY <2>1, <3>1, <3>2
  <2> QED  BY <1>1, <2>2, <2>3, <2>4 DEF Signed
<1>3. notam[r] \in NotamRow  BY Served DEF MarkPublished
<1>4. /\ n \in NotamRow
      /\ n.preparedBy = notam[r].preparedBy
      /\ n.approvedBy = notam[r].approvedBy
      /\ Text(n) = Text(notam[r])
  BY <1>3 DEF Text, NotamRow
<1>5. notam' = [notam EXCEPT ![r] = n]  BY DEF MarkPublished
<1> HIDE DEF n
<1> QED  BY <1>1, <1>2, <1>4, <1>5, CompletionStep DEF Signed

LEMMA RevalidateDraftsGate ==
  ASSUME IInv, NEW invalid \in SUBSET Requests, RevalidateDrafts(invalid)
  PROVE  UNCHANGED Gate!vars
<1>1. ASSUME NEW q \in Requests
      PROVE  /\ Stage(q)' = Stage(q)
             /\ Doc(q)' = Doc(q)
             /\ Author(q)' = Author(q)
             /\ Signer(q)' = Signer(q)
  <2>1. status' = status  BY DEF RevalidateDrafts
  <2>2. CASE HasNotam(q)
    <3> DEFINE ok == q \notin invalid
               n  == [notam[q] EXCEPT !.valid = ok]
    <3>1. notam'[q] = n  BY <2>2 DEF RevalidateDrafts
    <3>2. notam[q] \in NotamRow  BY <2>2, Served
    <3>3. ok \in BOOLEAN  OBVIOUS
    <3> HIDE DEF ok
    <3>4. /\ Text(n) = Text(notam[q])
          /\ n.exists = notam[q].exists
          /\ n.approvedBy = notam[q].approvedBy
          /\ n.preparedBy = notam[q].preparedBy
      BY <3>2, <3>3 DEF NotamRow, Text
    <3> HIDE DEF n
    <3> QED  BY <2>1, <2>2, <3>1, <3>4 DEF Stage, Doc, Author, Signer, HasNotam
  <2>3. CASE ~ HasNotam(q)
    <3>1. notam'[q] = notam[q]  BY <2>3 DEF RevalidateDrafts
    <3> QED  BY <2>1, <2>3, <3>1 DEF Stage, Doc, Author, Signer, HasNotam
  <2> QED  BY <2>2, <2>3
<1> QED  BY <1>1 DEF Gate!vars

LEMMA InitGate == Init => Gate!Init
<1> SUFFICES ASSUME Init  PROVE Gate!Init
  OBVIOUS
<1>1. ASSUME NEW r \in Requests
      PROVE  Stage(r) = "open" /\ Author(r) = None /\ Signer(r) = None
  <2>1. status[r] = None /\ notam[r] = NoNotam  BY DEF Init
  <2>2. None \notin Signed  BY NoneAssumption DEF Signed, WorkflowStatus
  <2>3. ~ HasNotam(r)  BY <2>1 DEF HasNotam, NoNotam
  <2> QED  BY <2>1, <2>2, <2>3 DEF Stage, Author, Signer, Signed
<1> QED  BY <1>1 DEF Gate!Init

LEMMA NextGate == IInv /\ [Next]_vars => [Gate!Next]_(Gate!vars)
<1> SUFFICES ASSUME IInv, [Next]_vars  PROVE [Gate!Next]_(Gate!vars)
  OBVIOUS
<1>1. CASE UNCHANGED vars \/ NewYear
  <2>1. UNCHANGED <<status, notam>>  BY <1>1 DEF vars, NewYear
  <2> QED  BY <2>1 DEF Gate!vars, Stage, Doc, Author, Signer, HasNotam
<1>2. ASSUME NEW invalid \in SUBSET Requests, RevalidateDrafts(invalid)
      PROVE  [Gate!Next]_(Gate!vars)
  BY <1>2, RevalidateDraftsGate
<1>3. ASSUME NEW r \in Requests, CreateRequest(r)  PROVE [Gate!Next]_(Gate!vars)
  <2>1. status[r] \notin Signed /\ "received" \notin Signed
    BY <1>3, NoneAssumption DEF CreateRequest, Signed, WorkflowStatus
  <2> QED  BY <1>3, <2>1, OpenStep DEF CreateRequest
<1>4. ASSUME NEW r \in Requests, NEW u \in Users, Preparation(r, u)
      PROVE  [Gate!Next]_(Gate!vars)
  <2>1. CASE Submit(r, u)
    <3>1. TypeOK /\ Transition(r, <<"review">>) /\ "review" \in WorkflowStatus
      BY <2>1 DEF IInv, Submit, WorkflowStatus
    <3>2. /\ status[r] \in WorkflowStatus /\ "review" \in TRANSITIONS[status[r]]
          /\ status' = [status EXCEPT ![r] = "review"]
      BY <3>1, OneTransition
    <3>3. status[r] \notin Signed /\ "review" \notin Signed
      BY <3>2 DEF TRANSITIONS, WorkflowStatus, Signed
    <3> QED  BY <2>1, <3>2, <3>3, OpenStep DEF Submit
  <2> QED  BY <1>4, <2>1, SaveDraftGate DEF Preparation
<1>5. ASSUME NEW r \in Requests, NEW u \in Users, Review(r, u)
      PROVE  [Gate!Next]_(Gate!vars)
  <2>1. CASE RequestChanges(r, u)
    <3> DEFINE st == "changes_requested"
    <3>1. TypeOK /\ Transition(r, <<st>>) /\ st \in WorkflowStatus
      BY <2>1 DEF IInv, RequestChanges, WorkflowStatus
    <3>2. /\ status[r] \in WorkflowStatus /\ st \in TRANSITIONS[status[r]]
          /\ status' = [status EXCEPT ![r] = st]
      BY <3>1, OneTransition
    <3>3. status[r] \notin Signed /\ st \notin Signed
      BY <3>2 DEF TRANSITIONS, WorkflowStatus, Signed
    <3> QED  BY <2>1, <3>2, <3>3, OpenStep DEF RequestChanges
  <2> QED  BY <1>5, <2>1, ApproveGate DEF Review
<1>6. ASSUME NEW r \in Requests, NEW u \in Users, Publication(r, u)
      PROVE  [Gate!Next]_(Gate!vars)
  <2>1. CASE MarkPublished(r, u)  BY <2>1, MarkPublishedGate
  <2>2. CASE ~ MarkPublished(r, u)  BY <1>6, <2>2, PublicationSettles, SettleGate
  <2> QED  BY <2>1, <2>2
<1>7. ASSUME NEW r \in Requests, NEW i \in DOMAIN deliveries[r],
             NEW c \in Channels, AftnAck(r, i, c)
      PROVE  [Gate!Next]_(Gate!vars)
  BY <1>7, AftnAckSettles, SettleGate
<1> QED  BY <1>1, <1>2, <1>3, <1>4, <1>5, <1>6, <1>7 DEF Next

\* Whatever the handlers do, a NOTAM passes the approval gate: prepared while
\* it is open, signed by someone else, unchanged from then on.
THEOREM GateImplemented == Spec => ImplementsGate
BY InitGate, NextGate, Invariance, PTL DEF Spec, ImplementsGate, Gate!Spec

\* The gate never reopens a signed document and never changes its text.
LEMMA FrozenStep ==
  ASSUME IInv, IInv', [Gate!Next]_(Gate!vars), NEW r \in Requests,
         status[r] \in Signed
  PROVE  /\ Text(notam'[r]) = Text(notam[r])
         /\ status'[r] \in Signed
         /\ status[r] = "published" => status'[r] = "published"
<1>1. Stage(r) \in {"signed", "released"} /\ (Stage(r) = "released" <=> status[r] = "published")
  BY DEF Stage, Signed
<1>2. /\ Stage(r)' \in {"signed", "released"}
      /\ Stage(r) = "released" => Stage(r)' = "released"
      /\ Doc(r)' = Doc(r)
  <2>1. CASE UNCHANGED Gate!vars  BY <1>1, <2>1 DEF Gate!vars
  <2>2. ASSUME NEW q \in Requests, Gate!Prepare(q)
        PROVE  Stage(r)' = Stage(r) /\ Doc(r)' = Doc(r)
    <3>1. Stage(q) = "open"  BY <2>2 DEF Gate!Prepare
    <3>2. q # r  BY <1>1, <3>1
    <3> QED  BY <2>2, <3>2 DEF Gate!Prepare
  <2>3. ASSUME NEW q \in Requests, NEW u \in Users, Gate!Sign(q, u)
        PROVE  /\ Doc(r)' = Doc(r)
               /\ IF q = r THEN Stage(r) = "signed" /\ Stage(r)' = "signed"
                           ELSE Stage(r)' = Stage(r)
    BY <1>1, <2>3 DEF Gate!Sign
  <2>4. ASSUME NEW q \in Requests, Gate!Release(q)
        PROVE  /\ Doc(r)' = Doc(r)
               /\ Stage(r)' = IF q = r THEN "released" ELSE Stage(r)
    BY <2>4 DEF Gate!Release
  <2> QED  BY <1>1, <2>1, <2>2, <2>3, <2>4 DEF Gate!Next
<1>3. status'[r] \in Signed /\ (Stage(r)' = "released" <=> status'[r] = "published")
  BY <1>2 DEF Stage, Signed
<1>4. HasNotam(r) /\ notam'[r].exists
  BY <1>3 DEF IInv, Good, HasNotam
<1>5. Doc(r) = Text(notam[r]) /\ Doc(r)' = Text(notam'[r])
  BY <1>4 DEF Doc, HasNotam
<1> QED  BY <1>1, <1>2, <1>3, <1>5

\* From approval on no handler, retry or override changes what was approved.
THEOREM ApprovedTextIsFrozenHolds == Spec => ApprovedTextIsFrozen
<1>1. IInv /\ [Next]_vars =>
        [\A r \in Requests : status[r] \in Signed =>
           Text(notam'[r]) = Text(notam[r]) /\ status'[r] \in Signed]_vars
  BY NextIInv, NextGate, FrozenStep
<1> QED  BY <1>1, Invariance, PTL DEF Spec, ApprovedTextIsFrozen

-----------------------------------------------------------------------------
(***************************************************************************)
(* The audit trail.                                                        *)
(***************************************************************************)

\* The trail tr of a request leads through the table to the status st.
Replays(st, tr) ==
  /\ tr # <<>>
  /\ tr[1] = "received"
  /\ tr[Len(tr)] = st
  /\ \A i \in 2 .. Len(tr) : tr[i] \in TRANSITIONS[tr[i - 1]]

\* A trail is extended by a legal path from the status it leads to.
LEMMA ExtendedTrail ==
  ASSUME NEW st \in WorkflowStatus, NEW tr \in Seq(WorkflowStatus),
         NEW path \in Seq(WorkflowStatus), Replays(st, tr), LegalPath(st, path)
  PROVE  Replays(Reached(st, path), tr \o path)
<1> DEFINE new == tr \o path
<1>1. /\ Len(tr) \in Nat \ {0} /\ Len(path) \in Nat
      /\ Len(new) = Len(tr) + Len(path)
      /\ \A i \in 1 .. Len(tr) : new[i] = tr[i]
      /\ \A i \in 1 .. Len(path) : new[Len(tr) + i] = path[i]
  BY DEF Replays
<1> HIDE DEF new
<1>2. new # <<>> /\ new[1] = "received"  BY <1>1 DEF Replays
<1>3. new[Len(new)] = Reached(st, path)
  <2>1. CASE path = <<>>
    <3>1. Len(new) = Len(tr)  BY <1>1, <2>1
    <3> QED  BY <1>1, <2>1, <3>1 DEF Reached, Replays
  <2>2. CASE path # <<>>
    <3>1. Len(path) \in 1 .. Len(path)  BY <2>2
    <3> QED  BY <1>1, <2>2, <3>1 DEF Reached
  <2> QED  BY <2>1, <2>2
<1>4. ASSUME NEW i \in 2 .. Len(new)  PROVE new[i] \in TRANSITIONS[new[i - 1]]
  <2>1. CASE i \in 2 .. Len(tr)
    <3>1. i \in 1 .. Len(tr) /\ i - 1 \in 1 .. Len(tr)  BY <1>1, <2>1
    <3> QED  BY <1>1, <2>1, <3>1 DEF Replays
  <2>2. CASE i = Len(tr) + 1
    <3>1. 1 \in 1 .. Len(path) /\ Len(tr) \in 1 .. Len(tr) /\ i - 1 = Len(tr)
      BY <1>1, <2>2
    <3>2. new[i] = path[1] /\ new[i - 1] = st  BY <1>1, <2>2, <3>1 DEF Replays
    <3>3. path[1] \in TRANSITIONS[st]  BY <3>1 DEF LegalPath
    <3> QED  BY <3>2, <3>3
  <2>3. CASE i \in Len(tr) + 2 .. Len(new)
    <3> DEFINE j == i - Len(tr)
    <3>1. j \in 2 .. Len(path) /\ i = Len(tr) + j /\ i - 1 = Len(tr) + (j - 1)
      BY <1>1, <2>3
    <3>2. j \in 1 .. Len(path) /\ j - 1 \in 1 .. Len(path) /\ j # 1  BY <3>1, <1>1
    <3>3. new[i] = path[j] /\ new[i - 1] = path[j - 1]  BY <1>1, <3>1, <3>2
    <3> HIDE DEF j
    <3>4. path[j] \in TRANSITIONS[path[j - 1]]  BY <3>2 DEF LegalPath
    <3> QED  BY <3>3, <3>4
  <2> QED  BY <1>1, <2>1, <2>2, <2>3
<1> QED  BY <1>2, <1>3, <1>4 DEF Replays, new

\* A handler writes the status and the trail together, or neither.
LEMMA StatusSteps ==
  ASSUME IInv, [Next]_vars
  PROVE  \/ UNCHANGED <<status, trail>>
         \/ \E r \in Requests : CreateRequest(r)
         \/ \E r \in Requests, path \in Seq(WorkflowStatus) : Transition(r, path)
<1> DEFINE Walk == \E r \in Requests, path \in Seq(WorkflowStatus) : Transition(r, path)
<1>1. CASE UNCHANGED vars  BY <1>1 DEF vars
<1>2. CASE NewYear \/ \E invalid \in SUBSET Requests : RevalidateDrafts(invalid)
  BY <1>2 DEF NewYear, RevalidateDrafts
<1>3. CASE \E r \in Requests : CreateRequest(r)  BY <1>3
<1>4. ASSUME NEW r \in Requests, NEW u \in Users, Preparation(r, u)  PROVE Walk
  <2>1. ASSUME NEW kind, NEW s, NEW n, NEW replaces, NEW body,
               SaveDraft(r, u, kind, s, n, replaces, body)
        PROVE  Walk
    <3>1. status[r] \in {"received", "triage", "draft", "changes_requested"}
      BY <2>1 DEF SaveDraft, Draftable
    <3> QED  BY <2>1, <3>1, DraftPathFacts DEF SaveDraft
  <2>2. ASSUME Submit(r, u)  PROVE Walk
    <3>1. <<"review">> \in Seq(WorkflowStatus)  BY DEF WorkflowStatus
    <3> QED  BY <2>2, <3>1 DEF Submit
  <2> QED  BY <1>4, <2>1, <2>2 DEF Preparation
<1>5. ASSUME NEW r \in Requests, NEW u \in Users, Review(r, u)  PROVE Walk
  <2>1. /\ <<"changes_requested">> \in Seq(WorkflowStatus)
        /\ <<"approved">> \in Seq(WorkflowStatus)
    BY DEF WorkflowStatus
  <2> QED  BY <1>5, <2>1 DEF Review, RequestChanges, Approve
<1>6. ASSUME NEW r \in Requests, NEW u \in Users, Publication(r, u)  PROVE Walk
  <2>1. CASE MarkPublished(r, u)
    <3> DEFINE path == CASE status[r] = "approved"   -> <<"publishing", "published">>
                         [] status[r] = "publishing" -> <<"published">>
                         [] OTHER                    -> <<>>
    <3>1. /\ <<"publishing", "published">> \in Seq(WorkflowStatus)
          /\ <<"published">> \in Seq(WorkflowStatus)
          /\ <<>> \in Seq(WorkflowStatus)
      BY DEF WorkflowStatus
    <3>2. path \in Seq(WorkflowStatus)  BY <3>1
    <3>3. Transition(r, path)  BY <2>1 DEF MarkPublished
    <3> QED  BY <3>2, <3>3
  <2>2. CASE ~ MarkPublished(r, u)
    BY <1>6, <2>2, PublicationSettles DEF Settled, Settle
  <2> QED  BY <2>1, <2>2
<1>7. ASSUME NEW r \in Requests, NEW i \in DOMAIN deliveries[r],
             NEW c \in Channels, AftnAck(r, i, c)
      PROVE  Walk
  BY <1>7, AftnAckSettles DEF Settled, Settle
<1> QED  BY <1>1, <1>2, <1>3, <1>4, <1>5, <1>6, <1>7 DEF Next

LEMMA TrailStep ==
  ASSUME IInv, [Next]_vars, AuditTrailReplays
  PROVE  AuditTrailReplays'
<1>1. /\ status \in [Requests -> WorkflowStatus \cup {None}]
      /\ trail \in [Requests -> Seq(WorkflowStatus)]
  BY DEF IInv, TypeOK
<1>2. CASE UNCHANGED <<status, trail>>  BY <1>2 DEF AuditTrailReplays
<1>3. ASSUME NEW r \in Requests, CreateRequest(r)  PROVE AuditTrailReplays'
  <2> DEFINE new == <<"received">>
  <2>1. Replays("received", new)  BY DEF Replays
  <2>2. /\ status' = [status EXCEPT ![r] = "received"]
        /\ trail' = [trail EXCEPT ![r] = new]
    BY <1>3 DEF CreateRequest
  <2> HIDE DEF new
  <2> QED  BY <1>1, <2>1, <2>2 DEF AuditTrailReplays, Replays
<1>4. ASSUME NEW r \in Requests, NEW path \in Seq(WorkflowStatus), Transition(r, path)
      PROVE  AuditTrailReplays'
  <2> DEFINE st == Reached(status[r], path)
             tr == trail[r] \o path
  <2>1. Replays(status[r], trail[r])
    BY <1>4 DEF Transition, AuditTrailReplays, Replays
  <2>2. status[r] \in WorkflowStatus /\ LegalPath(status[r], path)
    BY <1>1, <1>4 DEF Transition
  <2>3. Replays(st, tr)  BY <1>1, <2>1, <2>2, ExtendedTrail
  <2>4. /\ status' = [status EXCEPT ![r] = st]
        /\ trail' = [trail EXCEPT ![r] = tr]
    BY <1>4 DEF Transition
  <2> HIDE DEF st, tr
  <2> QED  BY <1>1, <2>3, <2>4 DEF AuditTrailReplays, Replays
<1> QED  BY <1>2, <1>3, <1>4, StatusSteps

\* No handler assigns a status without the audit row of a legal transition:
\* the trail alone tells how a request came to where it is.
THEOREM AuditTrailReplaysHolds == Spec => []AuditTrailReplays
<1>1. Init => AuditTrailReplays  BY DEF Init, AuditTrailReplays
<1>2. IInv /\ AuditTrailReplays /\ [Next]_vars => AuditTrailReplays'  BY TrailStep
<1> QED  BY <1>1, <1>2, Invariance, PTL DEF Spec

-----------------------------------------------------------------------------
(***************************************************************************)
(* Completion.                                                             *)
(***************************************************************************)

\* A step that touches one request completes no other.
LEMMA CompletedRequest ==
  ASSUME IInv, NEW r \in Requests, NEW st, NEW ds,
         status' = [status EXCEPT ![r] = st],
         st = "published" =>
           \/ status[r] = "published"
           \/ deliveries'[r] = ds /\ AllAcknowledged(ds)
  PROVE  \A q \in Requests :
           status[q] # "published" /\ status'[q] = "published" => AllAcknowledged(deliveries'[q])
BY DEF IInv, TypeOK

LEMMA CompletionEarned ==
  ASSUME IInv, [Next]_vars, NEW q \in Requests,
         status[q] # "published", status'[q] = "published"
  PROVE  AllAcknowledged(deliveries'[q])
<1>1. status \in [Requests -> WorkflowStatus \cup {None}] /\ TypeOK
  BY DEF IInv, TypeOK
<1>2. ASSUME NEW r \in Requests, NEW ds \in Deliveries, NEW path \in Seq(WorkflowStatus),
             NEW st \in Signed, Settled(r, ds, path, st)
      PROVE  AllAcknowledged(deliveries'[q])
  <2>1. status' = [status EXCEPT ![r] = st] /\ deliveries' = [deliveries EXCEPT ![r] = ds]
    BY <1>1, <1>2, TransitionType DEF Settled, Settle
  <2>2. deliveries'[r] = ds  BY <1>1, <2>1 DEF TypeOK
  <2> QED  BY <1>2, <2>1, <2>2, CompletedRequest DEF Settled
<1>3. ASSUME NEW r \in Requests, NEW a \in WorkflowStatus \ {"published"},
             Transition(r, <<a>>)
      PROVE  FALSE
  <2>1. status' = [status EXCEPT ![r] = a]  BY <1>1, <1>3, OneTransition
  <2> QED  BY <1>1, <2>1
<1>4. CASE UNCHANGED status  BY <1>4
<1>5. ASSUME NEW r \in Requests, CreateRequest(r)  PROVE FALSE
  BY <1>1, <1>5 DEF CreateRequest
<1>6. ASSUME NEW r \in Requests, NEW u \in Users, Preparation(r, u)  PROVE FALSE
  <2>1. ASSUME NEW kind, NEW s, NEW n, NEW replaces, NEW body,
               SaveDraft(r, u, kind, s, n, replaces, body)
        PROVE  FALSE
    <3>1. status[r] \in {"received", "triage", "draft", "changes_requested"}
      BY <2>1 DEF SaveDraft, Draftable
    <3>2. status' = [status EXCEPT ![r] = "draft"]
      BY <2>1, <3>1, DraftPathFacts DEF SaveDraft, Transition
    <3> QED  BY <1>1, <3>2
  <2>2. ASSUME Submit(r, u)  PROVE FALSE
    BY <1>3, <2>2 DEF Submit, WorkflowStatus
  <2> QED  BY <1>6, <2>1, <2>2 DEF Preparation
<1>7. ASSUME NEW r \in Requests, NEW u \in Users, Review(r, u)  PROVE FALSE
  BY <1>3, <1>7 DEF Review, RequestChanges, Approve, WorkflowStatus
<1>8. ASSUME NEW r \in Requests, NEW u \in Users, Publication(r, u)
      PROVE  AllAcknowledged(deliveries'[q])
  <2>1. CASE MarkPublished(r, u)
    <3> DEFINE all == [c \in Channels |-> "acknowledged"]
    <3>1. deliveries' = [deliveries EXCEPT ![r] = [i \in DOMAIN deliveries[r] |-> all]]
      BY <2>1 DEF MarkPublished
    <3>2. deliveries'[r] = [i \in DOMAIN deliveries[r] |-> all]  BY <1>1, <3>1 DEF TypeOK
    <3>3. AllAcknowledged(deliveries'[r])  BY <3>2 DEF AllAcknowledged, Statuses
    <3> DEFINE path == CASE status[r] = "approved"   -> <<"publishing", "published">>
                         [] status[r] = "publishing" -> <<"published">>
                         [] OTHER                    -> <<>>
    <3>4. status' = [status EXCEPT ![r] = Reached(status[r], path)]
      BY <2>1 DEF MarkPublished, Transition
    <3> HIDE DEF path
    <3> QED  BY <3>3, <3>4, CompletedRequest
  <2>2. CASE ~ MarkPublished(r, u)  BY <1>2, <1>8, <2>2, PublicationSettles
  <2> QED  BY <2>1, <2>2
<1>9. ASSUME NEW r \in Requests, NEW i \in DOMAIN deliveries[r],
             NEW c \in Channels, AftnAck(r, i, c)
      PROVE  AllAcknowledged(deliveries'[q])
  BY <1>2, <1>9, AftnAckSettles
<1>10. CASE UNCHANGED vars \/ NewYear \/ \E invalid \in SUBSET Requests : RevalidateDrafts(invalid)
  BY <1>4, <1>10 DEF vars, NewYear, RevalidateDrafts
<1> QED  BY <1>5, <1>6, <1>7, <1>8, <1>9, <1>10 DEF Next

\* _reconcile_publishing_status and mark_request_published are the only ways
\* into PUBLISHED, both with every delivery acknowledged, and nothing leads out.
THEOREM CompletionIsEarnedHolds == Spec => CompletionIsEarned
<1>1. IInv /\ [Next]_vars =>
        [\A r \in Requests :
           /\ status[r] = "published" => status'[r] = "published"
           /\ status[r] # "published" /\ status'[r] = "published"
                => AllAcknowledged(deliveries'[r])]_vars
  <2> SUFFICES ASSUME IInv, [Next]_vars, NEW r \in Requests
               PROVE  /\ status[r] = "published" => status'[r] = "published"
                      /\ status[r] # "published" /\ status'[r] = "published"
                           => AllAcknowledged(deliveries'[r])
    OBVIOUS
  <2>1. IInv' /\ [Gate!Next]_(Gate!vars)  BY NextIInv, NextGate
  <2>2. status[r] = "published" => status'[r] = "published"
    BY <2>1, FrozenStep DEF Signed
  <2> QED  BY <2>2, CompletionEarned
<1> QED  BY <1>1, Invariance, PTL DEF Spec, CompletionIsEarned

-----------------------------------------------------------------------------
(***************************************************************************)
(* References and numbers.                                                 *)
(***************************************************************************)

\* Apart from a save, no step creates or removes a NOTAM, or changes its kind
\* or the row it refers to.
LEMMA ReferenceSteps ==
  ASSUME IInv, [Next]_vars
  PROVE  \/ \E r \in Requests, u \in Users, kind \in NotamKind, s \in Series, n \in Nat,
               replaces \in Requests \cup {None}, body \in Bodies :
                 SaveDraft(r, u, kind, s, n, replaces, body)
         \/ \A q \in Requests :
              /\ notam'[q].exists = notam[q].exists
              /\ notam'[q].kind = notam[q].kind
              /\ notam'[q].replaces = notam[q].replaces
<1> DEFINE Saved == \E r \in Requests, u \in Users, kind \in NotamKind, s \in Series, n \in Nat,
                      replaces \in Requests \cup {None}, body \in Bodies :
                        SaveDraft(r, u, kind, s, n, replaces, body)
           Kept  == \A q \in Requests :
                      /\ notam'[q].exists = notam[q].exists
                      /\ notam'[q].kind = notam[q].kind
                      /\ notam'[q].replaces = notam[q].replaces
<1>1. notam \in [Requests -> NotamRow \cup {NoNotam}]  BY DEF IInv, TypeOK
<1>2. CASE UNCHANGED notam  BY <1>2
<1>3. ASSUME NEW r \in Requests, notam[r] \in NotamRow,
             \/ \E v \in BOOLEAN : notam' = [notam EXCEPT ![r] = [notam[r] EXCEPT !.published = v]]
             \/ \E v \in Users : notam' = [notam EXCEPT ![r] = [notam[r] EXCEPT !.approvedBy = v]]
      PROVE  Kept
  <2>1. ASSUME NEW n, n.exists = notam[r].exists, n.kind = notam[r].kind,
               n.replaces = notam[r].replaces, notam' = [notam EXCEPT ![r] = n]
        PROVE  Kept
    BY <1>1, <2>1
  <2>2. ASSUME NEW v
        PROVE  LET p == [notam[r] EXCEPT !.published = v]
                   a == [notam[r] EXCEPT !.approvedBy = v]
               IN /\ p.exists = notam[r].exists /\ p.kind = notam[r].kind
                  /\ p.replaces = notam[r].replaces
                  /\ a.exists = notam[r].exists /\ a.kind = notam[r].kind
                  /\ a.replaces = notam[r].replaces
    BY <1>3 DEF NotamRow
  <2> QED  BY <1>3, <2>1, <2>2
<1>4. ASSUME NEW r \in Requests, NEW ds, NEW path, NEW st, Settled(r, ds, path, st)
      PROVE  Kept
  <2>1. HasNotam(r)  BY <1>4, Served DEF Good, HasNotam, Settled
  <2>2. notam[r] \in NotamRow  BY <2>1, Served
  <2>3. \E v \in BOOLEAN : notam' = [notam EXCEPT ![r] = [notam[r] EXCEPT !.published = v]]
    BY <1>4, SettledRow
  <2> QED  BY <1>3, <2>2, <2>3
<1>5. ASSUME NEW r \in Requests, NEW u \in Users, Preparation(r, u)  PROVE Saved \/ Kept
  <2>1. 1 .. Cardinality(Requests) + 1 \subseteq Nat
    BY FiniteAssumption, FS_CardinalityType
  <2> QED  BY <1>2, <1>5, <2>1 DEF Preparation, Submit
<1>6. ASSUME NEW r \in Requests, NEW u \in Users, Review(r, u)  PROVE Kept
  <2>1. CASE Approve(r, u)
    <3>1. notam[r] \in NotamRow  BY <2>1, Served DEF Approve
    <3>2. notam' = [notam EXCEPT ![r] = [notam[r] EXCEPT !.approvedBy = u]]
      BY <2>1 DEF Approve
    <3> QED  BY <1>3, <3>1, <3>2
  <2> QED  BY <1>2, <1>6, <2>1 DEF Review, RequestChanges
<1>7. ASSUME NEW r \in Requests, NEW u \in Users, Publication(r, u)  PROVE Kept
  <2>1. CASE MarkPublished(r, u)
    <3>1. notam[r] \in NotamRow  BY <2>1, Served DEF MarkPublished
    <3>2. notam' = [notam EXCEPT ![r] = [notam[r] EXCEPT !.published = TRUE]]
      BY <2>1 DEF MarkPublished
    <3> QED  BY <1>3, <3>1, <3>2
  <2>2. CASE ~ MarkPublished(r, u)  BY <1>4, <1>7, <2>2, PublicationSettles
  <2> QED  BY <2>1, <2>2
<1>8. ASSUME NEW r \in Requests, NEW i \in DOMAIN deliveries[r],
             NEW c \in Channels, AftnAck(r, i, c)
      PROVE  Kept
  BY <1>4, <1>8, AftnAckSettles
<1>9. ASSUME NEW invalid \in SUBSET Requests, RevalidateDrafts(invalid)  PROVE Kept
  <2>1. ASSUME NEW q \in Requests
        PROVE  /\ notam'[q].exists = notam[q].exists
               /\ notam'[q].kind = notam[q].kind
               /\ notam'[q].replaces = notam[q].replaces
    <3>1. CASE HasNotam(q)
      <4> DEFINE ok == q \notin invalid
      <4>1. notam'[q] = [notam[q] EXCEPT !.valid = ok]  BY <1>9, <3>1 DEF RevalidateDrafts
      <4>2. notam[q] \in NotamRow  BY <3>1, Served
      <4> HIDE DEF ok
      <4> QED  BY <4>1, <4>2 DEF NotamRow
    <3>2. CASE ~ HasNotam(q)  BY <1>9, <3>2 DEF RevalidateDrafts
    <3> QED  BY <3>1, <3>2
  <2> QED  BY <2>1
<1>10. CASE UNCHANGED vars \/ NewYear \/ \E r \in Requests : CreateRequest(r)
  BY <1>2, <1>10 DEF vars, NewYear, CreateRequest
<1> QED  BY <1>5, <1>6, <1>7, <1>8, <1>9, <1>10 DEF Next

LEMMA ReferencesStep ==
  ASSUME IInv, [Next]_vars, ReferencesResolve
  PROVE  ReferencesResolve'
<1>1. notam \in [Requests -> NotamRow \cup {NoNotam}]  BY DEF IInv, TypeOK
<1>2. \A q \in Requests : HasNotam(q) => notam[q].replaces \in Requests \cup {None}
  BY RowFacts DEF IInv, NotamRow
<1>3. ASSUME NEW r \in Requests, NEW u \in Users, NEW kind \in NotamKind, NEW s \in Series,
             NEW n \in Nat, NEW replaces \in Requests \cup {None}, NEW body \in Bodies,
             SaveDraft(r, u, kind, s, n, replaces, body)
      PROVE  ReferencesResolve'
  <2> DEFINE row == notam'[r]
  <2>1. row.exists /\ row.kind = kind /\ row.replaces = replaces
    BY <1>1, <1>3 DEF SaveDraft
  <2>2. \A q \in Requests \ {r} : notam'[q] = notam[q]  BY <1>1, <1>3 DEF SaveDraft
  <2>3. /\ kind = "NOTAMN" <=> replaces = None
        /\ replaces # None => HasNotam(replaces)
    BY <1>3 DEF SaveDraft, ValidReference
  <2> HIDE DEF row
  <2>4. \A q \in Requests : HasNotam(q) => notam'[q].exists
    BY <2>1, <2>2 DEF HasNotam, row
  <2> QED  BY <1>2, <2>1, <2>2, <2>3, <2>4 DEF ReferencesResolve, HasNotam, row
<1>4. CASE \A q \in Requests :
             /\ notam'[q].exists = notam[q].exists
             /\ notam'[q].kind = notam[q].kind
             /\ notam'[q].replaces = notam[q].replaces
  BY <1>2, <1>4 DEF ReferencesResolve, HasNotam
<1> QED  BY <1>3, <1>4, ReferenceSteps

\* The reference create_draft checks once stays good through every later save
\* of either NOTAM.
THEOREM ReferencesResolveHolds == Spec => []ReferencesResolve
<1>1. Init => ReferencesResolve
  BY DEF Init, ReferencesResolve, HasNotam, NoNotam
<1>2. IInv /\ ReferencesResolve /\ [Next]_vars => ReferencesResolve'  BY ReferencesStep
<1> QED  BY <1>1, <1>2, Invariance, PTL DEF Spec

\* next_serial answers with a number above every number of the series, so the
\* gaps and the order in which saves take numbers do not matter.
THEOREM NextNumberIsFreeHolds == Spec => []NextNumberIsFree
<1>1. NextNumberIsFree
  <2> SUFFICES ASSUME NEW r \in Requests, NEW s \in Series,
                      NEW n \in 1 .. Cardinality(Requests) + 1, IsNextSerial(s, n),
                      NEW q \in Requests \ {r}, HasNotam(q),
                      notam[q].id = [series |-> s, serial |-> n, year |-> year]
               PROVE  FALSE
    BY DEF NextNumberIsFree, NumberIsFree
  <2>1. n \in Serials(s)  BY DEF Serials
  <2>2. n < n  BY <2>1 DEF IsNextSerial
  <2> QED  BY <2>2, FiniteAssumption, FS_CardinalityType
<1> QED  BY <1>1, PTL

-----------------------------------------------------------------------------
=============================================================================
