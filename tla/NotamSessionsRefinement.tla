----------------------- MODULE NotamSessionsRefinement -----------------------
(***************************************************************************)
(* A handler that no other overlaps is one step of NotamLifecycle, for any *)
(* number of sessions, users, channels and texts.                          *)
(***************************************************************************)
EXTENDS NotamSessionsProofs

-----------------------------------------------------------------------------
(***************************************************************************)
(* What a handler h that began alone has done so far, from the committed   *)
(* columns r and deliveries ds.  Life!Next says it of a step; this says it *)
(* of the copy in a session, at every part of the handler.                 *)
(***************************************************************************)
Overlay(ds, changed) ==
  [i \in DOMAIN ds \cup {d[1] : d \in DOMAIN changed} |-> [c \in Channels |->
     IF <<i, c>> \in DOMAIN changed THEN changed[<<i, c>>] ELSE ds[i][c]]]

Entered(walked) == [i \in DOMAIN walked |-> walked[i].to]

Ends(r, c) == IF c # "AFTN" THEN {"acknowledged", "failed"}
              ELSE IF r.text \in ITA2 THEN {"acknowledged", "sent"}
              ELSE {"failed"}

Staffed == \E u \in Users : Life!May(u, AISOperations)

\* It has walked path, and is in the status to which path leads.
Went(h, r, path) ==
  /\ LegalPath(r.status, path)
  /\ Entered(h.walked) = path
  /\ h.now.status = Reached(r.status, path)

\* It leaves the content, or the content and the signature, or all stamps.
SameText(h, r) ==
  /\ h.saver = None
  /\ h.now.text = r.text /\ h.now.printed = r.printed /\ h.now.preparer = r.preparer
SameSignature(h, r) == SameText(h, r) /\ h.now.approver = r.approver
SameStamps(h, r)    == SameSignature(h, r) /\ h.now.published = r.published

NothingSent(h) == h.next = "commit" /\ DOMAIN h.changed = {}

Saves(h, r) == \E u \in Users :
  /\ RoleOf[u] \in AISOperations
  /\ r.status \in Life!Draftable
  /\ Went(h, r, DraftPath(r.status))
  /\ h.now.text \in Texts /\ h.now.preparer = u
  /\ h.now.printed = (IF r.text # None THEN 2 ELSE 1)
  /\ h.now.approver = r.approver /\ h.now.published = r.published
  /\ h.saver = u
  /\ NothingSent(h)

Submits(h, r) ==
  /\ r.text # None
  /\ Went(h, r, <<"review">>) /\ SameStamps(h, r)
  /\ NothingSent(h)

Returns(h, r) ==
  /\ \E u \in Users : Life!May(u, Reviewers)
  /\ Went(h, r, <<"changes_requested">>) /\ SameStamps(h, r)
  /\ NothingSent(h)

Approves(h, r) == \E u \in Users :
  /\ Life!May(u, Reviewers)
  /\ r.text # None
  /\ r.preparer # u
  /\ Went(h, r, <<"approved">>) /\ SameText(h, r)
  /\ h.now.approver = u /\ h.now.published = r.published
  /\ NothingSent(h)

\* It has reconciled the status with the deliveries it has changed.
Settles(h, r, path, settled) ==
  /\ Went(h, r, path \o settled) /\ SameSignature(h, r)
  /\ h.now.published = (r.published \/ settled = <<"published">>)

Batched(h, r, ds) ==
  /\ DOMAIN h.changed = Batch(ds)
  /\ \A c \in Channels : h.changed[<<Len(ds) + 1, c>>] \in Ends(r, c)

Publishes(h, r, ds) ==
  /\ r.text # None
  /\ \/ h.next = "send" /\ h.target = None /\ Settles(h, r, <<"publishing">>, <<>>)
     \/ h.next = "reconcile" /\ Batched(h, r, ds) /\ Settles(h, r, <<"publishing">>, <<>>)
     \/ /\ h.next = "commit" /\ Batched(h, r, ds)
        /\ Settles(h, r, <<"publishing">>, Life!Reconcile(Overlay(ds, h.changed)))

\* A retry, or an acknowledgement.
Redelivered(h, r, d) ==
  DOMAIN h.changed = {d} /\ h.changed[d] \in Ends(r, d[2]) \cup {"acknowledged"}

Redelivers(h, r, ds) == \E d \in Stored(ds) :
  \/ h.next = "send" /\ h.target = d /\ Settles(h, r, <<>>, <<>>)
  \/ h.next = "reconcile" /\ Redelivered(h, r, d) /\ Settles(h, r, <<>>, <<>>)
  \/ /\ h.next = "commit" /\ Redelivered(h, r, d)
     /\ Settles(h, r, <<>>, IF r.status = "publishing"
                            THEN Life!Reconcile(Overlay(ds, h.changed)) ELSE <<>>)

Unsettled(ds) == {d \in Stored(ds) : ds[d[1]][d[2]] \in {"sent", "failed"}}

Completes(h, r, ds) ==
  /\ r.text # None
  /\ r.status \in {"publishing", "approved", "published"}
  /\ Went(h, r, OverridePath(r.status)) /\ SameSignature(h, r)
  /\ h.now.published = TRUE
  /\ \/ h.next = "override"
     \/ /\ h.next = "commit" /\ DOMAIN h.changed = Unsettled(ds)
        /\ \A d \in Unsettled(ds) : h.changed[d] = "acknowledged"

Faithful(h, r, ds) ==
  /\ h.read = r
  /\ \/ Saves(h, r) \/ Submits(h, r) \/ Returns(h, r) \/ Approves(h, r)
     \/ Publishes(h, r, ds) \/ Redelivers(h, r, ds) \/ Completes(h, r, ds)

-----------------------------------------------------------------------------
(***************************************************************************)
(* The inductive invariant.                                                *)
(***************************************************************************)
Open == {s \in Sessions : session[s] # Idle}

\* Each handler that was started has made, or may still make, two transitions.
Counted ==
  /\ IsFiniteSet(Open)
  /\ Len(events) + 2 * Cardinality(Open) <= 2 * started
  /\ \A s \in Open : Len(session[s].walked) <= IF session[s].next \in {"send", "reconcile"} THEN 1 ELSE 2

\* A NOTAM that is signed or published, or about to be, has a text.
Stamped(c) == c.approver # None \/ c.published
Worded(h, r) ==
  /\ h.read.text # None => h.now.text # None
  /\ Stamped(h.now) => r.text # None

HasText ==
  /\ Stamped(row) => row.text # None
  /\ \A s \in Open : Worded(session[s], row)

\* Somebody can do what a handler under way, or a delivery, tells was done.
HasStaff == deliveries # <<>> \/ Open # {} => Staffed

AloneIsFaithful ==
  \A s \in Open : session[s].alone => Open = {s} /\ Faithful(session[s], row, deliveries)

RInv == IInv /\ Counted /\ HasText /\ HasStaff /\ AloneIsFaithful
-----------------------------------------------------------------------------
(***************************************************************************)
(* NotamLifecycle has the same vocabulary.                                 *)
(***************************************************************************)
LEMMA SameWords ==
  /\ Life!TRANSITIONS = TRANSITIONS
  /\ Life!AISOperations = AISOperations /\ Life!Reviewers = Reviewers
  /\ \A s, path : /\ Life!LegalPath(s, path) <=> LegalPath(s, path)
                  /\ Life!Reached(s, path) = Reached(s, path)
                  /\ Life!DraftPath(s) = DraftPath(s)
<1>1. Life!WorkflowStatus = WorkflowStatus  BY DEF Life!WorkflowStatus, WorkflowStatus
<1>2. Life!TRANSITIONS = TRANSITIONS  BY <1>1 DEF Life!TRANSITIONS, TRANSITIONS
<1>3. Life!AISOperations = AISOperations /\ Life!Reviewers = Reviewers
  BY DEF Life!AISOperations, AISOperations, Life!Reviewers, Reviewers
<1>4. ASSUME NEW s, NEW path
      PROVE  /\ Life!LegalPath(s, path) <=> LegalPath(s, path)
             /\ Life!Reached(s, path) = Reached(s, path)
             /\ Life!DraftPath(s) = DraftPath(s)
  <2>1. Life!LegalPath(s, path) <=> LegalPath(s, path)
    BY <1>2 DEF Life!LegalPath, LegalPath
  <2>2. Life!Reached(s, path) = Reached(s, path)  BY DEF Life!Reached, Reached
  <2>3. Life!DraftPath(s) = DraftPath(s)  BY DEF Life!DraftPath, DraftPath
  <2> QED  BY <2>1, <2>2, <2>3
<1> QED  BY <1>2, <1>3, <1>4

\* What the events of a walk enter is the path that was walked.
LEMMA EnteredWalk ==
  ASSUME NEW from \in WorkflowStatus, NEW path \in Seq(WorkflowStatus)
  PROVE  Entered(Walk(from, path)) = path /\ Len(Walk(from, path)) = Len(path)
<1>1. DOMAIN Walk(from, path) = DOMAIN path  BY DEF Walk
<1>2. \A i \in DOMAIN path : Walk(from, path)[i].to = path[i]  BY DEF Walk
<1>3. Walk(from, path) \in Seq(Events)  BY WalkFacts
<1>4. DOMAIN path = 1 .. Len(path) /\ path = [i \in DOMAIN path |-> path[i]]  OBVIOUS
<1>5. Entered(Walk(from, path)) = path  BY <1>1, <1>2, <1>4 DEF Entered
<1>6. Len(Walk(from, path)) = Len(path)  BY <1>1, <1>3
<1> QED  BY <1>5, <1>6

LEMMA EnteredJoin ==
  ASSUME NEW v \in Seq(Events), NEW w \in Seq(Events)
  PROVE  /\ Entered(v) \in Seq(WorkflowStatus) /\ Len(Entered(v)) = Len(v)
         /\ Entered(v \o w) = Entered(v) \o Entered(w)
<1>1. \A x \in Seq(Events) : /\ Entered(x) \in Seq(WorkflowStatus) /\ Len(Entered(x)) = Len(x)
                             /\ \A i \in 1 .. Len(x) : Entered(x)[i] = x[i].to
  <2> SUFFICES ASSUME NEW x \in Seq(Events)
               PROVE  /\ Entered(x) \in Seq(WorkflowStatus) /\ Len(Entered(x)) = Len(x)
                      /\ \A i \in 1 .. Len(x) : Entered(x)[i] = x[i].to
    OBVIOUS
  <2>1. DOMAIN x = 1 .. Len(x) /\ Len(x) \in Nat  OBVIOUS
  <2>2. \A i \in 1 .. Len(x) : x[i] \in Events  BY <2>1
  <2>3. \A e \in Events : e.to \in WorkflowStatus  BY DEF Events
  <2>4. \A i \in 1 .. Len(x) : x[i].to \in WorkflowStatus  BY <2>2, <2>3
  <2> QED  BY <2>1, <2>4 DEF Entered
<1> DEFINE a == Entered(v \o w)
           b == Entered(v) \o Entered(w)
<1>2. v \o w \in Seq(Events) /\ Len(v \o w) = Len(v) + Len(w)  OBVIOUS
<1>3. a \in Seq(WorkflowStatus) /\ Len(a) = Len(v) + Len(w)  BY <1>1, <1>2
<1>4. b \in Seq(WorkflowStatus) /\ Len(b) = Len(v) + Len(w)  BY <1>1
<1>5. ASSUME NEW i \in 1 .. Len(v) + Len(w)  PROVE a[i] = b[i]
  <2>1. a[i] = (v \o w)[i].to  BY <1>1, <1>2
  <2>2. CASE i <= Len(v)
    <3>1. i \in 1 .. Len(v) /\ (v \o w)[i] = v[i]  BY <2>2
    <3>2. b[i] = Entered(v)[i]  BY <1>1, <3>1
    <3> QED  BY <1>1, <2>1, <3>1, <3>2
  <2>3. CASE ~ (i <= Len(v))
    <3>1. i - Len(v) \in 1 .. Len(w) /\ (v \o w)[i] = w[i - Len(v)]  BY <2>3
    <3>2. b[i] = Entered(w)[i - Len(v)]  BY <1>1, <2>3, <3>1
    <3> QED  BY <1>1, <2>1, <3>1, <3>2
  <2> QED  BY <2>2, <2>3
<1> HIDE DEF a, b
<1>6. a = b  BY <1>3, <1>4, <1>5, SeqEqual
<1> QED  BY <1>1, <1>6 DEF a, b

-----------------------------------------------------------------------------
(***************************************************************************)
(* The steps of NotamLifecycle, as what a commit makes of the columns, the *)
(* deliveries and the audit events.                                        *)
(***************************************************************************)
Trail(r, ev) == IF r.status = None THEN <<>> ELSE <<"received">> \o Entered(ev)

LEMMA TrailGrows ==
  ASSUME NEW ev \in Seq(Events), NEW w \in Seq(Events)
  PROVE  /\ <<"received">> \o Entered(ev \o w) = (<<"received">> \o Entered(ev)) \o Entered(w)
         /\ Len(<<"received">> \o Entered(ev)) = Len(ev) + 1
<1>1. /\ Entered(ev) \in Seq(WorkflowStatus) /\ Len(Entered(ev)) = Len(ev)
      /\ Entered(w) \in Seq(WorkflowStatus)
      /\ Entered(ev \o w) = Entered(ev) \o Entered(w)
  BY EnteredJoin
<1>2. <<"received">> \in Seq(WorkflowStatus) /\ Len(<<"received">>) = 1
  BY DEF WorkflowStatus
<1>3. <<"received">> \o (Entered(ev) \o Entered(w)) = (<<"received">> \o Entered(ev)) \o Entered(w)
  BY <1>1, <1>2, ConcatAssociative
<1>4. Len(ev) \in Nat  OBVIOUS
<1>5. Len(<<"received">> \o Entered(ev)) = Len(<<"received">>) + Len(Entered(ev))
  BY <1>1, <1>2, ConcatProperties
<1>6. Len(<<"received">> \o Entered(ev)) = Len(ev) + 1
  BY <1>1, <1>2, <1>4, <1>5
<1>7. <<"received">> \o Entered(ev \o w) = <<"received">> \o (Entered(ev) \o Entered(w))
  BY <1>1, Zenon
<1> QED  BY <1>3, <1>6, <1>7, Zenon

\* Its transitions: what the handler walked, and the status it reached.
LEMMA LifeTransition ==
  ASSUME IInv, row.status # None, row'.status # None,
         NEW path \in Seq(WorkflowStatus), LegalPath(row.status, path),
         row'.status = Reached(row.status, path),
         NEW w \in Seq(Events), Entered(w) = path, events' = events \o w
  PROVE  Life!Transition(TheRequest, path)
<1> DEFINE R == {TheRequest}
           status0 == [r \in R |-> row.status]
           status1 == [r \in R |-> row'.status]
           trail0 == [r \in R |-> IF row.status = None THEN <<>>
                        ELSE <<"received">> \o [i \in DOMAIN events |-> events[i].to]]
           trail1 == [r \in R |-> IF row'.status = None THEN <<>>
                        ELSE <<"received">> \o [i \in DOMAIN events' |-> events'[i].to]]
<1>1. status1 = [status0 EXCEPT ![TheRequest] = Reached(row.status, path)]
  OBVIOUS
<1>2. trail1 = [trail0 EXCEPT ![TheRequest] = trail0[TheRequest] \o path]
  <2>1. events \in Seq(Events)  BY DEF IInv, Committed
  <2>2. <<"received">> \o Entered(events') = (<<"received">> \o Entered(events)) \o path
    BY <2>1, TrailGrows
  <2>3. trail0 = [r \in R |-> <<"received">> \o Entered(events)]  BY DEF Entered
  <2>4. trail1 = [r \in R |-> <<"received">> \o Entered(events')]  BY DEF Entered
  <2> HIDE DEF trail0, trail1
  <2> QED  BY <2>2, <2>3, <2>4
<1>3. Life!Reached(row.status, path) = Reached(row.status, path)
      /\ (Life!LegalPath(row.status, path) <=> LegalPath(row.status, path))
  BY SameWords
<1>4. status0[TheRequest] = row.status  OBVIOUS
<1> QED  BY <1>1, <1>2, <1>3, <1>4 DEF Life!Transition

-----------------------------------------------------------------------------
(***************************************************************************)
(* What the changes of a handler make of the deliveries.                   *)
(***************************************************************************)
LEMMA OverlayNone ==
  ASSUME NEW ds \in Deliveries, NEW ch, DOMAIN ch = {}
  PROVE  Overlay(ds, ch) = ds
<1>1. DOMAIN ds = 1 .. Len(ds) /\ Len(ds) \in Nat
      /\ \A i \in DOMAIN ds : ds[i] \in [Channels -> Life!DeliveryStatus]
  BY DEF Deliveries
<1>2. {d[1] : d \in DOMAIN ch} = {} /\ \A x : x \notin DOMAIN ch  OBVIOUS
<1>3. Overlay(ds, ch) = [i \in DOMAIN ds |-> [c \in Channels |-> ds[i][c]]]
  BY <1>2 DEF Overlay
<1>4. \A i \in DOMAIN ds : [c \in Channels |-> ds[i][c]] = ds[i]  BY <1>1
<1>5. ds = [i \in DOMAIN ds |-> ds[i]]  BY <1>1 DEF Deliveries
<1> QED  BY <1>3, <1>4, <1>5

LEMMA OverlayOne ==
  ASSUME NEW ds \in Deliveries, NEW i \in DOMAIN ds, NEW c \in Channels,
         NEW ch, DOMAIN ch = {<<i, c>>}
  PROVE  Overlay(ds, ch) = [ds EXCEPT ![i] = [ds[i] EXCEPT ![c] = ch[<<i, c>>]]]
<1>1. DOMAIN ds = 1 .. Len(ds) /\ Len(ds) \in Nat
      /\ \A j \in DOMAIN ds : ds[j] \in [Channels -> Life!DeliveryStatus]
  BY DEF Deliveries
<1>2. {d[1] : d \in DOMAIN ch} = {i}  OBVIOUS
<1>3. \A j, k : <<j, k>> \in DOMAIN ch <=> j = i /\ k = c  OBVIOUS
<1>4. Overlay(ds, ch) = [j \in DOMAIN ds |-> [k \in Channels |->
                           IF j = i /\ k = c THEN ch[<<i, c>>] ELSE ds[j][k]]]
  BY <1>2, <1>3 DEF Overlay
<1>5. \A j \in DOMAIN ds :
        [k \in Channels |-> IF j = i /\ k = c THEN ch[<<i, c>>] ELSE ds[j][k]]
          = IF j = i THEN [ds[i] EXCEPT ![c] = ch[<<i, c>>]] ELSE ds[j]
  <2> SUFFICES ASSUME NEW j \in DOMAIN ds
               PROVE  [k \in Channels |-> IF j = i /\ k = c THEN ch[<<i, c>>] ELSE ds[j][k]]
                        = IF j = i THEN [ds[i] EXCEPT ![c] = ch[<<i, c>>]] ELSE ds[j]
    OBVIOUS
  <2>1. ds[j] \in [Channels -> Life!DeliveryStatus]  BY <1>1
  <2>2. CASE j = i  BY <2>1, <2>2
  <2>3. CASE j # i  BY <2>1, <2>3
  <2> QED  BY <2>2, <2>3
<1>6. ds = [j \in DOMAIN ds |-> ds[j]]  BY <1>1 DEF Deliveries
<1>7. [ds EXCEPT ![i] = [ds[i] EXCEPT ![c] = ch[<<i, c>>]]]
        = [j \in DOMAIN ds |-> IF j = i THEN [ds[i] EXCEPT ![c] = ch[<<i, c>>]] ELSE ds[j]]
  BY <1>6
<1> QED  BY <1>4, <1>5, <1>7

LEMMA OverlayBatch ==
  ASSUME NEW ds \in Deliveries, NEW ch \in Changes, DOMAIN ch = Batch(ds)
  PROVE  LET batch == [c \in Channels |-> ch[<<Len(ds) + 1, c>>]] IN
         /\ batch \in [Channels -> Life!DeliveryStatus]
         /\ Overlay(ds, ch) = Append(ds, batch)
<1> DEFINE n == Len(ds)
           batch == [c \in Channels |-> ch[<<n + 1, c>>]]
           o == Overlay(ds, ch)
           a == Append(ds, batch)
<1>1. /\ n \in Nat /\ DOMAIN ds = 1 .. n
      /\ \A i \in 1 .. n : ds[i] \in [Channels -> Life!DeliveryStatus]
  BY DEF Deliveries
<1>2. \A d \in DOMAIN ch : ch[d] \in Life!DeliveryStatus  BY DEF Changes
<1>3. \A c \in Channels : <<n + 1, c>> \in DOMAIN ch  BY DEF Batch
<1>4. batch \in [Channels -> Life!DeliveryStatus]  BY <1>2, <1>3
<1>5. {d[1] : d \in DOMAIN ch} = {n + 1}
  <2>1. \A d \in DOMAIN ch : d[1] = n + 1  BY DEF Batch
  <2>2. PICK c \in Channels : TRUE  BY ChannelsAssumption
  <2>3. <<n + 1, c>> \in DOMAIN ch /\ <<n + 1, c>>[1] = n + 1  BY <1>3
  <2> QED  BY <2>1, <2>3
<1>6. DOMAIN ds \cup {d[1] : d \in DOMAIN ch} = 1 .. n + 1
  <2>1. \A m \in Nat : 1 .. m + 1 = (1 .. m) \cup {m + 1}  OBVIOUS
  <2> HIDE DEF n
  <2> QED  BY <1>1, <1>5, <2>1
<1>7. o = [i \in 1 .. n + 1 |-> [c \in Channels |->
            IF <<i, c>> \in DOMAIN ch THEN ch[<<i, c>>] ELSE ds[i][c]]]
  BY <1>6 DEF Overlay
<1>8. ASSUME NEW i \in 1 .. n  PROVE o[i] = ds[i]
  <2>1. \A c \in Channels : <<i, c>> \notin DOMAIN ch  BY <1>1 DEF Batch
  <2>2. i \in 1 .. n + 1  BY <1>1
  <2> HIDE DEF o
  <2>3. o[i] = [c \in Channels |-> ds[i][c]]  BY <1>7, <2>1, <2>2
  <2> QED  BY <1>1, <2>3
<1>9. o[n + 1] = batch
  <2>1. n + 1 \in 1 .. n + 1  BY <1>1
  <2> HIDE DEF o
  <2> QED  BY <1>3, <1>7, <2>1
<1>10. ds \in Seq([Channels -> Life!DeliveryStatus])  BY DEF Deliveries
<1> HIDE DEF o, batch
<1>11. /\ a \in Seq([Channels -> Life!DeliveryStatus]) /\ Len(a) = n + 1
       /\ \A i \in 1 .. n : a[i] = ds[i]
       /\ a[n + 1] = batch
  BY <1>4, <1>10
<1>12. ASSUME NEW i \in 1 .. n + 1  PROVE o[i] = a[i]
  <2>1. i \in 1 .. n \/ i = n + 1  BY <1>1
  <2> QED  BY <1>8, <1>9, <1>11, <2>1
<1>13. o = [i \in 1 .. n + 1 |-> o[i]]  BY <1>7
<1>14. a = [i \in 1 .. n + 1 |-> a[i]]
  <2>1. \A x \in Seq([Channels -> Life!DeliveryStatus]) : x = [i \in 1 .. Len(x) |-> x[i]]
    OBVIOUS
  <2> HIDE DEF a, n
  <2> QED  BY <1>11, <2>1
<1>15. o = a  BY <1>12, <1>13, <1>14
<1> QED  BY <1>4, <1>15 DEF o, batch

LEMMA OverlayAll ==
  ASSUME NEW ds \in Deliveries, NEW ch, DOMAIN ch = Unsettled(ds),
         \A d \in Unsettled(ds) : ch[d] = "acknowledged"
  PROVE  Overlay(ds, ch) = [i \in DOMAIN ds |-> [c \in Channels |-> "acknowledged"]]
<1>1. \A i \in DOMAIN ds : ds[i] \in [Channels -> Life!DeliveryStatus]
  BY DEF Deliveries
<1>2. \A d \in DOMAIN ch : d[1] \in DOMAIN ds  BY DEF Unsettled, Stored
<1>3. DOMAIN ds \cup {d[1] : d \in DOMAIN ch} = DOMAIN ds  BY <1>2
<1>4. ASSUME NEW i \in DOMAIN ds, NEW c \in Channels
      PROVE  (IF <<i, c>> \in DOMAIN ch THEN ch[<<i, c>>] ELSE ds[i][c]) = "acknowledged"
  <2>1. CASE <<i, c>> \in DOMAIN ch  BY <2>1
  <2>2. CASE <<i, c>> \notin DOMAIN ch
    <3>1. <<i, c>> \in Stored(ds)  BY DEF Stored
    <3>2. ds[i][c] \notin {"sent", "failed"}  BY <2>2, <3>1 DEF Unsettled
    <3>3. ds[i][c] \in {"sent", "acknowledged", "failed"}  BY <1>1 DEF Life!DeliveryStatus
    <3> QED  BY <2>2, <3>2, <3>3
  <2> QED  BY <2>1, <2>2
<1>5. Overlay(ds, ch) = [i \in DOMAIN ds |-> [c \in Channels |->
         IF <<i, c>> \in DOMAIN ch THEN ch[<<i, c>>] ELSE ds[i][c]]]
  BY <1>3 DEF Overlay
<1> QED  BY <1>4, <1>5

-----------------------------------------------------------------------------
(***************************************************************************)
(* The commit of a handler that was alone.                                 *)
(***************************************************************************)
Lands(h) ==
  /\ h \in Handlers /\ row \in Columns /\ deliveries \in Deliveries
  /\ row.status \in WorkflowStatus /\ h.now.status \in WorkflowStatus
  /\ row' = h.now
  /\ deliveries' = Overlay(deliveries, h.changed)
  /\ events' = events \o h.walked
  /\ savers' = savers \cup ({h.saver} \ {None})

LEMMA CommitLands ==
  ASSUME IInv, NEW s \in Sessions, Commit(s), session[s].read = row
  PROVE  Lands(session[s]) /\ session[s].next = "commit"
<1> DEFINE h == session[s]
<1>1. /\ h \in Handlers /\ Founded(h, row) /\ h.next = "commit"
      /\ deliveries \in Deliveries /\ row \in Columns
  BY AtFacts DEF Commit
<1>2. /\ row' = [c \in DOMAIN row |-> IF c \in Written(h) THEN h.now[c] ELSE row[c]]
      /\ deliveries' = Overlaid(h.changed)
      /\ events' = events \o h.walked
      /\ savers' = savers \cup ({h.saver} \ {None})
  BY Zenon DEF Commit
<1>3. row.status \in WorkflowStatus /\ h.now.status \in WorkflowStatus /\ h.now \in Columns
  BY <1>1 DEF Founded, Columns, Handlers
<1>4. h.read = row  OBVIOUS
<1> HIDE DEF h
<1>5. \A c \in DOMAIN row : (IF c \in Written(h) THEN h.now[c] ELSE row[c]) = h.now[c]
  BY <1>4 DEF Written
<1>6. row' = [c \in DOMAIN row |-> h.now[c]]  BY <1>2, <1>5
<1>7. h.now = [c \in DOMAIN row |-> h.now[c]]  BY <1>1, <1>3 DEF Columns
<1>8. row' = h.now  BY <1>6, <1>7
<1>9. Overlaid(h.changed) = Overlay(deliveries, h.changed)  BY DEF Overlaid, Overlay
<1> QED  BY <1>1, <1>2, <1>3, <1>8, <1>9 DEF Lands, h

\* The columns of NotamLifecycle, of which a NOTAM's content is one here.
LEMMA LifeColumns ==
  /\ Life!HasNotam(TheRequest) <=> row.text # None
  /\ Life!HasNotam(TheRequest)' <=> row'.text # None
BY DEF Life!HasNotam, NotamOf

\* A signature, and a stamp of publication, change that alone of a NOTAM.
Draft(yes, text, printed, preparer, approver, published) ==
  [exists |-> yes, kind |-> "NOTAMN", id |-> Number(1), replaces |-> None,
   body |-> text, printed |-> Number(printed), printedRef |-> None, valid |-> yes,
   preparedBy |-> preparer, approvedBy |-> approver, published |-> published]

LEMMA Stamping ==
  ASSUME NEW c, NEW d, c.text # None,
         d.text = c.text, d.printed = c.printed, d.preparer = c.preparer
  PROVE  /\ d.published = c.published => NotamOf(d) = [NotamOf(c) EXCEPT !.approvedBy = d.approver]
         /\ d.approver = c.approver => NotamOf(d) = [NotamOf(c) EXCEPT !.published = d.published]
         /\ NotamOf(c).exists /\ NotamOf(c).body = c.text /\ NotamOf(c).published = c.published
<1> DEFINE yes == TRUE
<1>1. /\ NotamOf(c) = Draft(yes, c.text, c.printed, c.preparer, c.approver, c.published)
      /\ NotamOf(d) = Draft(yes, c.text, c.printed, c.preparer, d.approver, d.published)
  BY DEF NotamOf, Draft
<1>2. yes  OBVIOUS
<1> HIDE DEF yes
<1>3. ASSUME d.published = c.published
      PROVE  NotamOf(d) = [NotamOf(c) EXCEPT !.approvedBy = d.approver]
  <2>1. [Draft(yes, c.text, c.printed, c.preparer, c.approver, c.published)
           EXCEPT !.approvedBy = d.approver]
          = Draft(yes, c.text, c.printed, c.preparer, d.approver, c.published)
    BY DEF Draft
  <2> QED  BY <1>1, <1>3, <2>1
<1>4. ASSUME d.approver = c.approver
      PROVE  NotamOf(d) = [NotamOf(c) EXCEPT !.published = d.published]
  <2>1. [Draft(yes, c.text, c.printed, c.preparer, c.approver, c.published)
           EXCEPT !.published = d.published]
          = Draft(yes, c.text, c.printed, c.preparer, c.approver, d.published)
    BY DEF Draft
  <2> QED  BY <1>1, <1>4, <2>1
<1>5. NotamOf(c).exists = yes /\ NotamOf(c).body = c.text /\ NotamOf(c).published = c.published
  BY <1>1 DEF Draft
<1> QED  BY <1>2, <1>3, <1>4, <1>5

LEMMA LandsTransition ==
  ASSUME IInv, NEW h, Lands(h), NEW path, Went(h, row, path)
  PROVE  Life!Transition(TheRequest, path) /\ path \in Seq(WorkflowStatus)
<1>1. h.walked \in Seq(Events) /\ Entered(h.walked) = path  BY DEF Lands, Handlers, Went
<1>2. path \in Seq(WorkflowStatus)  BY <1>1, EnteredJoin
<1>3. row.status # None /\ row'.status # None /\ row'.status = Reached(row.status, path)
  BY NoneAssumption DEF Lands, Went
<1> QED  BY <1>1, <1>2, <1>3, LifeTransition DEF Lands, Went

\* A handler that sends nothing leaves the deliveries, and the preparers too
\* unless it is a save.
LEMMA LandsUnsent ==
  ASSUME NEW h, Lands(h), DOMAIN h.changed = {}
  PROVE  deliveries' = deliveries
BY OverlayNone DEF Lands

LEMMA LandsSaved ==
  ASSUME NEW h, Lands(h), SameText(h, row)
  PROVE  savers' = savers
BY DEF Lands, SameText

LEMMA SubmitIsLife ==
  ASSUME IInv, NEW h, Lands(h), Staffed, Submits(h, row)
  PROVE  Life!Next
<1>1. PICK u \in Users : Life!May(u, AISOperations)  BY DEF Staffed
<1>2. /\ row.text # None /\ Went(h, row, <<"review">>) /\ SameStamps(h, row)
      /\ DOMAIN h.changed = {}
  BY DEF Submits, NothingSent
<1>3. Life!Transition(TheRequest, <<"review">>)  BY <1>2, LandsTransition
<1>4. NotamOf(row') = NotamOf(row)
  BY <1>2 DEF Lands, SameStamps, SameSignature, SameText, NotamOf
<1>5. deliveries' = deliveries /\ savers' = savers
  BY <1>2, LandsUnsent, LandsSaved DEF SameStamps, SameSignature
<1>6. Life!HasNotam(TheRequest)  BY <1>2, LifeColumns
<1>7. Life!May(u, Life!AISOperations)  BY <1>1, SameWords
<1>8. Life!Submit(TheRequest, u)
  BY <1>2, <1>3, <1>4, <1>5, <1>6, <1>7 DEF Life!Submit, NotamOf
<1> QED  BY <1>8 DEF Life!Next, Life!Preparation

\* The bound on the trail of NotamLifecycle is never what stops a handler.
LEMMA TrailFits ==
  ASSUME IInv, row.status # None, Len(events) + 2 <= 2 * started
  PROVE  Len([r \in {TheRequest} |-> IF row.status = None THEN <<>>
                ELSE <<"received">> \o [i \in DOMAIN events |-> events[i].to]][TheRequest])
           < 2 * MaxHandlers
<1> DEFINE trail == <<"received">> \o [i \in DOMAIN events |-> events[i].to]
<1>1. events \in Seq(Events) /\ started \in 0 .. MaxHandlers  BY DEF IInv, Committed
<1>2. Len(trail) = Len(events) + 1  BY <1>1, TrailGrows DEF Entered
<1>3. Len(events) \in Nat /\ started \in Nat /\ started <= MaxHandlers
  BY <1>1, SessionsAssumption
<1> HIDE DEF trail
<1>4. Len(trail) < 2 * MaxHandlers  BY <1>2, <1>3, SessionsAssumption
<1>5. [r \in {TheRequest} |-> IF row.status = None THEN <<>> ELSE trail][TheRequest] = trail
  OBVIOUS
<1> QED  BY <1>4, <1>5 DEF trail

LEMMA ReturnIsLife ==
  ASSUME IInv, NEW h, Lands(h), Len(events) + 2 <= 2 * started, Returns(h, row)
  PROVE  Life!Next
<1>1. PICK u \in Users : Life!May(u, Reviewers)  BY DEF Returns
<1>2. /\ Went(h, row, <<"changes_requested">>) /\ SameStamps(h, row)
      /\ DOMAIN h.changed = {}
  BY DEF Returns, NothingSent
<1>3. Life!Transition(TheRequest, <<"changes_requested">>)  BY <1>2, LandsTransition
<1>4. NotamOf(row') = NotamOf(row)
  BY <1>2 DEF Lands, SameStamps, SameSignature, SameText, NotamOf
<1>5. deliveries' = deliveries /\ savers' = savers
  BY <1>2, LandsUnsent, LandsSaved DEF SameStamps, SameSignature
<1>6. Life!May(u, Life!Reviewers)  BY <1>1, SameWords
<1>7. row.status # None  BY NoneAssumption DEF Lands
<1>8. Life!RequestChanges(TheRequest, u)
  BY <1>3, <1>4, <1>5, <1>6, <1>7, TrailFits DEF Life!RequestChanges
<1> QED  BY <1>8 DEF Life!Next, Life!Review

LEMMA ApproveIsLife ==
  ASSUME IInv, NEW h, Lands(h), Approves(h, row)
  PROVE  Life!Next
<1>1. PICK u \in Users :
        /\ Life!May(u, Reviewers) /\ row.text # None /\ row.preparer # u
        /\ Went(h, row, <<"approved">>) /\ SameText(h, row)
        /\ h.now.approver = u /\ h.now.published = row.published
        /\ NothingSent(h)
  BY DEF Approves
<1>2. Life!Transition(TheRequest, <<"approved">>)  BY <1>1, LandsTransition
<1>3. NotamOf(row') = [NotamOf(row) EXCEPT !.approvedBy = u]
  BY <1>1, Stamping DEF Lands, SameText
<1>4. deliveries' = deliveries /\ savers' = savers
  BY <1>1, LandsUnsent, LandsSaved DEF NothingSent
<1>5. Life!HasNotam(TheRequest)  BY <1>1, LifeColumns
<1>6. Life!May(u, Life!Reviewers)  BY <1>1, SameWords
<1>7. NotamOf(row).preparedBy # u  BY <1>1 DEF NotamOf
<1>8. Life!Approve(TheRequest, u)
  <2>1. [r \in {TheRequest} |-> NotamOf(row')] =
          [[r \in {TheRequest} |-> NotamOf(row)] EXCEPT ![TheRequest] =
             [[r \in {TheRequest} |-> NotamOf(row)][TheRequest] EXCEPT !.approvedBy = u]]
    BY <1>3
  <2> QED  BY <1>2, <1>4, <1>5, <1>6, <1>7, <2>1 DEF Life!Approve
<1> QED  BY <1>8 DEF Life!Next, Life!Review

\* Of the one request, a first save takes number 1 and a later one prints 2.
LEMMA NextSerials ==
  /\ Life!Cardinality({TheRequest}) = 1
  /\ row.text = None => Life!IsNextSerial("A", 1)
  /\ row.text # None => Life!IsNextSerial("A", 2)
<1>1. Life!Cardinality({TheRequest}) = 1
  <2>1. Cardinality({TheRequest}) = 1  BY FS_Singleton
  <2> QED  BY <2>1 DEF Life!Cardinality, Cardinality
<1> DEFINE serials == Life!Serials("A")
<1>2. ASSUME row.text = None  PROVE Life!IsNextSerial("A", 1)
  <2>1. ~ Life!HasNotam(TheRequest)  BY <1>2, LifeColumns
  <2>2. serials = {}  BY <2>1 DEF Life!Serials
  <2> QED  BY <2>2 DEF Life!IsNextSerial
<1>3. ASSUME row.text # None  PROVE Life!IsNextSerial("A", 2)
  <2>1. Life!HasNotam(TheRequest)  BY <1>3, LifeColumns
  <2>2. NotamOf(row).id = [series |-> "A", serial |-> 1, year |-> 0]
    BY <1>3 DEF NotamOf, Number
  <2>3. serials = {1}  BY <2>1, <2>2 DEF Life!Serials
  <2> HIDE DEF serials
  <2>4. /\ \A m \in serials : m < 2
        /\ 2 - 1 \in serials
    BY <2>3
  <2> QED  BY <2>4 DEF Life!IsNextSerial, serials
<1> QED  BY <1>1, <1>2, <1>3

\* A first save, and a later one, which leaves the signature and the stamp.
LEMMA SaveIsLife ==
  ASSUME IInv, NEW h, Lands(h), Stamped(row) => row.text # None, Saves(h, row)
  PROVE  Life!Next
<1> DEFINE n == IF row.text # None THEN 2 ELSE 1
           text == h.now.text
           had == Life!HasNotam(TheRequest)
           status == [r \in {TheRequest} |-> row.status]
           notam == [r \in {TheRequest} |-> NotamOf(row)]
           prepared == [r \in {TheRequest} |-> savers]
<1>1. PICK u \in Users :
        /\ RoleOf[u] \in AISOperations
        /\ row.status \in Life!Draftable
        /\ Went(h, row, DraftPath(row.status))
        /\ text \in Texts /\ h.now.preparer = u
        /\ h.now.printed = n
        /\ h.now.approver = row.approver /\ h.now.published = row.published
        /\ h.saver = u
        /\ NothingSent(h)
  BY DEF Saves
<1>2. Life!Transition(TheRequest, Life!DraftPath(status[TheRequest]))
  <2>1. \E path : path = DraftPath(row.status)  OBVIOUS
  <2>2. PICK path : path = DraftPath(row.status)  BY <2>1
  <2>3. Life!Transition(TheRequest, path)  BY <1>1, <2>2, LandsTransition
  <2>4. Life!DraftPath(status[TheRequest]) = path  BY <2>2, SameWords
  <2> QED  BY <2>3, <2>4 DEF Life!Transition
<1>3. Life!IsNextSerial("A", n) /\ Life!NumberIsFree(TheRequest, Number(1))
      /\ Life!ValidReference("NOTAMN", None)
  BY NextSerials DEF Life!NumberIsFree, Life!ValidReference
<1>4. deliveries' = deliveries /\ savers' = savers \cup {u}
  <2>1. u # None  BY NoneAssumption
  <2> QED  BY <1>1, <2>1, LandsUnsent DEF NothingSent, Lands
<1>5. had <=> row.text # None  BY LifeColumns
<1>6. /\ had => notam[TheRequest].id = Number(1)
      /\ had => notam[TheRequest].approvedBy = row.approver
      /\ had => (notam[TheRequest].published <=> row.published)
  BY <1>5 DEF NotamOf
<1>7. ~ had => row.approver = None /\ row.published = FALSE
  BY <1>5 DEF Stamped, Lands, Columns
<1>8. NotamOf(row') =
        [exists |-> TRUE, kind |-> "NOTAMN", id |-> Number(1), replaces |-> None,
         body |-> text, printed |-> Number(n), printedRef |-> None, valid |-> TRUE,
         preparedBy |-> u, approvedBy |-> row.approver, published |-> row.published]
  <2>1. text # None  BY <1>1, NoneAssumption
  <2> QED  BY <1>1, <2>1 DEF Lands, NotamOf
<1> DEFINE fresh == [series |-> "A", serial |-> n, year |-> 0]
           id == IF had THEN [notam[TheRequest].id EXCEPT !.series = "A"] ELSE fresh
           approver == IF had THEN notam[TheRequest].approvedBy ELSE None
           published == had /\ notam[TheRequest].published
<1>9. fresh = Number(n) /\ id = Number(1)
  <2>1. [Number(1) EXCEPT !.series = "A"] = Number(1)  BY DEF Number
  <2>2. ~ had => n = 1  BY <1>5
  <2>3. fresh = Number(n)  BY DEF Number
  <2> HIDE DEF had, notam, fresh, n
  <2> QED  BY <1>6, <2>1, <2>2, <2>3
<1>10. approver = row.approver  BY <1>6, <1>7
<1>11. published = row.published
  <2>1. row.published \in BOOLEAN  BY DEF Lands, Columns
  <2> QED  BY <1>6, <1>7, <2>1
<1>12. [r \in {TheRequest} |-> NotamOf(row')] =
         [notam EXCEPT ![TheRequest] =
           [exists |-> TRUE, kind |-> "NOTAMN", id |-> id, replaces |-> None,
            body |-> text, printed |-> fresh,
            printedRef |-> IF None = None THEN None ELSE notam[None].id, valid |-> TRUE,
            preparedBy |-> u, approvedBy |-> approver, published |-> published]]
  <2> HIDE DEF id, fresh, approver, published, text
  <2> QED  BY <1>8, <1>9, <1>10, <1>11
<1>13. RoleOf[u] \in Life!AISOperations  BY <1>1, SameWords
<1>14. Life!SaveDraft(TheRequest, u, "NOTAMN", "A", n, None, text)
  <2>1. status[TheRequest] \in Life!Draftable  BY <1>1
  <2>2. [r \in {TheRequest} |-> savers'] =
          [prepared EXCEPT ![TheRequest] = prepared[TheRequest] \cup {u}]
    BY <1>4
  <2>3. [r \in {TheRequest} |-> deliveries'] = [r \in {TheRequest} |-> deliveries]  BY <1>4
  <2>4. Life!NumberIsFree(TheRequest, id)  BY <1>3, <1>9
  <2> HIDE DEF n, text
  <2> QED  BY <1>2, <1>3, <1>12, <1>13, <2>1, <2>2, <2>3, <2>4, Zenon DEF Life!SaveDraft
<1>15. n \in 1 .. Life!Cardinality({TheRequest}) + 1  BY NextSerials
<1>16. Life!Preparation(TheRequest, u)
  <2>1. "NOTAMN" \in Life!NotamKind  BY DEF Life!NotamKind
  <2> HIDE DEF n, text
  <2> QED  BY <1>1, <1>14, <1>15, <2>1 DEF Life!Preparation
<1> QED  BY <1>16 DEF Life!Next

-----------------------------------------------------------------------------
\* What a channel can answer, and where the deliveries lead the status.
LEMMA EndsAreOutcomes ==
  ASSUME row.text # None, NEW c
  PROVE  Life!Outcomes(TheRequest, c) = Ends(row, c)
BY DEF Life!Outcomes, Ends, NotamOf

LEMMA ReconcilePaths ==
  ASSUME NEW ds
  PROVE  Life!Reconcile(ds) \in {<<>>, <<"approved">>, <<"published">>}
BY DEF Life!Reconcile

LEMMA SettledPaths ==
  ASSUME NEW before \in {<<>>, <<"publishing">>},
         NEW settled \in {<<>>, <<"approved">>, <<"published">>}
  PROVE  /\ before \o settled \in Seq(WorkflowStatus)
         /\ <<>> \o settled = settled /\ before \o <<>> = before
         /\ \A st : st # "published" =>
              (Reached(st, before \o settled) = "published" <=> settled = <<"published">>)
<1>1. <<>> \in Seq(WorkflowStatus) /\ <<"publishing">> \in Seq(WorkflowStatus)
      /\ <<"approved">> \in Seq(WorkflowStatus) /\ <<"published">> \in Seq(WorkflowStatus)
  BY DEF WorkflowStatus
<1>2. before \in Seq(WorkflowStatus) /\ settled \in Seq(WorkflowStatus)  BY <1>1
<1>3. <<>> \o settled = settled /\ before \o <<>> = before  BY <1>2
<1>4. ASSUME settled # <<>>
      PROVE  before \o settled # <<>> /\ (before \o settled)[Len(before \o settled)] = settled[1]
  <2>1. Len(settled) = 1  BY <1>4
  <2>2. Len(before) \in Nat  BY <1>2
  <2>3. Len(before \o settled) = Len(before) + 1  BY <1>2, <2>1, ConcatProperties
  <2>4. (before \o settled)[Len(before) + 1] = settled[1]
    <3>1. Len(before) + 1 \in 1 .. Len(before) + Len(settled)  BY <2>1, <2>2
    <3>2. (before \o settled)[Len(before) + 1] = settled[Len(before) + 1 - Len(before)]
      BY <1>2, <2>2, <3>1, ConcatProperties
    <3>3. Len(before) + 1 - Len(before) = 1  BY <2>2
    <3> QED  BY <3>2, <3>3
  <2>5. before \o settled # <<>>
    <3>1. before \o settled \in Seq(WorkflowStatus)  BY <1>2
    <3> QED  BY <2>2, <2>3, <3>1
  <2> QED  BY <2>3, <2>4, <2>5
<1>5. ASSUME NEW st, st # "published"
      PROVE  Reached(st, before \o settled) = "published" <=> settled = <<"published">>
  <2>1. CASE settled = <<>>
    <3>1. Reached(st, before) # "published"  BY <1>5 DEF Reached
    <3> QED  BY <1>3, <2>1, <3>1
  <2>2. CASE settled # <<>>
    <3>1. Reached(st, before \o settled) = settled[1]  BY <1>4, <2>2 DEF Reached
    <3> QED  BY <2>2, <3>1
  <2> QED  BY <2>1, <2>2
<1> QED  BY <1>2, <1>3, <1>5

LEMMA SettleIsLife ==
  ASSUME IInv, NEW h, Lands(h), row.text # None,
         NEW before \in {<<>>, <<"publishing">>},
         NEW settled \in {<<>>, <<"approved">>, <<"published">>},
         Settles(h, row, before, settled), NEW ds, deliveries' = ds
  PROVE  Life!Settle(TheRequest, ds, before \o settled)
<1> DEFINE path == before \o settled
           notam == [r \in {TheRequest} |-> NotamOf(row)]
           stamp == notam[TheRequest].published \/ Life!Reached(None, path) = "published"
<1>1. /\ Went(h, row, path) /\ SameSignature(h, row)
      /\ h.now.published = (row.published \/ settled = <<"published">>)
  BY DEF Settles
<1>2. Life!Transition(TheRequest, path)  BY <1>1, LandsTransition
<1>3. NotamOf(row') = [NotamOf(row) EXCEPT !.published = row'.published]
      /\ NotamOf(row).published = row.published
  BY <1>1, Stamping DEF Lands, SameSignature, SameText
<1>4. Life!Reached(None, path) = "published" <=> settled = <<"published">>
  <2>1. None # "published"  BY NoneAssumption DEF WorkflowStatus
  <2> QED  BY <2>1, SettledPaths, SameWords
<1>5. row'.published = stamp
  BY <1>1, <1>3, <1>4 DEF Lands
<1>6. [r \in {TheRequest} |-> NotamOf(row')] =
        [notam EXCEPT ![TheRequest] = [notam[TheRequest] EXCEPT !.published = stamp]]
  <2> HIDE DEF stamp
  <2> QED  BY <1>3, <1>5
<1>7. savers' = savers  BY <1>1, LandsSaved DEF SameSignature
<1>8. [r \in {TheRequest} |-> deliveries'] =
        [[r \in {TheRequest} |-> deliveries] EXCEPT ![TheRequest] = ds]
  OBVIOUS
<1>9. [r \in {TheRequest} |-> savers'] = [r \in {TheRequest} |-> savers]  BY <1>7
<1> HIDE DEF path
<1> QED  BY <1>2, <1>6, <1>8, <1>9, Zenon DEF Life!Settle, path

LEMMA PublishIsLife ==
  ASSUME IInv, NEW h, Lands(h), h.next = "commit", Staffed, Len(events) + 2 <= 2 * started,
         Publishes(h, row, deliveries)
  PROVE  Life!Next
<1> DEFINE changed == Overlay(deliveries, h.changed)
           sent == [c \in Channels |-> h.changed[<<Len(deliveries) + 1, c>>]]
           stored == [r \in {TheRequest} |-> deliveries]
<1>1. PICK u \in Users : Life!May(u, AISOperations)  BY DEF Staffed
<1>2. /\ row.text # None
      /\ Batched(h, row, deliveries)
      /\ Settles(h, row, <<"publishing">>, Life!Reconcile(changed))
  BY DEF Publishes
<1>3. h.changed \in Changes /\ deliveries \in Deliveries  BY DEF Lands, Handlers
<1>4. sent \in [Channels -> Life!DeliveryStatus] /\ changed = Append(deliveries, sent)
  BY <1>2, <1>3, OverlayBatch DEF Batched
<1>5. \A c \in Channels : sent[c] \in Life!Outcomes(TheRequest, c)
  BY <1>2, EndsAreOutcomes DEF Batched
<1> HIDE DEF changed, sent
<1>6. PICK batch \in [Channels -> Life!DeliveryStatus] :
        /\ changed = Append(deliveries, batch)
        /\ \A c \in Channels : batch[c] \in Life!Outcomes(TheRequest, c)
  BY <1>4, <1>5
<1>7. \E ds : ds = changed  OBVIOUS
<1>8. PICK ds : ds = changed  BY <1>7
<1>9. Life!Settle(TheRequest, ds, <<"publishing">> \o Life!Reconcile(ds))
  <2> DEFINE settled == Life!Reconcile(ds)
  <2>1. settled \in {<<>>, <<"approved">>, <<"published">>}  BY ReconcilePaths
  <2>2. Settles(h, row, <<"publishing">>, settled) /\ deliveries' = ds
    BY <1>2, <1>8 DEF Lands, changed
  <2> HIDE DEF settled
  <2>3. Life!Settle(TheRequest, ds, <<"publishing">> \o settled)
    BY <1>2, <2>1, <2>2, SettleIsLife
  <2> QED  BY <2>3 DEF settled
<1>10. ds = Append(stored[TheRequest], batch)  BY <1>6, <1>8
<1>11. Life!Settle(TheRequest, Append(stored[TheRequest], batch),
                   <<"publishing">> \o Life!Reconcile(Append(stored[TheRequest], batch)))
  BY <1>9, <1>10 DEF Life!Settle, Life!Transition
<1>12. Life!May(u, Life!AISOperations) /\ Life!HasNotam(TheRequest)
  BY <1>1, <1>2, LifeColumns, SameWords
<1>13. row.status # None  BY NoneAssumption DEF Lands
<1>14. Life!Publish(TheRequest, u, batch)
  BY <1>6, <1>11, <1>12, <1>13, TrailFits, Zenon DEF Life!Publish
<1> QED  BY <1>14 DEF Life!Next, Life!Publication

LEMMA RedeliverIsLife ==
  ASSUME IInv, NEW h, Lands(h), h.next = "commit", Staffed, row.text # None,
         Redelivers(h, row, deliveries)
  PROVE  Life!Next
<1> DEFINE changed == Overlay(deliveries, h.changed)
           stored == [r \in {TheRequest} |-> deliveries]
           status == [r \in {TheRequest} |-> row.status]
           Settled(ds) == IF row.status = "publishing" THEN Life!Reconcile(ds) ELSE <<>>
<1>1. PICK u \in Users : Life!May(u, AISOperations)  BY DEF Staffed
<1>2. PICK d \in Stored(deliveries) :
        Redelivered(h, row, d) /\ Settles(h, row, <<>>, Settled(changed))
  BY DEF Redelivers
<1>3. PICK i \in DOMAIN deliveries, c \in Channels : d = <<i, c>>  BY DEF Stored
<1>4. PICK st : st = h.changed[d]
  <2>1. \E st : st = h.changed[d]  OBVIOUS
  <2> QED  BY <2>1
<1>5. st \in Ends(row, c) \cup {"acknowledged"}  BY <1>2, <1>3, <1>4 DEF Redelivered
<1>6. changed = [deliveries EXCEPT ![i] = [deliveries[i] EXCEPT ![c] = st]]
  <2>1. DOMAIN h.changed = {<<i, c>>} /\ st = h.changed[<<i, c>>]
    BY <1>2, <1>3, <1>4 DEF Redelivered
  <2>2. deliveries \in Deliveries  BY DEF Lands
  <2>3. ASSUME NEW ch, DOMAIN ch = {<<i, c>>}
        PROVE  Overlay(deliveries, ch) =
                 [deliveries EXCEPT ![i] = [deliveries[i] EXCEPT ![c] = ch[<<i, c>>]]]
    BY <2>2, <2>3, OverlayOne
  <2> QED  BY <2>1, <2>3
<1> HIDE DEF changed
<1>7. PICK ds : ds = changed
  <2>1. \E ds : ds = changed  OBVIOUS
  <2> QED  BY <2>1
<1>8. Settles(h, row, <<>>, Settled(ds)) /\ deliveries' = ds  BY <1>2, <1>7 DEF Lands, changed
<1>9. PICK settled \in {<<>>, <<"approved">>, <<"published">>} : settled = Settled(ds)
  BY ReconcilePaths
<1>10. Life!Settle(TheRequest, ds, settled)
  <2>1. Life!Settle(TheRequest, ds, <<>> \o settled)  BY <1>8, <1>9, SettleIsLife
  <2>2. <<>> \o settled = settled  BY SettledPaths
  <2> QED  BY <2>1, <2>2
<1>11. /\ ds = [stored[TheRequest] EXCEPT ![i][c] = st]
       /\ settled = IF status[TheRequest] = "publishing"
                    THEN Life!Reconcile([stored[TheRequest] EXCEPT ![i][c] = st]) ELSE <<>>
  BY <1>6, <1>7, <1>9
<1>12. Life!Redeliver(TheRequest, i, c, st)
  BY <1>10, <1>11 DEF Life!Redeliver, Life!Settle, Life!Transition
<1>13. Life!May(u, Life!AISOperations)  BY <1>1, SameWords
<1>14. i \in DOMAIN stored[TheRequest]  OBVIOUS
<1>15. CASE st = "acknowledged"
  <2>1. Life!AcknowledgeDelivery(TheRequest, u, i, c)
    BY <1>12, <1>13, <1>15 DEF Life!AcknowledgeDelivery
  <2> QED  BY <1>14, <2>1 DEF Life!Next, Life!Publication
<1>16. CASE st # "acknowledged"
  <2>1. st \in Life!Outcomes(TheRequest, c)  BY <1>5, <1>16, EndsAreOutcomes
  <2>2. Life!RetryDelivery(TheRequest, u, i, c, st)
    BY <1>12, <1>13, <2>1 DEF Life!RetryDelivery
  <2>3. st \in Life!DeliveryStatus  BY <1>5 DEF Ends, Life!DeliveryStatus
  <2> QED  BY <1>14, <2>2, <2>3 DEF Life!Next, Life!Publication
<1> QED  BY <1>15, <1>16

LEMMA CompleteIsLife ==
  ASSUME IInv, NEW h, Lands(h), h.next = "commit", Staffed, Completes(h, row, deliveries)
  PROVE  Life!Next
<1> DEFINE stored == [r \in {TheRequest} |-> deliveries]
           status == [r \in {TheRequest} |-> row.status]
           notam == [r \in {TheRequest} |-> NotamOf(row)]
           done == [i \in DOMAIN deliveries |-> [c \in Channels |-> "acknowledged"]]
           path == CASE status[TheRequest] = "approved"   -> <<"publishing", "published">>
                     [] status[TheRequest] = "publishing" -> <<"published">>
                     [] OTHER                             -> <<>>
           yes == TRUE
<1>1. PICK u \in Users : Life!May(u, AISOperations)  BY DEF Staffed
<1>2. /\ row.text # None
      /\ row.status \in {"publishing", "approved", "published"}
      /\ Went(h, row, OverridePath(row.status)) /\ SameSignature(h, row)
      /\ h.now.published = yes
      /\ DOMAIN h.changed = Unsettled(deliveries)
      /\ \A d \in Unsettled(deliveries) : h.changed[d] = "acknowledged"
  BY DEF Completes
<1>3. yes = TRUE  OBVIOUS
<1>4. deliveries' = done  BY <1>2, OverlayAll DEF Lands
<1> HIDE DEF yes
<1>5. PICK walk : walk = OverridePath(row.status)
  <2>1. \E walk : walk = OverridePath(row.status)  OBVIOUS
  <2> QED  BY <2>1
<1>6. Life!Transition(TheRequest, walk)  BY <1>2, <1>5, LandsTransition
<1>7. walk = path  BY <1>5 DEF OverridePath
<1> HIDE DEF path
<1>8. Life!Transition(TheRequest, path)  BY <1>6, <1>7 DEF Life!Transition, path
<1>9. NotamOf(row') = [NotamOf(row) EXCEPT !.published = yes]
  BY <1>2, Stamping DEF Lands, SameSignature, SameText
<1>10. [r \in {TheRequest} |-> NotamOf(row')] =
         [notam EXCEPT ![TheRequest] = [notam[TheRequest] EXCEPT !.published = yes]]
  BY <1>9
<1>11. [r \in {TheRequest} |-> savers'] = [r \in {TheRequest} |-> savers]
  BY <1>2, LandsSaved DEF SameSignature
<1>12. [r \in {TheRequest} |-> deliveries'] = [stored EXCEPT ![TheRequest] =
          [i \in DOMAIN stored[TheRequest] |-> [c \in Channels |-> "acknowledged"]]]
  BY <1>4
<1>13. Life!May(u, Life!AISOperations) /\ Life!HasNotam(TheRequest)
  BY <1>1, <1>2, LifeColumns, SameWords
<1>14. status[TheRequest] \in {"publishing", "approved", "published"}  BY <1>2
<1>15. [r \in {TheRequest} |-> NotamOf(row')] =
         [notam EXCEPT ![TheRequest] = [notam[TheRequest] EXCEPT !.published = TRUE]]
  BY <1>10, Zenon DEF yes
<1>16. Life!MarkPublished(TheRequest, u)
  BY <1>8, <1>11, <1>12, <1>13, <1>14, <1>15, Zenon DEF Life!MarkPublished, path
<1> QED  BY <1>16 DEF Life!Next, Life!Publication

-----------------------------------------------------------------------------
\* A handler that ran alone commits what one step of NotamLifecycle does.
LEMMA AloneIsLife ==
  ASSUME IInv, Counted, HasText, HasStaff, AloneIsFaithful,
         NEW s \in Sessions, Commit(s), session[s].alone
  PROVE  Life!Next
<1> DEFINE h == session[s]
<1>1. s \in Open  BY IdleFacts DEF Open, Commit, At
<1>2. Open = {s} /\ Faithful(h, row, deliveries)  BY <1>1 DEF AloneIsFaithful
<1>3. h.read = row  BY <1>2 DEF Faithful
<1>4. Lands(h) /\ h.next = "commit"  BY <1>3, CommitLands
<1>5. Staffed  BY <1>1 DEF HasStaff
<1>6. Len(events) + 2 <= 2 * started
  <2>1. Cardinality(Open) = 1  BY <1>2, FS_Singleton
  <2> QED  BY <2>1 DEF Counted
<1>7. Stamped(row) => row.text # None  BY DEF HasText
<1>8. deliveries # <<>> => row.text # None
  BY <1>7 DEF IInv, Committed, Stamped
<1> HIDE DEF h
<1>9. CASE Saves(h, row)     BY <1>4, <1>7, <1>9, SaveIsLife
<1>10. CASE Submits(h, row)   BY <1>4, <1>5, <1>10, SubmitIsLife
<1>11. CASE Returns(h, row)   BY <1>4, <1>6, <1>11, ReturnIsLife
<1>12. CASE Approves(h, row)  BY <1>4, <1>12, ApproveIsLife
<1>13. CASE Publishes(h, row, deliveries)
  BY <1>4, <1>5, <1>6, <1>13, PublishIsLife
<1>14. CASE Redelivers(h, row, deliveries)
  <2>1. Stored(deliveries) # {}  BY <1>14 DEF Redelivers
  <2>2. deliveries # <<>>  BY <2>1 DEF Stored
  <2> QED  BY <1>4, <1>5, <1>8, <1>14, <2>2, RedeliverIsLife
<1>15. CASE Completes(h, row, deliveries)
  BY <1>4, <1>5, <1>15, CompleteIsLife
<1> QED  BY <1>2, <1>9, <1>10, <1>11, <1>12, <1>13, <1>14, <1>15 DEF Faithful

-----------------------------------------------------------------------------
(***************************************************************************)
(* The invariant, step by step.                                            *)
(***************************************************************************)
Short(h) == Len(h.walked) <= IF h.next \in {"send", "reconcile"} THEN 1 ELSE 2

LEMMA OpenFacts ==
  ASSUME IInv, NEW s \in Open
  PROVE  /\ s \in Sessions /\ session[s] \in Handlers /\ session[s] # Idle
         /\ Founded(session[s], row) /\ Addressed(session[s], deliveries)
         /\ Disciplined(session[s])
         /\ session[s].read \in Columns /\ session[s].now \in Columns
BY DEF Open, IInv, Sound, Handlers

\* A handler goes on.
LEMMA GoesOn ==
  ASSUME RInv, IInv', NEW s \in Open, NEW g \in Handlers,
         session' = [session EXCEPT ![s] = g],
         UNCHANGED <<row, deliveries, events, started>>,
         Short(g), Worded(g, row), g.alone = session[s].alone,
         g.alone /\ Faithful(session[s], row, deliveries) => Faithful(g, row, deliveries)
  PROVE  RInv'
<1>1. DOMAIN session = Sessions /\ s \in Sessions  BY OpenFacts DEF RInv, IInv
<1>2. session'[s] = g /\ \A t \in Sessions \ {s} : session'[t] = session[t]  BY <1>1
<1>3. Open' = Open
  <2>1. session[s] # Idle /\ g # Idle  BY IdleFacts DEF Open
  <2> QED  BY <1>1, <1>2, <2>1 DEF Open
<1>4. Counted'
  <2>1. \A t \in Open : Short(session'[t])  BY <1>1, <1>2 DEF RInv, Counted, Open, Short
  <2> QED  BY <1>3, <2>1 DEF RInv, Counted, Short
<1>5. HasText'
  <2>1. \A t \in Open : Worded(session'[t], row)  BY <1>1, <1>2 DEF RInv, HasText, Open
  <2> QED  BY <1>3, <2>1 DEF RInv, HasText, Worded, Stamped
<1>6. HasStaff'  BY <1>3 DEF RInv, HasStaff, Staffed
<1>7. AloneIsFaithful'
  <2>1. ASSUME NEW t \in Open, session'[t].alone
        PROVE  Open = {t} /\ Faithful(session'[t], row, deliveries)
    <3>1. CASE t = s  BY <1>2, <2>1, <3>1 DEF RInv, AloneIsFaithful
    <3>2. CASE t # s
      <4>1. session'[t] = session[t]  BY <1>2, <3>2 DEF Open
      <4> QED  BY <2>1, <4>1 DEF RInv, AloneIsFaithful
    <3> QED  BY <3>1, <3>2
  <2>2. ASSUME NEW t \in Open', session'[t].alone
        PROVE  Open' = {t} /\ Faithful(session'[t], row', deliveries')
    BY <1>3, <2>1, <2>2
  <2> QED  BY <2>2 DEF AloneIsFaithful
<1> QED  BY <1>4, <1>5, <1>6, <1>7 DEF RInv

\* A handler begins: those under way are alone no more.
LEMMA Begins ==
  ASSUME RInv, IInv', NEW s \in Sessions, NEW path, NEW h, Begin(s, path, h), Staffed,
         NEW g \in Handlers, g = Begun(h, path), g.alone = Quiet,
         Short(g), Worded(g, row),
         Quiet => Faithful(g, row, deliveries)
  PROVE  RInv'
<1>1. /\ session' = [t \in Sessions |-> IF t = s THEN g ELSE Overtaken(session[t])]
      /\ session[s] = Idle /\ started' = started + 1
      /\ UNCHANGED <<row, deliveries, events, handed, savers>>
  BY DEF Begin
<1>2. session'[s] = g /\ \A t \in Sessions \ {s} : session'[t] = Overtaken(session[t])
  BY <1>1
<1>3. ASSUME NEW t \in Open
      PROVE  /\ t \in Sessions \ {s} /\ session'[t] # Idle /\ session'[t].alone = FALSE
             /\ session'[t].next = session[t].next /\ session'[t].walked = session[t].walked
             /\ session'[t].read = session[t].read /\ session'[t].now = session[t].now
  <2>1. session[t] \in Handlers /\ session[t] # Idle /\ t \in Sessions
    BY OpenFacts DEF RInv
  <2>2. t # s  BY <1>1, <2>1
  <2>3. session'[t] = [session[t] EXCEPT !.alone = FALSE]
    BY <1>2, <2>1, <2>2 DEF Overtaken
  <2> DEFINE o == [session[t] EXCEPT !.alone = FALSE]
             no == FALSE
  <2>4. no \in BOOLEAN /\ no = FALSE  OBVIOUS
  <2> HIDE DEF no
  <2>5. LET p == [session[t] EXCEPT !.alone = no] IN
        /\ p \in Handlers /\ p.alone = no /\ p.next = session[t].next /\ p.walked = session[t].walked
        /\ p.read = session[t].read /\ p.now = session[t].now
    BY <2>1, <2>4 DEF Handlers
  <2>6. session'[t] = [session[t] EXCEPT !.alone = no]  BY <2>3, <2>4
  <2> QED  BY <2>1, <2>2, <2>4, <2>5, <2>6, IdleFacts
<1>4. Open' = Open \cup {s} /\ s \notin Open
  <2>1. g # Idle /\ s \notin Open  BY <1>1, IdleFacts DEF Open
  <2>2. \A t \in Sessions : session[t] = Idle /\ t # s => session'[t] = Idle
    BY <1>2 DEF Overtaken
  <2> QED  BY <1>2, <1>3, <2>1, <2>2 DEF Open
<1>5. Counted'
  <2>1. \A t \in Open \cup {s} : Short(session'[t])
    BY <1>2, <1>3 DEF RInv, Counted, Short
  <2>2. IsFiniteSet(Open) /\ Len(events) + 2 * Cardinality(Open) <= 2 * started
    BY DEF RInv, Counted
  <2>3. IsFiniteSet(Open \cup {s}) /\ Cardinality(Open \cup {s}) = Cardinality(Open) + 1
    BY <1>4, <2>2, FS_AddElement
  <2>4. Cardinality(Open) \in Nat  BY <2>2, FS_CardinalityType
  <2>5. Len(events) \in Nat /\ started \in Nat  BY SessionsAssumption DEF RInv, IInv, Committed
  <2>6. Len(events) + 2 * Cardinality(Open \cup {s}) <= 2 * (started + 1)
    BY <2>2, <2>3, <2>4, <2>5
  <2> QED  BY <1>1, <1>4, <2>1, <2>3, <2>6 DEF Counted, Short
<1>6. HasText'
  <2>1. \A t \in Open \cup {s} : Worded(session'[t], row)
    BY <1>2, <1>3 DEF RInv, HasText, Worded
  <2> QED  BY <1>1, <1>4, <2>1 DEF RInv, HasText, Worded, Stamped
<1>7. HasStaff'  BY DEF HasStaff, Staffed
<1>8. AloneIsFaithful'
  <2>1. ASSUME NEW t \in Open', session'[t].alone
        PROVE  Open' = {t} /\ Faithful(session'[t], row', deliveries')
    <3>1. t = s  BY <1>3, <1>4, <2>1
    <3>2. Quiet  BY <1>2, <2>1, <3>1
    <3>3. Open = {}  BY <3>2 DEF Quiet, Open
    <3> QED  BY <1>1, <1>2, <1>4, <3>1, <3>2, <3>3
  <2> QED  BY <2>1 DEF AloneIsFaithful
<1> QED  BY <1>5, <1>6, <1>7, <1>8 DEF RInv
-----------------------------------------------------------------------------
(***************************************************************************)
(* The handlers begin.                                                     *)
(***************************************************************************)

\* What the walk makes of the copy h with which a handler starts.
Grown(g, h, path) ==
  /\ g.read = row /\ Went(g, row, path)
  /\ g.now.text = h.now.text /\ g.now.printed = h.now.printed /\ g.now.preparer = h.now.preparer
  /\ g.now.approver = h.now.approver /\ g.now.published = h.now.published
  /\ g.next = h.next /\ g.target = h.target /\ g.saver = h.saver /\ g.changed = h.changed

LEMMA Starts ==
  ASSUME RInv, IInv', NEW s \in Sessions, NEW path \in Seq(WorkflowStatus), NEW h \in Handlers,
         Begin(s, path, h), Staffed,
         h.read = row, h.now.status = row.status,
         Len(path) <= IF h.next \in {"send", "reconcile"} THEN 1 ELSE 2,
         row.text # None => h.now.text # None,
         Stamped(h.now) => row.text # None,
         \A g \in Handlers : Grown(g, h, path) => Faithful(g, row, deliveries)
  PROVE  RInv'
<1> DEFINE st  == Reached(row.status, path)
           now == [h.now EXCEPT !.status = st]
           w   == Walk(row.status, path)
           g   == [h EXCEPT !.now = now, !.walked = w, !.alone = Quiet]
<1>1. row.status \in WorkflowStatus /\ row \in Columns /\ LegalPath(row.status, path)
  BY DEF Begin, RInv, IInv, Committed, Columns
<1>2. w \in Seq(Events) /\ st \in WorkflowStatus  BY <1>1, WalkFacts
<1>3. Entered(w) = path /\ Len(w) = Len(path)  BY <1>1, EnteredWalk
<1>4. h.now \in Columns  BY DEF Handlers
<1>5. Begun(h, path) = g  BY <1>4 DEF Begun, Handlers
<1>6. st = Reached(row.status, path)  OBVIOUS
<1> HIDE DEF st, w
<1>7. /\ now \in Columns /\ now.status = st
      /\ now.text = h.now.text /\ now.printed = h.now.printed /\ now.preparer = h.now.preparer
      /\ now.approver = h.now.approver /\ now.published = h.now.published
  BY <1>2, <1>4 DEF Columns
<1>8. Quiet \in BOOLEAN  BY DEF Quiet
<1> HIDE DEF now
<1>9. /\ g \in Handlers
      /\ g.next = h.next /\ g.read = row /\ g.now = now /\ g.target = h.target
      /\ g.saver = h.saver /\ g.changed = h.changed /\ g.walked = w /\ g.alone = Quiet
  BY <1>2, <1>7, <1>8 DEF Handlers
<1> HIDE DEF g
<1>10. Short(g)  BY <1>3, <1>9 DEF Short
<1>11. Worded(g, row)  BY <1>7, <1>9 DEF Worded, Stamped
<1>12. Grown(g, h, path)  BY <1>1, <1>3, <1>6, <1>7, <1>9 DEF Grown, Went
<1>13. Faithful(g, row, deliveries)  BY <1>9, <1>12
<1> QED  BY <1>5, <1>9, <1>10, <1>11, <1>13, Begins
\* Whoever may start a handler can do what AISOperations can.
LEMMA StaffFacts ==
  ASSUME NEW u \in Users,
         Life!May(u, AISOperations) \/ Life!May(u, Reviewers) \/ RoleOf[u] \in AISOperations
  PROVE  Staffed
<1>1. Reviewers \subseteq AISOperations  BY DEF Reviewers, AISOperations
<1> QED  BY <1>1 DEF Staffed, Life!May

\* An event or a path of one or two statuses.
LEMMA PathFacts ==
  /\ <<>> \in Seq(WorkflowStatus) /\ Len(<<>>) = 0
  /\ \A a \in WorkflowStatus : <<a>> \in Seq(WorkflowStatus) /\ Len(<<a>>) = 1
  /\ \A a, b \in WorkflowStatus : <<a, b>> \in Seq(WorkflowStatus) /\ Len(<<a, b>>) = 2
OBVIOUS

LEMMA SubmitKeeps ==
  ASSUME RInv, IInv', NEW s \in Sessions, NEW u \in Users, Submit(s, u)
  PROVE  RInv'
<1> DEFINE h == [Fresh EXCEPT !.flushing = <<RequestRow>>]
           path == <<"review">>
<1>1. Begin(s, path, h) /\ row.status # None /\ row.text # None /\ Staffed
  BY StaffFacts, SameWords DEF Submit, Begin, Drafted
<1>2. path \in Seq(WorkflowStatus) /\ Len(path) = 1  BY PathFacts DEF WorkflowStatus
<1>3. <<RequestRow>> \in Seq(Rows)  BY RowsDiffer
<1>4. /\ h \in Handlers
      /\ h.read = row /\ h.now = row /\ h.next = "commit" /\ h.saver = None
      /\ h.changed = <<>>
  BY <1>1, <1>3, FreshFacts DEF RInv, Fresh, Handlers
<1> HIDE DEF h
<1>5. ASSUME NEW g \in Handlers, Grown(g, h, path)  PROVE Faithful(g, row, deliveries)
  BY <1>1, <1>4, <1>5
  DEF Grown, Faithful, Submits, SameStamps, SameSignature, SameText, NothingSent
<1> HIDE DEF path
<1>6. Stamped(h.now) => row.text # None  BY <1>4 DEF RInv, HasText
<1>7. h.now.status = row.status /\ (row.text # None => h.now.text # None)
      /\ Len(path) <= IF h.next \in {"send", "reconcile"} THEN 1 ELSE 2
  BY <1>2, <1>4
<1> QED  BY <1>1, <1>2, <1>4, <1>5, <1>6, <1>7, Starts

LEMMA RequestChangesKeeps ==
  ASSUME RInv, IInv', NEW s \in Sessions, NEW u \in Users, RequestChanges(s, u)
  PROVE  RInv'
<1> DEFINE h == [Fresh EXCEPT !.flushing = <<RequestRow>>]
           path == <<"changes_requested">>
<1>1. Begin(s, path, h) /\ row.status # None /\ Life!May(u, Reviewers) /\ Staffed
  BY StaffFacts, SameWords DEF RequestChanges, Begin
<1>2. path \in Seq(WorkflowStatus) /\ Len(path) = 1  BY PathFacts DEF WorkflowStatus
<1>3. <<RequestRow>> \in Seq(Rows)  BY RowsDiffer
<1>4. /\ h \in Handlers
      /\ h.read = row /\ h.now = row /\ h.next = "commit" /\ h.saver = None
      /\ h.changed = <<>>
  BY <1>1, <1>3, FreshFacts DEF RInv, Fresh, Handlers
<1> HIDE DEF h
<1>5. ASSUME NEW g \in Handlers, Grown(g, h, path)  PROVE Faithful(g, row, deliveries)
  BY <1>1, <1>4, <1>5
  DEF Grown, Faithful, Returns, SameStamps, SameSignature, SameText, NothingSent
<1> HIDE DEF path
<1>6. Stamped(h.now) => row.text # None  BY <1>4 DEF RInv, HasText
<1>7. h.now.status = row.status /\ (row.text # None => h.now.text # None)
      /\ Len(path) <= IF h.next \in {"send", "reconcile"} THEN 1 ELSE 2
  BY <1>2, <1>4
<1> QED  BY <1>1, <1>2, <1>4, <1>5, <1>6, <1>7, Starts

LEMMA ApproveKeeps ==
  ASSUME RInv, IInv', NEW s \in Sessions, NEW u \in Users, Approve(s, u)
  PROVE  RInv'
<1> DEFINE now == [row EXCEPT !.approver = u]
           h == [Fresh EXCEPT !.now = now, !.flushing = <<RequestRow, NotamRow>>]
           path == <<"approved">>
<1>1. /\ row.status # None /\ row.text # None /\ Life!May(u, Reviewers) /\ Staffed
      /\ row.preparer # u
  BY StaffFacts, SameWords DEF Approve, Begin, Drafted
<1>2. path \in Seq(WorkflowStatus) /\ Len(path) = 1  BY PathFacts DEF WorkflowStatus
<1>3. <<RequestRow, NotamRow>> \in Seq(Rows)  BY RowsDiffer
<1>4. /\ now \in Columns /\ now.status = row.status /\ now.approver = u
      /\ now.published = row.published
      /\ now.text = row.text /\ now.printed = row.printed /\ now.preparer = row.preparer
  BY <1>1, FreshFacts DEF RInv, Columns
<1>5. Begin(s, path, h)
  <2>1. [Fresh EXCEPT !.now.approver = u, !.flushing = <<RequestRow, NotamRow>>] = h
    BY DEF Fresh
  <2> QED  BY <2>1 DEF Approve
<1> HIDE DEF now
<1>6. /\ h \in Handlers
      /\ h.read = row /\ h.now = now /\ h.next = "commit" /\ h.saver = None
      /\ h.changed = <<>>
  BY <1>1, <1>3, <1>4, FreshFacts DEF RInv, Fresh, Handlers
<1> HIDE DEF h
<1>7. ASSUME NEW g \in Handlers, Grown(g, h, path)  PROVE Faithful(g, row, deliveries)
  BY <1>1, <1>4, <1>6, <1>7
  DEF Grown, Faithful, Approves, SameText, NothingSent
<1> HIDE DEF path
<1>8. /\ h.now.status = row.status /\ (row.text # None => h.now.text # None)
      /\ Stamped(h.now) => row.text # None
      /\ Len(path) <= IF h.next \in {"send", "reconcile"} THEN 1 ELSE 2
  BY <1>1, <1>2, <1>4, <1>6
<1> QED  BY <1>1, <1>2, <1>4, <1>5, <1>6, <1>7, <1>8, Starts
LEMMA SaveDraftKeeps ==
  ASSUME RInv, IInv', NEW s \in Sessions, NEW u \in Users, NEW text \in Texts, SaveDraft(s, u, text)
  PROVE  RInv'
<1> DEFINE path == DraftPath(row.status)
           n    == IF Drafted THEN 2 ELSE 1
           now  == [row EXCEPT !.text = text, !.preparer = u, !.printed = n]
           f    == (IF path = <<>> THEN <<>> ELSE <<RequestRow>>) \o <<NotamRow>>
           h    == [Fresh EXCEPT !.now = now, !.saver = u, !.flushing = f]
<1>1. /\ row.status # None /\ RoleOf[u] \in AISOperations /\ Staffed
      /\ row.status \in Life!Draftable
  BY StaffFacts DEF SaveDraft, Begin
<1>2. path \in Seq(WorkflowStatus) /\ Len(path) <= 2
  <2>1. path \in {<<"triage", "draft">>, <<"draft">>, <<>>}  BY DEF DraftPath
  <2>2. {"triage", "draft"} \subseteq WorkflowStatus  BY DEF WorkflowStatus
  <2>3. <<"triage", "draft">> \in Seq(WorkflowStatus) /\ Len(<<"triage", "draft">>) <= 2
    BY <2>2, PathFacts
  <2>4. <<"draft">> \in Seq(WorkflowStatus) /\ Len(<<"draft">>) <= 2  BY <2>2, PathFacts
  <2>5. <<>> \in Seq(WorkflowStatus) /\ Len(<<>>) <= 2  BY PathFacts
  <2> HIDE DEF path
  <2> QED  BY <2>1, <2>3, <2>4, <2>5
<1>3. f \in Seq(Rows)
  <2>1. (IF path = <<>> THEN <<>> ELSE <<RequestRow>>) \in Seq(Rows) /\ <<NotamRow>> \in Seq(Rows)
    BY RowsDiffer
  <2> QED  BY <2>1
<1>4. /\ now \in Columns /\ now.status = row.status /\ now.approver = row.approver
      /\ now.published = row.published
      /\ now.text = text /\ now.preparer = u /\ now.printed = n
  <2>1. n \in 0 .. 2  OBVIOUS
  <2> HIDE DEF n
  <2> QED  BY <1>1, <2>1, FreshFacts DEF RInv, Columns
<1>5. n = IF row.text # None THEN 2 ELSE 1  BY DEF Drafted
<1>6. Begin(s, path, h)  BY DEF SaveDraft, Fresh
<1> HIDE DEF now, f, n
<1>7. /\ h \in Handlers
      /\ h.read = row /\ h.now = now /\ h.next = "commit" /\ h.saver = u
      /\ h.changed = <<>>
  BY <1>1, <1>3, <1>4, FreshFacts DEF RInv, Fresh, Handlers
<1> HIDE DEF h
<1>8. text # None  BY NoneAssumption
<1>9. ASSUME NEW g \in Handlers, Grown(g, h, path)  PROVE Faithful(g, row, deliveries)
  <2>1. NothingSent(g)  BY <1>7, <1>9 DEF Grown, NothingSent
  <2>2. Saves(g, row)  BY <1>1, <1>4, <1>5, <1>7, <1>9, <2>1 DEF Grown, Saves
  <2> QED  BY <1>7, <1>9, <2>2 DEF Grown, Faithful
<1>10. /\ h.now.status = row.status /\ h.now.text # None
       /\ Stamped(h.now) => row.text # None
       /\ Len(path) <= IF h.next \in {"send", "reconcile"} THEN 1 ELSE 2
  BY <1>2, <1>4, <1>7, <1>8 DEF RInv, HasText, Stamped
<1> HIDE DEF path
<1> QED  BY <1>1, <1>2, <1>6, <1>7, <1>9, <1>10, Starts

\* A handler that has not reconciled the status yet.
LEMMA Unreconciled ==
  ASSUME NEW h, NEW r \in Columns, NEW path \in Seq(WorkflowStatus),
         Went(h, r, path), SameStamps(h, r)
  PROVE  Settles(h, r, path, <<>>)
<1>1. path \o <<>> = path  OBVIOUS
<1>2. r.published \in BOOLEAN /\ <<>> # <<"published">>  BY DEF Columns
<1> QED  BY <1>1, <1>2 DEF Settles, SameStamps

LEMMA PublishKeeps ==
  ASSUME RInv, IInv', NEW s \in Sessions, NEW u \in Users, Publish(s, u)
  PROVE  RInv'
<1> DEFINE h == [Fresh EXCEPT !.flushing = <<RequestRow>>, !.next = "send"]
           path == <<"publishing">>
<1>1. Begin(s, path, h) /\ row.status # None /\ row.text # None /\ Staffed
  BY StaffFacts, SameWords DEF Publish, Begin, Drafted
<1>2. path \in Seq(WorkflowStatus) /\ Len(path) = 1  BY PathFacts DEF WorkflowStatus
<1>3. <<RequestRow>> \in Seq(Rows)  BY RowsDiffer
<1>4. /\ h \in Handlers
      /\ h.read = row /\ h.now = row /\ h.next = "send" /\ h.saver = None /\ h.target = None
  BY <1>1, <1>3, FreshFacts DEF RInv, Fresh, Handlers
<1> HIDE DEF h
<1>5. ASSUME NEW g \in Handlers, Grown(g, h, path)  PROVE Faithful(g, row, deliveries)
  <2>1. Went(g, row, path) /\ SameStamps(g, row)
    BY <1>4, <1>5 DEF Grown, SameStamps, SameSignature, SameText
  <2>2. row \in Columns  BY <1>1, FreshFacts DEF RInv
  <2>3. Settles(g, row, path, <<>>)
    <3> HIDE DEF path
    <3> QED  BY <1>2, <2>1, <2>2, Unreconciled
  <2>4. g.next = "send" /\ g.target = None /\ g.read = row  BY <1>4, <1>5 DEF Grown
  <2> QED  BY <1>1, <2>3, <2>4 DEF Faithful, Publishes
<1> HIDE DEF path
<1>6. Stamped(h.now) => row.text # None  BY <1>4 DEF RInv, HasText
<1>7. h.now.status = row.status /\ (row.text # None => h.now.text # None)
      /\ Len(path) <= IF h.next \in {"send", "reconcile"} THEN 1 ELSE 2
  BY <1>2, <1>4
<1> QED  BY <1>1, <1>2, <1>4, <1>5, <1>6, <1>7, Starts

LEMMA RetryDeliveryKeeps ==
  ASSUME RInv, IInv', NEW s \in Sessions, NEW u \in Users, NEW d \in Existing, RetryDelivery(s, u, d)
  PROVE  RInv'
<1> DEFINE h == [Fresh EXCEPT !.target = d, !.next = "send"]
<1>1. Begin(s, <<>>, h) /\ row.status # None /\ Staffed
  BY StaffFacts, SameWords DEF RetryDelivery, Begin
<1>2. d \in Delivery /\ d \in Stored(deliveries)  BY ExistingFacts DEF RInv
<1>3. /\ h \in Handlers
      /\ h.read = row /\ h.now = row /\ h.next = "send" /\ h.saver = None /\ h.target = d
  BY <1>1, <1>2, FreshFacts DEF RInv, Fresh, Handlers
<1> HIDE DEF h
<1>4. ASSUME NEW g \in Handlers, Grown(g, h, <<>>)  PROVE Faithful(g, row, deliveries)
  <2>1. Went(g, row, <<>>) /\ SameStamps(g, row)
    BY <1>3, <1>4 DEF Grown, SameStamps, SameSignature, SameText
  <2>2. row \in Columns  BY <1>1, FreshFacts DEF RInv
  <2>3. Settles(g, row, <<>>, <<>>)  BY <2>1, <2>2, PathFacts, Unreconciled
  <2>4. g.next = "send" /\ g.target = d /\ g.read = row  BY <1>3, <1>4 DEF Grown
  <2> QED  BY <1>2, <2>3, <2>4 DEF Faithful, Redelivers
<1>5. Stamped(h.now) => row.text # None  BY <1>3 DEF RInv, HasText
<1>6. h.now.status = row.status /\ (row.text # None => h.now.text # None)
      /\ Len(<<>>) <= IF h.next \in {"send", "reconcile"} THEN 1 ELSE 2
  BY <1>3, PathFacts
<1> QED  BY <1>1, <1>3, <1>4, <1>5, <1>6, PathFacts, Starts

LEMMA AcknowledgeDeliveryKeeps ==
  ASSUME RInv, IInv', NEW s \in Sessions, NEW d \in Existing, AcknowledgeDelivery(s, d)
  PROVE  RInv'
<1> DEFINE ch == [x \in {d} |-> "acknowledged"]
           h  == [Fresh EXCEPT !.changed = ch, !.flushing = <<DeliveryRow(d)>>, !.next = "reconcile"]
<1>1. Begin(s, <<>>, h) /\ row.status # None  BY DEF AcknowledgeDelivery, Begin
<1>2. d \in Delivery /\ d \in Stored(deliveries)  BY ExistingFacts DEF RInv
<1>3. Staffed
  <2>1. deliveries # <<>>  BY <1>2 DEF Stored
  <2> QED  BY <2>1 DEF RInv, HasStaff
<1>4. <<DeliveryRow(d)>> \in Seq(Rows)  BY <1>2, RowsDiffer
<1>5. ch \in Changes /\ DOMAIN ch = {d} /\ ch[d] = "acknowledged"
  <2>1. ch \in [{d} -> Life!DeliveryStatus]  BY DEF Life!DeliveryStatus
  <2>2. {d} \in SUBSET Delivery  BY <1>2
  <2> QED  BY <2>1, <2>2 DEF Changes
<1> HIDE DEF ch
<1>6. /\ h \in Handlers
      /\ h.read = row /\ h.now = row /\ h.next = "reconcile" /\ h.saver = None
      /\ h.changed = ch
  BY <1>1, <1>4, <1>5, FreshFacts DEF RInv, Fresh, Handlers
<1> HIDE DEF h
<1>7. ASSUME NEW g \in Handlers, Grown(g, h, <<>>)  PROVE Faithful(g, row, deliveries)
  <2>1. Went(g, row, <<>>) /\ SameStamps(g, row)
    BY <1>6, <1>7 DEF Grown, SameStamps, SameSignature, SameText
  <2>2. row \in Columns  BY <1>1, FreshFacts DEF RInv
  <2>3. Settles(g, row, <<>>, <<>>)  BY <2>1, <2>2, PathFacts, Unreconciled
  <2>4. g.next = "reconcile" /\ g.changed = ch /\ g.read = row  BY <1>6, <1>7 DEF Grown
  <2>5. Redelivered(g, row, d)  BY <1>5, <2>4 DEF Redelivered
  <2> QED  BY <1>2, <2>3, <2>4, <2>5 DEF Faithful, Redelivers
<1>8. Stamped(h.now) => row.text # None  BY <1>6 DEF RInv, HasText
<1>9. h.now.status = row.status /\ (row.text # None => h.now.text # None)
      /\ Len(<<>>) <= IF h.next \in {"send", "reconcile"} THEN 1 ELSE 2
  BY <1>6, PathFacts
<1> QED  BY <1>1, <1>3, <1>6, <1>7, <1>8, <1>9, PathFacts, Starts

LEMMA MarkPublishedKeeps ==
  ASSUME RInv, IInv', NEW s \in Sessions, NEW u \in Users, MarkPublished(s, u)
  PROVE  RInv'
<1> DEFINE yes  == TRUE
           now  == [row EXCEPT !.published = yes]
           path == OverridePath(row.status)
           h    == [Fresh EXCEPT !.now = now, !.flushing = <<NotamRow>>, !.next = "override"]
<1>1. /\ row.status # None /\ row.status \in {"publishing", "approved", "published"}
      /\ row.text # None /\ Staffed
  BY StaffFacts, SameWords DEF MarkPublished, Begin, Drafted
<1>2. path \in Seq(WorkflowStatus) /\ Len(path) <= 2
  <2>1. path \in {<<"publishing", "published">>, <<"published">>, <<>>}  BY DEF OverridePath
  <2>2. {"publishing", "published"} \subseteq WorkflowStatus  BY DEF WorkflowStatus
  <2>3. <<"publishing", "published">> \in Seq(WorkflowStatus) /\ Len(<<"publishing", "published">>) <= 2
    BY <2>2, PathFacts
  <2>4. <<"published">> \in Seq(WorkflowStatus) /\ Len(<<"published">>) <= 2  BY <2>2, PathFacts
  <2>5. <<>> \in Seq(WorkflowStatus) /\ Len(<<>>) <= 2  BY PathFacts
  <2> HIDE DEF path
  <2> QED  BY <2>1, <2>3, <2>4, <2>5
<1>3. <<NotamRow>> \in Seq(Rows)  BY RowsDiffer
<1>4. yes \in BOOLEAN /\ yes = TRUE  OBVIOUS
<1>5. Begin(s, path, h)  BY DEF MarkPublished, Fresh
<1> HIDE DEF yes
<1>6. /\ now \in Columns /\ now.status = row.status /\ now.approver = row.approver
      /\ now.published = yes
      /\ now.text = row.text /\ now.printed = row.printed /\ now.preparer = row.preparer
  BY <1>1, <1>4, FreshFacts DEF RInv, Columns
<1> HIDE DEF now
<1>7. /\ h \in Handlers
      /\ h.read = row /\ h.now = now /\ h.next = "override" /\ h.saver = None
  BY <1>1, <1>3, <1>6, FreshFacts DEF RInv, Fresh, Handlers
<1> HIDE DEF h
<1>8. ASSUME NEW g \in Handlers, Grown(g, h, path)  PROVE Faithful(g, row, deliveries)
  <2>1. SameSignature(g, row) /\ g.now.published = TRUE
    BY <1>4, <1>6, <1>7, <1>8 DEF Grown, SameSignature, SameText
  <2> QED  BY <1>1, <1>7, <1>8, <2>1 DEF Grown, Faithful, Completes
<1> HIDE DEF path
<1>9. /\ h.now.status = row.status /\ (row.text # None => h.now.text # None)
      /\ Len(path) <= IF h.next \in {"send", "reconcile"} THEN 1 ELSE 2
  BY <1>2, <1>6, <1>7
<1> QED  BY <1>1, <1>2, <1>5, <1>7, <1>8, <1>9, Starts
-----------------------------------------------------------------------------
(***************************************************************************)
(* The handlers go on.                                                     *)
(***************************************************************************)

\* What a handler has done is told by these of its fields.
LEMMA SameCourse ==
  ASSUME NEW g, NEW h, NEW r, NEW ds, Faithful(h, r, ds),
         g.next = h.next, g.read = h.read, g.now = h.now, g.target = h.target,
         g.saver = h.saver, g.changed = h.changed, g.walked = h.walked
  PROVE  Faithful(g, r, ds)
<1>1. /\ SameText(h, r) => SameText(g, r)
      /\ SameSignature(h, r) => SameSignature(g, r)
      /\ SameStamps(h, r) => SameStamps(g, r)
      /\ NothingSent(h) => NothingSent(g)
  BY DEF SameText, SameSignature, SameStamps, NothingSent
<1>2. \A path : Went(h, r, path) => Went(g, r, path)  BY DEF Went
<1>3. \A path, settled : Settles(h, r, path, settled) => Settles(g, r, path, settled)
  BY <1>1, <1>2 DEF Settles
<1>4. Saves(h, r) => Saves(g, r)  BY <1>1, <1>2 DEF Saves
<1>5. Submits(h, r) => Submits(g, r)  BY <1>1, <1>2 DEF Submits
<1>6. Returns(h, r) => Returns(g, r)  BY <1>1, <1>2 DEF Returns
<1>7. Approves(h, r) => Approves(g, r)  BY <1>1, <1>2 DEF Approves
<1>8. Publishes(h, r, ds) => Publishes(g, r, ds)  BY <1>3 DEF Publishes, Batched
<1>9. Redelivers(h, r, ds) => Redelivers(g, r, ds)  BY <1>3 DEF Redelivers, Redelivered
<1>10. Completes(h, r, ds) => Completes(g, r, ds)  BY <1>1, <1>2 DEF Completes
<1> QED  BY <1>4, <1>5, <1>6, <1>7, <1>8, <1>9, <1>10 DEF Faithful

LEMMA FlushKeeps ==
  ASSUME RInv, IInv', NEW s \in Sessions, Flush(s)
  PROVE  RInv'
<1> DEFINE h == session[s]
           x == Head(h.flushing)
           g == [h EXCEPT !.flushing = Tail(h.flushing), !.locked = h.locked \cup {x}]
<1>1. s \in Open  BY IdleFacts DEF Flush, Open
<1>2. h \in Handlers  BY <1>1, OpenFacts DEF RInv
<1>3. x \in Rows /\ Tail(h.flushing) \in Seq(Rows) /\ h.locked \in SUBSET Rows
  <2>1. h.flushing \in Seq(Rows) /\ h.flushing # <<>> /\ h.locked \in SUBSET Rows
    BY <1>2 DEF Flush, Handlers
  <2> QED  BY <2>1, TailFacts
<1> HIDE DEF x
<1>4. /\ g \in Handlers
      /\ g.next = h.next /\ g.read = h.read /\ g.now = h.now /\ g.target = h.target
      /\ g.saver = h.saver /\ g.changed = h.changed /\ g.walked = h.walked
      /\ g.alone = h.alone
  BY <1>2, <1>3 DEF Handlers
<1>5. session' = [session EXCEPT ![s] = g]
      /\ UNCHANGED <<row, deliveries, events, started>>
  BY <1>2 DEF Flush, x
<1> HIDE DEF g
<1>6. Short(h) /\ Worded(h, row)  BY <1>1 DEF RInv, Counted, HasText, Short
<1>7. Short(g) /\ Worded(g, row)  BY <1>4, <1>6 DEF Short, Worded
<1>8. Faithful(h, row, deliveries) => Faithful(g, row, deliveries)  BY <1>4, SameCourse
<1> QED  BY <1>1, <1>4, <1>5, <1>7, <1>8, GoesOn
\* A NOTAM with deliveries was signed, so it has a text.
LEMMA DeliveredHasText ==
  ASSUME RInv, Stored(deliveries) # {}
  PROVE  row.text # None
<1>1. deliveries # <<>>  BY DEF Stored
<1> QED  BY <1>1 DEF RInv, IInv, Committed, HasText, Stamped

LEMMA SendKeeps ==
  ASSUME RInv, IInv', NEW s \in Sessions, Send(s)
  PROVE  RInv'
<1> DEFINE h == session[s]
           f == IF h.target = None THEN <<>> ELSE <<DeliveryRow(h.target)>>
<1>1. /\ h \in Handlers /\ Addressed(h, deliveries) /\ h.next = "send"
      /\ deliveries \in Deliveries
  BY AtFacts DEF RInv, Send
<1>2. PICK outcome \in [Mine(h) -> Life!DeliveryStatus] :
        /\ \A d \in Mine(h) : outcome[d] \in Life!Outcomes(TheRequest, d[2])
        /\ session' = [session EXCEPT ![s] = Dispatched(h, outcome)]
  BY Zenon DEF Send
<1> DEFINE g == Dispatched(h, outcome)
<1>3. session' = [session EXCEPT ![s] = g]
      /\ UNCHANGED <<row, deliveries, events, started>>
  <2>1. UNCHANGED <<row, deliveries, events, started>>  BY DEF Send
  <2> QED  BY <1>2, <2>1
<1>4. h.target # None => h.target \in Stored(deliveries) /\ h.target \in Delivery
  BY <1>1, StoredFinite DEF Addressed
<1>5. Mine(h) \in SUBSET Delivery
  <2>1. NewBatch \subseteq Delivery  BY <1>1 DEF NewBatch, Delivery, Deliveries
  <2> QED  BY <1>4, <2>1 DEF Mine
<1>6. outcome \in Changes /\ DOMAIN outcome = Mine(h)  BY <1>2, <1>5 DEF Changes
<1>7. f \in Seq(Rows)
  <2>1. CASE h.target = None  BY <2>1
  <2>2. CASE h.target # None
    <3>1. DeliveryRow(h.target) \in Rows  BY <1>4, <2>2, RowsDiffer
    <3> QED  BY <2>2, <3>1
  <2> QED  BY <2>1, <2>2
<1>8. f = (IF h.target = None THEN <<>> ELSE <<DeliveryRow(h.target)>>)  OBVIOUS
<1> HIDE DEF f
<1>9. /\ g \in Handlers
      /\ g.next = "reconcile" /\ g.read = h.read /\ g.now = h.now
      /\ g.saver = h.saver /\ g.changed = outcome /\ g.walked = h.walked /\ g.alone = h.alone
  BY <1>1, <1>6, <1>7, <1>8 DEF Handlers, Dispatched
<1> HIDE DEF g
<1>10. s \in Open  BY <1>1, IdleFacts DEF Open
<1>11. Short(h) /\ Worded(h, row)  BY <1>10 DEF RInv, Counted, HasText, Short
<1>12. Short(g) /\ Worded(g, row)  BY <1>1, <1>9, <1>11 DEF Short, Worded
<1> HIDE DEF h
<1>13. \A path, settled : Settles(h, row, path, settled) => Settles(g, row, path, settled)
  BY <1>9 DEF Settles, Went, SameSignature, SameText
<1>14. ASSUME Publishes(h, row, deliveries)  PROVE Publishes(g, row, deliveries)
  <2>1. row.text # None /\ h.target = None /\ Settles(h, row, <<"publishing">>, <<>>)
    BY <1>1, <1>14 DEF Publishes
  <2>2. DOMAIN outcome = Batch(deliveries)  BY <1>6, <2>1 DEF Mine, NewBatch, Batch
  <2>3. \A c \in Channels : outcome[<<Len(deliveries) + 1, c>>] \in Ends(row, c)
    <3>1. ASSUME NEW c \in Channels
          PROVE  outcome[<<Len(deliveries) + 1, c>>] \in Ends(row, c)
      <4>1. <<Len(deliveries) + 1, c>> \in Mine(h)  BY <1>6, <2>2 DEF Batch
      <4>2. <<Len(deliveries) + 1, c>>[2] = c  OBVIOUS
      <4> QED  BY <1>2, <2>1, <4>1, <4>2, EndsAreOutcomes
    <3> QED  BY <3>1
  <2>4. Batched(g, row, deliveries)  BY <1>9, <2>2, <2>3 DEF Batched
  <2> QED  BY <1>9, <1>13, <2>1, <2>4 DEF Publishes
<1>15. ASSUME Redelivers(h, row, deliveries)  PROVE Redelivers(g, row, deliveries)
  <2>1. PICK d \in Stored(deliveries) : h.target = d /\ Settles(h, row, <<>>, <<>>)
    BY <1>1, <1>15 DEF Redelivers
  <2>2. d # None
    BY <1>1, StoredFinite, NoneAssumption DEF Delivery
  <2>3. DOMAIN outcome = {d}  BY <1>6, <2>1, <2>2 DEF Mine
  <2>4. row.text # None  BY DeliveredHasText
  <2>5. outcome[d] \in Ends(row, d[2])  BY <1>2, <1>6, <2>3, <2>4, EndsAreOutcomes
  <2>6. Redelivered(g, row, d)  BY <1>9, <2>3, <2>5 DEF Redelivered
  <2> QED  BY <1>9, <1>13, <2>1, <2>6 DEF Redelivers
<1>16. ASSUME Faithful(h, row, deliveries)  PROVE Faithful(g, row, deliveries)
  <2>1. Publishes(h, row, deliveries) \/ Redelivers(h, row, deliveries)
    BY <1>1, <1>16 DEF Faithful, Saves, Submits, Returns, Approves, Completes, NothingSent
  <2> QED  BY <1>9, <1>14, <1>15, <1>16, <2>1 DEF Faithful
<1> QED  BY <1>3, <1>9, <1>10, <1>12, <1>16, GoesOn DEF h
\* _reconcile_publishing_status goes on from where the handler had come.
LEMMA SettledWent ==
  ASSUME NEW st \in WorkflowStatus, NEW before \in {<<>>, <<"publishing">>},
         LegalPath(st, before),
         NEW settled \in {<<>>, <<"approved">>, <<"published">>},
         settled # <<>> => Reached(st, before) = "publishing"
  PROVE  /\ LegalPath(st, before \o settled)
         /\ Reached(st, before \o settled) = Reached(Reached(st, before), settled)
<1>1. <<>> \o settled = settled /\ before \o <<>> = before  BY SettledPaths
<1>2. CASE settled = <<>>
  BY <1>1, <1>2 DEF Reached
<1>3. ASSUME NEW x \in {"approved", "published"}, settled = <<x>>
      PROVE  /\ LegalPath(st, before \o settled)
             /\ Reached(st, before \o settled) = Reached(Reached(st, before), settled)
  <2>1. x \in TRANSITIONS["publishing"] /\ Reached(st, before) = "publishing"
    BY <1>3 DEF TRANSITIONS, WorkflowStatus
  <2>2. DOMAIN <<x>> = {1} /\ <<x>>[1] = x /\ Len(<<x>>) = 1 /\ <<x>> # <<>>  OBVIOUS
  <2>3. CASE before = <<>>
    <3>1. st = "publishing" /\ before \o settled = <<x>>
      BY <1>1, <1>3, <2>1, <2>3 DEF Reached
    <3> QED  BY <1>3, <2>1, <2>2, <3>1 DEF LegalPath, Reached
  <2>4. CASE before = <<"publishing">>
    <3> DEFINE p == <<"publishing", x>>
    <3>1. before \o settled = p
      <4>1. "publishing" \in WorkflowStatus /\ x \in WorkflowStatus  BY DEF WorkflowStatus
      <4> QED  BY <1>3, <2>4, <4>1, PairFacts
    <3>2. DOMAIN p = {1, 2} /\ p[1] = "publishing" /\ p[2] = x /\ Len(p) = 2 /\ p # <<>>
      OBVIOUS
    <3>3. "publishing" \in TRANSITIONS[st]
      <4>1. DOMAIN <<"publishing">> = {1} /\ <<"publishing">>[1] = "publishing"  OBVIOUS
      <4> QED  BY <2>4, <4>1 DEF LegalPath
    <3> HIDE DEF p
    <3>4. LegalPath(st, p)  BY <2>1, <3>2, <3>3 DEF LegalPath
    <3>5. Reached(st, p) = x /\ Reached(Reached(st, before), settled) = x
      BY <1>3, <2>2, <3>2 DEF Reached
    <3> QED  BY <3>1, <3>4, <3>5
  <2> QED  BY <2>3, <2>4
<1> QED  BY <1>2, <1>3

\* What _reconcile_publishing_status leaves of the handler's copy.
LEMMA ReconciledCopy ==
  ASSUME NEW h \in Handlers, NEW st \in WorkflowStatus,
         NEW path \in {<<>>, <<"approved">>, <<"published">>}
  PROVE  LET g == Reconciled(h, st, path)
         IN /\ g.now.text = h.now.text /\ g.now.printed = h.now.printed
            /\ g.now.preparer = h.now.preparer
            /\ g.read.text = h.read.text
            /\ h.walked # <<>> \/ st = h.read.status => g.read = h.read
            /\ g.saver = h.saver /\ g.alone = h.alone
<1> DEFINE read == [h.read EXCEPT !.status = IF h.walked = <<>> THEN st ELSE h.read.status]
           now  == [h.now EXCEPT !.status = Reached(st, path),
                                 !.published = h.now.published \/ path = <<"published">>]
           w    == h.walked \o Walk(st, path)
           f    == CASE path = <<>>            -> <<>>
                     [] path = <<"published">> -> <<RequestRow, NotamRow>>
                     [] OTHER                  -> <<RequestRow>>
           g    == [h EXCEPT !.read = read, !.now = now, !.walked = w,
                             !.flushing = f, !.next = "commit"]
<1>1. read.text = h.read.text /\ (h.walked # <<>> \/ st = h.read.status => read = h.read)
  <2>1. h.read \in Columns  BY DEF Handlers
  <2> QED  BY <2>1 DEF Columns
<1>2. now.text = h.now.text /\ now.printed = h.now.printed /\ now.preparer = h.now.preparer
  <2>1. h.now \in Columns  BY DEF Handlers
  <2> QED  BY <2>1 DEF Columns
<1>3. Reconciled(h, st, path) = g  BY DEF Reconciled
<1> HIDE DEF read, now, w, f
<1>4. g.read = read /\ g.now = now /\ g.saver = h.saver /\ g.alone = h.alone
  BY DEF Handlers
<1> HIDE DEF g
<1> QED  BY <1>1, <1>2, <1>3, <1>4

LEMMA ReconcileKeeps ==
  ASSUME RInv, IInv', NEW s \in Sessions, Reconcile(s)
  PROVE  RInv'
<1> DEFINE h    == session[s]
           st   == IF h.walked # <<>> THEN h.now.status ELSE row.status
           path == IF st = "publishing" THEN Life!Reconcile(Overlaid(h.changed)) ELSE <<>>
           g    == Reconciled(h, st, path)
           w    == Walk(st, path)
<1>1. /\ h \in Handlers /\ Founded(h, row)
      /\ h.next = "reconcile" /\ row \in Columns
  BY AtFacts DEF RInv, Reconcile
<1>2. session' = [session EXCEPT ![s] = g] /\ UNCHANGED <<row, deliveries, events, started>>
  BY Zenon DEF Reconcile
<1>3. st \in WorkflowStatus /\ row.status \in WorkflowStatus
  BY <1>1 DEF Founded, Columns
<1>4. path \in {<<>>, <<"approved">>, <<"published">>}  BY ReconcilePaths
<1>5. path \in Seq(WorkflowStatus) /\ Len(path) <= 1
  <2>1. <<>> \in Seq(WorkflowStatus) /\ Len(<<>>) <= 1  BY PathFacts
  <2>2. "approved" \in WorkflowStatus /\ "published" \in WorkflowStatus  BY DEF WorkflowStatus
  <2>3. <<"approved">> \in Seq(WorkflowStatus) /\ Len(<<"approved">>) <= 1  BY <2>2, PathFacts
  <2>4. <<"published">> \in Seq(WorkflowStatus) /\ Len(<<"published">>) <= 1  BY <2>2, PathFacts
  <2> HIDE DEF path
  <2> QED  BY <1>4, <2>1, <2>3, <2>4
<1>6. /\ h.walked # <<>> => st = h.now.status
      /\ h.walked = <<>> => st = row.status
      /\ path = IF st = "publishing" THEN Life!Reconcile(Overlay(deliveries, h.changed)) ELSE <<>>
  BY DEF Overlaid, Overlay
<1>7. s \in Open  BY <1>1, IdleFacts DEF Open
<1>8. Short(h) /\ Worded(h, row)  BY <1>7 DEF RInv, Counted, HasText, Short
<1> HIDE DEF h, path, st
<1>9. Follows(g, h, st, path)  BY <1>1, <1>3, <1>4, ReconciledFacts
<1>10. /\ g.now.text = h.now.text /\ g.now.printed = h.now.printed
       /\ g.now.preparer = h.now.preparer
       /\ g.read.text = h.read.text
       /\ h.walked # <<>> \/ st = h.read.status => g.read = h.read
       /\ g.saver = h.saver /\ g.alone = h.alone
  BY <1>1, <1>3, <1>4, ReconciledCopy
<1> HIDE DEF g
<1>11. w \in Seq(Events) /\ Entered(w) = path /\ Len(w) = Len(path)
  BY <1>3, <1>5, EnteredWalk, WalkFacts
<1>12. h.walked \in Seq(Events) /\ g.walked = h.walked \o w
  BY <1>1, <1>9 DEF Handlers, Follows
<1>13. Short(g)
  <2>1. Len(g.walked) = Len(h.walked) + Len(w) /\ Len(h.walked) \in Nat /\ Len(w) \in Nat
    BY <1>11, <1>12, ConcatProperties, LenProperties
  <2>2. Len(h.walked) <= 1  BY <1>1, <1>8 DEF Short
  <2>3. Len(g.walked) <= 2  BY <1>5, <1>11, <2>1, <2>2
  <2> QED  BY <1>9, <2>3 DEF Short, Follows
<1>14. Worded(g, row)
  <2>1. h.now.approver # None  BY <1>1 DEF Founded, Signs
  <2> QED  BY <1>8, <1>10, <2>1 DEF Worded, Stamped
<1>15. ASSUME h.read = row, NEW before \in {<<>>, <<"publishing">>},
              Settles(h, row, before, <<>>)
       PROVE  g.read = row /\ st = Reached(row.status, before) /\ Settles(g, row, before, path)
  <2>1. Went(h, row, before) /\ SameSignature(h, row) /\ h.now.published = row.published
    <3>1. before \o <<>> = before  BY SettledPaths
    <3>2. <<>> # <<"published">> /\ row.published \in BOOLEAN  BY <1>1 DEF Columns
    <3> QED  BY <1>15, <3>1, <3>2 DEF Settles
  <2>2. h.walked = <<>> <=> before = <<>>
    <3>1. Len(h.walked) = Len(before)
      BY <1>12, <2>1, EnteredJoin DEF Went
    <3>2. before \in Seq(WorkflowStatus)
      BY PathFacts DEF WorkflowStatus
    <3> QED  BY <1>12, <3>1, <3>2
  <2>3. st = Reached(row.status, before)
    <3>1. Reached(row.status, <<>>) = row.status  BY DEF Reached
    <3> QED  BY <1>6, <2>1, <2>2, <3>1 DEF Went
  <2>4. g.read = row  BY <1>6, <1>10, <1>15
  <2>5. path # <<>> => st = "publishing"  BY <1>6
  <2>6. /\ LegalPath(row.status, before \o path)
        /\ Reached(row.status, before \o path) = Reached(st, path)
    BY <1>3, <1>4, <2>1, <2>3, <2>5, SettledWent DEF Went
  <2>7. Entered(g.walked) = before \o path
    <3>1. Entered(g.walked) = Entered(h.walked) \o Entered(w)  BY <1>11, <1>12, EnteredJoin
    <3> QED  BY <1>11, <2>1, <3>1 DEF Went
  <2>8. Went(g, row, before \o path)  BY <1>9, <2>6, <2>7 DEF Went, Follows
  <2>9. SameSignature(g, row)
    BY <1>9, <1>10, <2>1 DEF SameSignature, SameText, Follows
  <2>10. g.now.published = (row.published \/ path = <<"published">>)
    BY <1>9, <2>1 DEF Follows
  <2> QED  BY <2>3, <2>4, <2>8, <2>9, <2>10 DEF Settles
<1>16. g.next = "commit" /\ g.changed = h.changed  BY <1>9 DEF Follows
<1>17. ASSUME h.read = row, Publishes(h, row, deliveries)
       PROVE  g.read = row /\ Publishes(g, row, deliveries)
  <2>1. row.text # None /\ Batched(h, row, deliveries) /\ Settles(h, row, <<"publishing">>, <<>>)
    BY <1>1, <1>17 DEF Publishes
  <2>2. /\ g.read = row /\ st = Reached(row.status, <<"publishing">>)
        /\ Settles(g, row, <<"publishing">>, path)
    BY <1>15, <1>17, <2>1
  <2>3. st = "publishing"  BY <2>2 DEF Reached
  <2>4. path = Life!Reconcile(Overlay(deliveries, g.changed))  BY <1>6, <1>16, <2>3
  <2>5. Batched(g, row, deliveries)  BY <1>16, <2>1 DEF Batched
  <2> QED  BY <1>16, <2>1, <2>2, <2>4, <2>5 DEF Publishes
<1>18. ASSUME h.read = row, Redelivers(h, row, deliveries)
       PROVE  g.read = row /\ Redelivers(g, row, deliveries)
  <2>1. PICK d \in Stored(deliveries) : Redelivered(h, row, d) /\ Settles(h, row, <<>>, <<>>)
    BY <1>1, <1>18 DEF Redelivers
  <2>2. g.read = row /\ st = Reached(row.status, <<>>) /\ Settles(g, row, <<>>, path)
    BY <1>15, <1>18, <2>1
  <2>3. st = row.status  BY <2>2 DEF Reached
  <2>4. path = IF row.status = "publishing"
               THEN Life!Reconcile(Overlay(deliveries, g.changed)) ELSE <<>>
    BY <1>6, <1>16, <2>3
  <2>5. Redelivered(g, row, d)  BY <1>16, <2>1 DEF Redelivered
  <2> QED  BY <1>16, <2>1, <2>2, <2>4, <2>5 DEF Redelivers
<1>19. ASSUME Faithful(h, row, deliveries)  PROVE Faithful(g, row, deliveries)
  <2>1. Publishes(h, row, deliveries) \/ Redelivers(h, row, deliveries)
    BY <1>1, <1>19 DEF Faithful, Saves, Submits, Returns, Approves, Completes, NothingSent
  <2> QED  BY <1>17, <1>18, <1>19, <2>1 DEF Faithful
<1> QED  BY <1>2, <1>7, <1>9, <1>10, <1>13, <1>14, <1>19, GoesOn DEF h, Follows
LEMMA OverrideKeeps ==
  ASSUME RInv, IInv', NEW s \in Sessions, Override(s)
  PROVE  RInv'
<1> DEFINE h    == session[s]
           open == InStatus({"sent", "failed"})
           ch   == [d \in open |-> "acknowledged"]
           rows == {DeliveryRow(d) : d \in open}
           f    == (IF h.walked = <<>> THEN <<>> ELSE <<RequestRow>>) \o SetToSeq(rows)
           g    == Overridden(h, open)
<1>1. h \in Handlers /\ h.next = "override" /\ deliveries \in Deliveries
  BY AtFacts DEF RInv, Override
<1>2. session' = [session EXCEPT ![s] = g] /\ UNCHANGED <<row, deliveries, events, started>>
  BY DEF Override
<1>3. open = Unsettled(deliveries)  BY DEF InStatus, Existing, Unsettled, Stored
<1> HIDE DEF open
<1>4. open \in SUBSET Delivery /\ IsFiniteSet(open)
  BY <1>1, <1>3, StoredFinite, FS_Subset DEF Unsettled
<1>5. ch \in Changes /\ DOMAIN ch = open /\ \A d \in open : ch[d] = "acknowledged"
  <2>1. ch \in [open -> Life!DeliveryStatus]  BY DEF Life!DeliveryStatus
  <2> QED  BY <1>4, <2>1 DEF Changes
<1>6. f \in Seq(Rows)
  <2> DEFINE name == [d \in open |-> DeliveryRow(d)]
  <2>1. name \in Surjection(open, rows)
    BY DEF Surjection
  <2>2. IsFiniteSet(rows)  BY <1>4, <2>1, FS_Surjection
  <2>3. rows \subseteq Rows  BY <1>4, RowsDiffer
  <2> HIDE DEF rows
  <2>4. SetToSeq(rows) \in Seq(Rows)  BY <2>2, <2>3, SetToSeqType, SeqMonotonic
  <2>5. <<>> \in Seq(Rows) /\ <<RequestRow>> \in Seq(Rows)  BY RowsDiffer
  <2> QED  BY <2>4, <2>5
<1> HIDE DEF ch, f
<1>7. /\ g \in Handlers
      /\ g.next = "commit" /\ g.read = h.read /\ g.now = h.now
      /\ g.changed = ch /\ g.walked = h.walked /\ g.saver = h.saver /\ g.alone = h.alone
  <2>1. g = Given(h, ch, f)  BY DEF Overridden, Given, ch, f
  <2> HIDE DEF g
  <2>2. Given(h, ch, f).saver = h.saver /\ Given(h, ch, f).alone = h.alone
    BY <1>1 DEF Handlers, Given
  <2> QED  BY <1>1, <1>5, <1>6, <2>1, <2>2, GivenFacts
<1> HIDE DEF g
<1>8. s \in Open  BY <1>1, IdleFacts DEF Open
<1>9. Short(h) /\ Worded(h, row)  BY <1>8 DEF RInv, Counted, HasText, Short
<1>10. Short(g) /\ Worded(g, row)  BY <1>1, <1>7, <1>9 DEF Short, Worded
<1> HIDE DEF h
<1>11. ASSUME Faithful(h, row, deliveries)  PROVE Faithful(g, row, deliveries)
  <2>1. Completes(h, row, deliveries) /\ h.read = row
    BY <1>1, <1>11
    DEF Faithful, Saves, Submits, Returns, Approves, Publishes, Redelivers, NothingSent
  <2>2. Went(g, row, OverridePath(row.status)) /\ SameSignature(g, row) /\ g.now.published = TRUE
    BY <1>7, <2>1 DEF Completes, Went, SameSignature, SameText
  <2>3. Completes(g, row, deliveries)
    BY <1>3, <1>5, <1>7, <2>1, <2>2 DEF Completes
  <2> QED  BY <1>7, <2>1, <2>3 DEF Faithful
<1> QED  BY <1>2, <1>7, <1>8, <1>10, <1>11, GoesOn DEF h
-----------------------------------------------------------------------------
(***************************************************************************)
(* The handlers end.                                                       *)
(***************************************************************************)
LEMMA Finishes ==
  ASSUME RInv, IInv', NEW s \in Open,
         session' = [session EXCEPT ![s] = Idle], started' = started,
         Len(events') <= Len(events) + 2,
         deliveries' # <<>> => deliveries # <<>> \/ Open # {},
         row.text # None => row'.text # None,
         Stamped(row') => row'.text # None
  PROVE  RInv'
<1>1. DOMAIN session = Sessions /\ s \in Sessions  BY OpenFacts DEF RInv, IInv
<1>2. session'[s] = Idle /\ \A t \in Sessions \ {s} : session'[t] = session[t]  BY <1>1
<1>3. Open' = Open \ {s}  BY <1>1, <1>2 DEF Open
<1>4. Counted'
  <2>1. \A t \in Open \ {s} : Short(session'[t])
    BY <1>1, <1>2 DEF RInv, Counted, Open, Short
  <2>2. IsFiniteSet(Open) /\ Len(events) + 2 * Cardinality(Open) <= 2 * started
    BY DEF RInv, Counted
  <2>3. IsFiniteSet(Open \ {s}) /\ Cardinality(Open \ {s}) = Cardinality(Open) - 1
    BY <2>2, FS_RemoveElement
  <2>4. Cardinality(Open) \in Nat  BY <2>2, FS_CardinalityType
  <2>5. Len(events) \in Nat /\ Len(events') \in Nat /\ started \in Nat
    BY SessionsAssumption DEF RInv, IInv, Committed
  <2>6. Len(events') + 2 * Cardinality(Open \ {s}) <= 2 * started
    BY <2>2, <2>3, <2>4, <2>5
  <2> QED  BY <1>3, <2>1, <2>3, <2>6 DEF Counted, Short
<1>5. HasText'
  <2>1. ASSUME NEW t \in Open \ {s}  PROVE Worded(session'[t], row')
    <3>1. session'[t] = session[t]  BY <1>2 DEF Open
    <3>2. Worded(session[t], row)  BY DEF RInv, HasText
    <3> QED  BY <3>1, <3>2 DEF Worded
  <2> QED  BY <1>3, <2>1 DEF HasText
<1>6. HasStaff'  BY <1>3 DEF RInv, HasStaff, Staffed
<1>7. AloneIsFaithful'
  <2>1. ASSUME NEW t \in Open \ {s}  PROVE session'[t].alone = session[t].alone /\ ~ session[t].alone
    <3>1. session'[t] = session[t]  BY <1>2 DEF Open
    <3>2. Open # {t}  OBVIOUS
    <3> QED  BY <3>1, <3>2 DEF RInv, AloneIsFaithful
  <2> QED  BY <1>3, <2>1 DEF AloneIsFaithful
<1> QED  BY <1>4, <1>5, <1>6, <1>7 DEF RInv

LEMMA FailKeeps ==
  ASSUME RInv, IInv', NEW s \in Sessions, Fail(s)
  PROVE  RInv'
<1>1. s \in Open  BY DEF Fail, Open
<1>2. /\ session' = [session EXCEPT ![s] = Idle]
      /\ UNCHANGED <<row, deliveries, events, handed, savers, started>>
  BY DEF Fail
<1>3. Len(events') <= Len(events) + 2
  <2>1. Len(events) \in Nat  BY DEF RInv, IInv, Committed
  <2> QED  BY <1>2, <2>1
<1>4. Stamped(row') => row'.text # None  BY <1>2 DEF RInv, HasText
<1> QED  BY <1>1, <1>2, <1>3, <1>4, Finishes

LEMMA CommitKeeps ==
  ASSUME RInv, IInv', NEW s \in Sessions, Commit(s)
  PROVE  RInv'
<1> DEFINE h == session[s]
<1>1. h \in Handlers /\ h.next = "commit" /\ row \in Columns
  BY AtFacts DEF RInv, Commit
<1>2. /\ row' = [c \in DOMAIN row |-> IF c \in Written(h) THEN h.now[c] ELSE row[c]]
      /\ events' = events \o h.walked
      /\ session' = [session EXCEPT ![s] = Idle]
      /\ UNCHANGED <<handed, started>>
  BY Zenon DEF Commit
<1>3. s \in Open  BY <1>1, IdleFacts DEF Open
<1>4. Short(h) /\ Worded(h, row)  BY <1>3 DEF RInv, Counted, HasText, Short
<1> HIDE DEF h
<1>5. Len(events') <= Len(events) + 2
  <2>1. Len(h.walked) <= 2  BY <1>1, <1>4 DEF Short
  <2>2. events \in Seq(Events) /\ h.walked \in Seq(Events)
    BY <1>1 DEF Handlers, RInv, IInv, Committed
  <2>3. Len(events') = Len(events) + Len(h.walked)  BY <1>2, <2>2, ConcatProperties
  <2>4. Len(events) \in Nat /\ Len(h.walked) \in Nat  BY <2>2, LenProperties
  <2> QED  BY <2>1, <2>3, <2>4
<1>6. /\ row'.text = (IF "text" \in Written(h) THEN h.now.text ELSE row.text)
      /\ row'.approver = (IF "approver" \in Written(h) THEN h.now.approver ELSE row.approver)
      /\ row'.published = (IF "published" \in Written(h) THEN h.now.published ELSE row.published)
      /\ "text" \in Written(h) => h.now.text # h.read.text
  <2>1. DOMAIN row = {"status", "text", "printed", "preparer", "approver", "published"}
    BY <1>1 DEF Columns
  <2> QED  BY <1>2, <2>1 DEF Written
<1>7. row.text # None => row'.text # None  BY <1>4, <1>6 DEF Worded
<1>8. Stamped(row') => row'.text # None
  <2>1. Stamped(row') => Stamped(row) \/ Stamped(h.now)  BY <1>6 DEF Stamped
  <2> QED  BY <1>4, <1>7, <2>1 DEF Worded, RInv, HasText
<1> QED  BY <1>2, <1>3, <1>5, <1>7, <1>8, Finishes

LEMMA ReceivedKeeps ==
  ASSUME RInv, IInv', Received
  PROVE  RInv'
<1>1. /\ row' = [row EXCEPT !.status = "received"] /\ row \in Columns /\ row.status = None
      /\ UNCHANGED <<deliveries, events, session, handed, savers, started>>
  BY DEF Received, RInv, IInv, Committed
<1>2. Open = {} /\ Open' = {}
  BY <1>1 DEF RInv, IInv, Sound, Founded, Open
<1>3. row'.text = row.text /\ row'.approver = row.approver /\ row'.published = row.published
  BY <1>1 DEF Columns
<1>4. Counted'  BY <1>1, <1>2 DEF RInv, Counted
<1>5. HasText'  BY <1>2, <1>3 DEF RInv, HasText, Stamped
<1>6. HasStaff'  BY <1>1, <1>2 DEF RInv, HasStaff, Staffed
<1>7. AloneIsFaithful'  BY <1>2 DEF AloneIsFaithful
<1> QED  BY <1>4, <1>5, <1>6, <1>7 DEF RInv

-----------------------------------------------------------------------------
(***************************************************************************)
(* The invariant, and the refinement that follows from it.                 *)
(***************************************************************************)
LEMMA InitRInv == Init => RInv
<1> SUFFICES ASSUME Init  PROVE RInv
  OBVIOUS
<1>1. IInv  BY InitIInv
<1>2. Open = {}  BY DEF Init, Open
<1>3. Counted
  <2>1. IsFiniteSet({}) /\ Cardinality({}) = 0  BY FS_EmptySet
  <2>2. events = <<>> /\ started = 0  BY DEF Init
  <2> QED  BY <1>2, <2>1, <2>2 DEF Counted
<1>4. HasText  BY <1>2 DEF Init, HasText, Stamped
<1>5. HasStaff  BY <1>2 DEF Init, HasStaff
<1>6. AloneIsFaithful  BY <1>2 DEF AloneIsFaithful
<1> QED  BY <1>1, <1>3, <1>4, <1>5, <1>6 DEF RInv

LEMMA NextRInv == RInv /\ [Next]_vars => RInv'
<1> SUFFICES ASSUME RInv, [Next]_vars  PROVE RInv'
  OBVIOUS
<1>0. IInv'  BY NextIInv DEF RInv
<1>1. CASE Received  BY <1>0, <1>1, ReceivedKeeps
<1>2. ASSUME NEW s \in Sessions, NEW u \in Users, Start(s, u)  PROVE RInv'
  <2>1. ASSUME NEW text \in Texts, SaveDraft(s, u, text)  PROVE RInv'
    BY <1>0, <2>1, SaveDraftKeeps
  <2>2. CASE Submit(s, u)          BY <1>0, <2>2, SubmitKeeps
  <2>3. CASE RequestChanges(s, u)  BY <1>0, <2>3, RequestChangesKeeps
  <2>4. CASE Approve(s, u)         BY <1>0, <2>4, ApproveKeeps
  <2>5. CASE Publish(s, u)         BY <1>0, <2>5, PublishKeeps
  <2>6. CASE MarkPublished(s, u)   BY <1>0, <2>6, MarkPublishedKeeps
  <2>7. ASSUME NEW d \in Existing, RetryDelivery(s, u, d)  PROVE RInv'
    BY <1>0, <2>7, RetryDeliveryKeeps
  <2> QED  BY <1>2, <2>1, <2>2, <2>3, <2>4, <2>5, <2>6, <2>7 DEF Start
<1>3. ASSUME NEW s \in Sessions, NEW d \in Existing, AcknowledgeDelivery(s, d)  PROVE RInv'
  BY <1>0, <1>3, AcknowledgeDeliveryKeeps
<1>4. ASSUME NEW s \in Sessions, Continue(s)  PROVE RInv'
  <2>1. CASE Flush(s)      BY <1>0, <2>1, FlushKeeps
  <2>2. CASE Send(s)       BY <1>0, <2>2, SendKeeps
  <2>3. CASE Reconcile(s)  BY <1>0, <2>3, ReconcileKeeps
  <2>4. CASE Override(s)   BY <1>0, <2>4, OverrideKeeps
  <2>5. CASE Commit(s)     BY <1>0, <2>5, CommitKeeps
  <2>6. CASE EndedByDatabase(s)  BY <1>0, <2>6, FailKeeps DEF EndedByDatabase
  <2> QED  BY <1>4, <2>1, <2>2, <2>3, <2>4, <2>5, <2>6 DEF Continue
<1>5. ASSUME NEW s \in Sessions, Fail(s)  PROVE RInv'
  BY <1>0, <1>5, FailKeeps
<1>6. CASE UNCHANGED vars
  <2>1. IInv'  BY <1>0
  <2> QED  BY <1>6, <2>1
      DEF vars, RInv, Counted, HasText, HasStaff, Staffed, AloneIsFaithful, Open
<1> QED  BY <1>1, <1>2, <1>3, <1>4, <1>5, <1>6 DEF Next
\* The trail, the NOTAM, the deliveries and the preparers are those of the
\* committed state: what leaves it alone is no step of NotamLifecycle.
LEMMA LifeUnchanged ==
  ASSUME UNCHANGED <<row, deliveries, events, savers>>
  PROVE  UNCHANGED Life!vars
BY DEF Life!vars, NotamOf

LEMMA ReceivedIsLife ==
  ASSUME IInv, Received
  PROVE  Life!Next
<1> DEFINE R == {TheRequest}
           status0 == [r \in R |-> row.status]
           status1 == [r \in R |-> row'.status]
           trail0 == [r \in R |-> IF row.status = None THEN <<>>
                        ELSE <<"received">> \o [i \in DOMAIN events |-> events[i].to]]
           trail1 == [r \in R |-> IF row'.status = None THEN <<>>
                        ELSE <<"received">> \o [i \in DOMAIN events' |-> events'[i].to]]
<1>1. /\ row' = [row EXCEPT !.status = "received"] /\ row \in Columns /\ row.status = None
      /\ UNCHANGED <<deliveries, events, savers>> /\ events = <<>>
  BY DEF Received, IInv, Committed
<1>2. row'.status = "received" /\ "received" # None /\ NotamOf(row') = NotamOf(row)
  BY <1>1, NoneAssumption DEF Columns, NotamOf, WorkflowStatus
<1>3. status1 = [status0 EXCEPT ![TheRequest] = "received"]  BY <1>2
<1>4. trail1 = [trail0 EXCEPT ![TheRequest] = <<"received">>]
  <2>1. <<"received">> \o Entered(events') = <<"received">>
    <3>1. Entered(<<>>) = <<>>  BY DEF Entered
    <3>2. <<"received">> \o <<>> = <<"received">>  OBVIOUS
    <3> QED  BY <1>1, <3>1, <3>2
  <2>2. trail1 = [r \in R |-> <<"received">>]  BY <1>2, <2>1 DEF Entered
  <2> HIDE DEF trail1
  <2> QED  BY <2>2
<1>5. status0[TheRequest] = None  BY <1>1
<1>6. Life!CreateRequest(TheRequest)
  BY <1>1, <1>2, <1>3, <1>4, <1>5 DEF Life!CreateRequest
<1> QED  BY <1>6 DEF Life!Next

LEMMA InitIsLife == Init => Life!Init
<1> SUFFICES ASSUME Init  PROVE Life!Init
  OBVIOUS
<1>1. NotamOf(row) = [exists |-> FALSE]  BY DEF Init, NotamOf
<1> QED  BY <1>1 DEF Init, Life!Init, Life!NoNotam

LEMMA StepIsLife ==
  ASSUME RInv, [Next]_vars, \A s \in Sessions : session[s] # Idle => session[s].alone
  PROVE  Life!Next \/ UNCHANGED Life!vars
<1>1. CASE Received  BY <1>1, ReceivedIsLife DEF RInv
<1>2. ASSUME NEW s \in Sessions, NEW u \in Users, Start(s, u)
      PROVE  UNCHANGED <<row, deliveries, events, savers>>
  <2>1. \A path, h : Begin(s, path, h) => UNCHANGED <<row, deliveries, events, savers>>
    BY DEF Begin
  <2>2. \E path, h : Begin(s, path, h)
    BY <1>2, Zenon DEF Start, SaveDraft, Submit, RequestChanges, Approve, Publish,
                      MarkPublished, RetryDelivery
  <2> QED  BY <2>1, <2>2, Zenon
<1>3. ASSUME NEW s \in Sessions, NEW d \in Existing, AcknowledgeDelivery(s, d)
      PROVE  UNCHANGED <<row, deliveries, events, savers>>
  BY <1>3 DEF AcknowledgeDelivery, Begin
<1>4. ASSUME NEW s \in Sessions, Commit(s)  PROVE Life!Next
  <2>1. session[s].alone  BY <1>4, IdleFacts DEF Commit, At
  <2> QED  BY <1>4, <2>1, AloneIsLife DEF RInv
<1>5. ASSUME NEW s \in Sessions, Flush(s) \/ Send(s) \/ Reconcile(s) \/ Override(s) \/ Fail(s)
      PROVE  UNCHANGED <<row, deliveries, events, savers>>
  <2>1. CASE Flush(s)      BY <2>1, Zenon DEF Flush
  <2>2. CASE Send(s)       BY <2>2, Zenon DEF Send
  <2>3. CASE Reconcile(s)  BY <2>3, Zenon DEF Reconcile
  <2>4. CASE Override(s)   BY <2>4, Zenon DEF Override
  <2>5. CASE Fail(s)       BY <2>5, Zenon DEF Fail
  <2> QED  BY <1>5, <2>1, <2>2, <2>3, <2>4, <2>5
<1>6. CASE UNCHANGED vars  BY <1>6, LifeUnchanged DEF vars
<1> QED  BY <1>1, <1>2, <1>3, <1>4, <1>5, <1>6, LifeUnchanged DEF Next, Continue, EndedByDatabase

\* A handler that no other overlaps, rolled back or not, is one step of
\* NotamLifecycle (routers/notams.py, services/workflow.py), whatever text,
\* status or deliveries those that did overlap have left behind: what holds of
\* every step of NotamLifecycle holds of it.
THEOREM ImplementsLifecycleHolds == Spec => ImplementsLifecycle
<1>1. Init => RInv  BY InitRInv
<1>2. RInv /\ [Next]_vars => RInv'  BY NextRInv
<1>3. Init => Life!Init  BY InitIsLife
<1>4. RInv /\ [Next]_vars =>
        [(\A s \in Sessions : session[s] # Idle => session[s].alone) =>
           Life!Next \/ UNCHANGED Life!vars]_vars
  BY StepIsLife
<1> QED  BY <1>1, <1>2, <1>3, <1>4, PTL DEF Spec, ImplementsLifecycle

=============================================================================
