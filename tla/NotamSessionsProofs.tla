------------------------- MODULE NotamSessionsProofs -------------------------
(***************************************************************************)
(* What NotamSessions guarantees for any number of database sessions,      *)
(* however they interleave.                                                *)
(***************************************************************************)
EXTENDS NotamSessions, TLAPS, FiniteSetTheorems, SequenceTheorems

-----------------------------------------------------------------------------
(***************************************************************************)
(* The type of a session that runs a handler.                              *)
(***************************************************************************)
Deliveries == Seq([Channels -> Life!DeliveryStatus])
Delivery   == Nat \X Channels
Changes    == UNION {[S -> Life!DeliveryStatus] : S \in SUBSET Delivery}
Events     == [from : WorkflowStatus, to : WorkflowStatus]
Rows       == {RequestRow, NotamRow} \cup {DeliveryRow(d) : d \in Delivery}

Handlers == [next : {"send", "reconcile", "override", "commit"},
             read : Columns, now : Columns, target : Delivery \cup {None},
             saver : Users \cup {None}, alone : BOOLEAN, changed : Changes,
             walked : Seq(Events), flushing : Seq(Rows), locked : SUBSET Rows]

(***************************************************************************)
(* The inductive invariant: what a session h that runs a handler relies    *)
(* on, when the committed columns are r and the committed deliveries ds.   *)
(***************************************************************************)

\* Handlers that may give the NOTAM to a channel or leave a signed status.
Signs(h) == \/ h.next \in {"send", "reconcile", "override"}
            \/ h.now.status \in Life!Signed
            \/ DOMAIN h.changed # {}

\* Its copy of the columns: the audit events lead to its status; approval and
\* publication stamps are never taken back, neither by it nor behind its back.
Founded(h, r) ==
  /\ r.status # None
  /\ h.read.status \in WorkflowStatus
  /\ h.now.status \in WorkflowStatus
  /\ h.walked = <<>> => h.now.status = h.read.status
  /\ h.walked # <<>> => h.walked[Len(h.walked)].to = h.now.status
  /\ h.walked # <<>> /\ h.now.status = "published" => h.now.published
  /\ h.read.published => h.now.published /\ r.published
  /\ h.read.approver # None => h.now.approver # None /\ r.approver # None
  /\ Signs(h) => h.now.approver # None

\* Its deliveries: committed ones, or the next publication, which it has to
\* itself because it has locked the request.
Stored(ds) == {<<i, c>> : i \in DOMAIN ds, c \in Channels}
Batch(ds)  == {<<Len(ds) + 1, c>> : c \in Channels}

Addressed(h, ds) ==
  /\ h.target # None => h.target \in Stored(ds)
  /\ \/ DOMAIN h.changed \subseteq Stored(ds)
     \/ DOMAIN h.changed = Batch(ds) /\ RequestRow \in h.locked

\* The order in which handlers lock rows.
Rank(x) == IF x = NotamRow THEN 3 ELSE IF x = RequestRow THEN 2 ELSE 1

Overrides(h) == h.now.status = "published" /\ NotamRow \in h.locked

Ordered(locked, flushing) ==
  \A i \in DOMAIN flushing :
    /\ flushing[i] \in locked \/ \A l \in locked : Rank(l) < Rank(flushing[i])
    /\ \A j \in DOMAIN flushing : i < j => Rank(flushing[i]) < Rank(flushing[j])

Disciplined(h) ==
  /\ Overrides(h) \/ Ordered(h.locked, h.flushing)
  /\ h.next = "send" /\ h.target = None =>
       RequestRow \in h.locked \/ h.flushing = <<RequestRow>>
  /\ h.next = "send" /\ h.target # None => h.locked = {} /\ h.flushing = <<>>
  /\ h.next \in {"send", "reconcile"} =>
       NotamRow \notin h.locked /\ \A i \in DOMAIN h.flushing : h.flushing[i] # NotamRow
  /\ h.next = "override" =>
       /\ h.now.status = "published"
       /\ NotamRow \in h.locked \/ (h.locked = {} /\ h.flushing = <<NotamRow>>)

Sound(h, r, ds) ==
  \/ h = Idle
  \/ h \in Handlers /\ Founded(h, r) /\ Addressed(h, ds) /\ Disciplined(h)

\* The committed state, of which no session is needed to speak.
Committed(r, ds, ev) ==
  /\ r \in Columns
  /\ ds \in Deliveries
  /\ ev \in Seq(Events)
  /\ r.status = None => ev = <<>>
  /\ r.status # None => r.status = IF ev = <<>> THEN "received" ELSE ev[Len(ev)].to
  /\ r.status = "published" => r.published
  /\ r.status \in Life!Signed \/ ds # <<>> => r.approver # None

IInv ==
  /\ Committed(row, deliveries, events)
  /\ DOMAIN session = Sessions
  /\ \A s \in Sessions : Sound(session[s], row, deliveries)
  /\ \A s, t \in Sessions : s # t => session[s].locked \cap session[t].locked = {}
  /\ UnsignedIsNotHanded
  /\ savers \subseteq Users
  /\ started \in 0 .. MaxHandlers

-----------------------------------------------------------------------------
(***************************************************************************)
(* Facts about rows, walks, columns and sequences.                         *)
(***************************************************************************)
LEMMA RowsDiffer ==
  /\ RequestRow # NotamRow
  /\ \A d \in Delivery : DeliveryRow(d) # RequestRow /\ DeliveryRow(d) # NotamRow
  /\ RequestRow \in Rows /\ NotamRow \in Rows
  /\ \A d \in Delivery : DeliveryRow(d) \in Rows
BY DEF RequestRow, NotamRow, DeliveryRow, Rows

\* The audit events of a walk, the last of which enters the status it reaches.
LEMMA WalkFacts ==
  ASSUME NEW from \in WorkflowStatus, NEW path \in Seq(WorkflowStatus)
  PROVE  /\ Walk(from, path) \in Seq(Events)
         /\ path = <<>> => Walk(from, path) = <<>> /\ Reached(from, path) = from
         /\ path # <<>> => /\ Walk(from, path) # <<>>
                           /\ Walk(from, path)[Len(Walk(from, path))].to = Reached(from, path)
         /\ Reached(from, path) \in WorkflowStatus
<1> DEFINE w == Walk(from, path)
<1>1. DOMAIN path = 1 .. Len(path) /\ Len(path) \in Nat  OBVIOUS
<1>2. \A i \in 1 .. Len(path) :
        [from |-> IF i = 1 THEN from ELSE path[i - 1], to |-> path[i]] \in Events
  BY <1>1 DEF Events
<1>3. w \in Seq(Events) /\ Len(w) = Len(path) /\ \A i \in 1 .. Len(path) : w[i].to = path[i]
  BY <1>1, <1>2 DEF Walk
<1> HIDE DEF w
<1>4. ASSUME path = <<>>  PROVE w = <<>> /\ Reached(from, path) = from
  BY <1>3, <1>4 DEF Reached
<1>5. ASSUME path # <<>>
      PROVE  w # <<>> /\ w[Len(w)].to = Reached(from, path) /\ Reached(from, path) \in WorkflowStatus
  <2>1. Len(path) \in 1 .. Len(path)  BY <1>5
  <2> QED  BY <1>3, <1>5, <2>1 DEF Reached
<1> QED  BY <1>3, <1>4, <1>5 DEF w

\* What is left of a sequence when its head is taken.
LEMMA TailFacts ==
  ASSUME NEW S, NEW q \in Seq(S), q # <<>>
  PROVE  /\ Head(q) \in S /\ Head(q) = q[1] /\ 1 \in DOMAIN q
         /\ Tail(q) \in Seq(S)
         /\ \A i \in DOMAIN Tail(q) : i + 1 \in DOMAIN q /\ Tail(q)[i] = q[i + 1]
         /\ DOMAIN Tail(q) \subseteq Nat \ {0} /\ DOMAIN q \subseteq Nat \ {0}
OBVIOUS

LEMMA PairFacts ==
  ASSUME NEW S, NEW a \in S, NEW b \in S
  PROVE  <<a>> \o <<b>> = <<a, b>>
<1> DEFINE q == <<a>> \o <<b>>
           p == <<a, b>>
<1>1. q \in Seq(S) /\ Len(q) = 2 /\ q[1] = a /\ q[2] = b  OBVIOUS
<1>2. p \in Seq(S) /\ Len(p) = 2 /\ p[1] = a /\ p[2] = b  OBVIOUS
<1> HIDE DEF p, q
<1>3. \A i \in 1 .. Len(q) : q[i] = p[i]  BY <1>1, <1>2
<1>4. q = p  BY <1>1, <1>2, <1>3, SeqEqual
<1> QED  BY <1>4 DEF p, q

\* SetToSeq of the community modules gives a sequence over a finite set.
LEMMA SetToSeqType ==
  ASSUME NEW S, IsFiniteSet(S)
  PROVE  SetToSeq(S) \in Seq(S)
<1> DEFINE n == Cardinality(S)
<1>1. n \in Nat /\ ExistsBijection(1 .. n, S)  BY FS_CardinalityType
<1>2. \E f \in [1 .. n -> S] : IsInjective(f)
  BY <1>1 DEF ExistsBijection, Bijection, Injection
<1>3. SetToSeq(S) \in [1 .. n -> S]  BY <1>2 DEF SetToSeq
<1> HIDE DEF n
<1> QED  BY <1>1, <1>3

\* The deliveries that are committed are finitely many.
LEMMA StoredFinite ==
  ASSUME NEW ds \in Deliveries
  PROVE  IsFiniteSet(Stored(ds)) /\ Stored(ds) \subseteq Delivery
<1>1. DOMAIN ds = 1 .. Len(ds) /\ Len(ds) \in Nat  BY DEF Deliveries
<1>2. Stored(ds) = (1 .. Len(ds)) \X Channels  BY <1>1 DEF Stored
<1>3. IsFiniteSet(1 .. Len(ds))  BY <1>1, FS_Interval
<1>4. IsFiniteSet(Stored(ds))  BY <1>2, <1>3, ChannelsAssumption, FS_Product
<1> QED  BY <1>1, <1>2, <1>4 DEF Delivery

\* Columns with the changes of a session over them.
LEMMA MergedColumns ==
  ASSUME NEW a \in Columns, NEW b \in Columns, NEW W
  PROVE  LET m == [c \in DOMAIN a |-> IF c \in W THEN b[c] ELSE a[c]]
         IN /\ m \in Columns
            /\ m.status = (IF "status" \in W THEN b.status ELSE a.status)
            /\ m.approver = (IF "approver" \in W THEN b.approver ELSE a.approver)
            /\ m.published = (IF "published" \in W THEN b.published ELSE a.published)
BY DEF Columns

-----------------------------------------------------------------------------
(***************************************************************************)
(* Steps that commit nothing.                                              *)
(***************************************************************************)
LEMMA IdleFacts ==
  /\ Idle.next = "idle" /\ Idle.locked = {} /\ Idle.flushing = <<>>
  /\ \A h \in Handlers : h # Idle /\ h.next # "idle"
BY DEF Idle, Handlers

\* A session goes from one sound state to another, and locks nothing that
\* another session has locked.
LEMMA SessionStep ==
  ASSUME IInv, NEW s \in Sessions, NEW g, Sound(g, row, deliveries),
         session' = [session EXCEPT ![s] = g],
         \A t \in Sessions \ {s} : g.locked \cap session[t].locked = {},
         UNCHANGED <<row, deliveries, events, savers, started>>,
         UnsignedIsNotHanded'
  PROVE  IInv'
<1>1. DOMAIN session' = Sessions  BY DEF IInv
<1>2. session'[s] = g /\ \A t \in Sessions \ {s} : session'[t] = session[t]
  BY DEF IInv
<1>3. \A t \in Sessions : Sound(session'[t], row, deliveries)  BY <1>2 DEF IInv
<1>4. \A t, u \in Sessions : t # u => session'[t].locked \cap session'[u].locked = {}
  BY <1>2 DEF IInv
<1> QED  BY <1>1, <1>3, <1>4 DEF IInv

\* The history variable alone is nothing a handler relies on.
LEMMA OvertakenFacts ==
  ASSUME NEW r, NEW ds, NEW h, Sound(h, r, ds)
  PROVE  Sound(Overtaken(h), r, ds) /\ Overtaken(h).locked = h.locked
<1>1. CASE h = Idle  BY <1>1 DEF Overtaken
<1>2. CASE h # Idle
  <2> DEFINE g == [h EXCEPT !.alone = FALSE]
  <2>1. h \in Handlers /\ Founded(h, r) /\ Addressed(h, ds) /\ Disciplined(h)
    BY <1>2 DEF Sound
  <2>2. /\ g \in Handlers
        /\ g.next = h.next /\ g.read = h.read /\ g.now = h.now /\ g.target = h.target
        /\ g.changed = h.changed /\ g.walked = h.walked
        /\ g.flushing = h.flushing /\ g.locked = h.locked
    BY <2>1 DEF Handlers
  <2>3. Overtaken(h) = g  BY <1>2 DEF Overtaken
  <2> HIDE DEF g
  <2>4. Founded(g, r)  BY <2>1, <2>2 DEF Founded, Signs
  <2>5. Addressed(g, ds)  BY <2>1, <2>2 DEF Addressed
  <2>6. Disciplined(g)  BY <2>1, <2>2 DEF Disciplined, Overrides
  <2> QED  BY <2>2, <2>3, <2>4, <2>5, <2>6 DEF Sound
<1> QED  BY <1>1, <1>2

\* A handler that begins: the session gets a sound handler with no locks.
LEMMA BeginStep ==
  ASSUME IInv, NEW s \in Sessions, NEW path, NEW handler, Begin(s, path, handler),
         Sound(Begun(handler, path), row, deliveries), Begun(handler, path).locked = {}
  PROVE  IInv'
<1>1. session' = [t \in Sessions |->
        IF t = s THEN Begun(handler, path) ELSE Overtaken(session[t])]
  BY DEF Begin
<1>2. ASSUME NEW t \in Sessions
      PROVE  /\ Sound(session'[t], row, deliveries)
             /\ session'[t].locked \subseteq session[t].locked
  <2>1. CASE t = s  BY <1>1, <2>1
  <2>2. CASE t # s
    <3>1. session'[t] = Overtaken(session[t])  BY <1>1, <2>2
    <3>2. Sound(session[t], row, deliveries)  BY DEF IInv
    <3> QED  BY <3>1, <3>2, OvertakenFacts
  <2> QED  BY <2>1, <2>2
<1>3. \A t, u \in Sessions : t # u => session'[t].locked \cap session'[u].locked = {}
  BY <1>2 DEF IInv
<1>4. DOMAIN session' = Sessions  BY <1>1
<1>5. UNCHANGED <<row, deliveries, events, handed, savers>> /\ started' \in 0 .. MaxHandlers
  BY SessionsAssumption DEF Begin, IInv
<1> QED  BY <1>2, <1>3, <1>4, <1>5 DEF IInv, UnsignedIsNotHanded

\* An UPDATE locks its row, which no other session has locked.
LEMMA FlushStep ==
  ASSUME IInv, NEW s \in Sessions, Flush(s)
  PROVE  IInv'
<1> DEFINE h == session[s]
           x == Head(h.flushing)
           g == [h EXCEPT !.flushing = Tail(h.flushing), !.locked = h.locked \cup {x}]
<1>1. h # Idle  BY IdleFacts DEF Flush
<1>2. h \in Handlers /\ Founded(h, row) /\ Addressed(h, deliveries) /\ Disciplined(h)
  BY <1>1 DEF IInv, Sound
<1>3. h.flushing \in Seq(Rows) /\ h.flushing # <<>> /\ h.locked \in SUBSET Rows
  BY <1>2 DEF Flush, Handlers
<1>4. /\ x \in Rows /\ x = h.flushing[1] /\ 1 \in DOMAIN h.flushing
      /\ Tail(h.flushing) \in Seq(Rows)
      /\ \A i \in DOMAIN Tail(h.flushing) :
           i + 1 \in DOMAIN h.flushing /\ Tail(h.flushing)[i] = h.flushing[i + 1]
      /\ DOMAIN Tail(h.flushing) \subseteq Nat \ {0}
  BY <1>3, TailFacts
<1> HIDE DEF x
<1>5. /\ g \in Handlers
      /\ g.next = h.next /\ g.read = h.read /\ g.now = h.now /\ g.target = h.target
      /\ g.changed = h.changed /\ g.walked = h.walked
      /\ g.flushing = Tail(h.flushing) /\ g.locked = h.locked \cup {x}
  BY <1>2, <1>3, <1>4 DEF Handlers
<1>6. session' = [session EXCEPT ![s] = g]
  BY <1>2 DEF Flush, x
<1> HIDE DEF g
<1>7. Founded(g, row) /\ Addressed(g, deliveries)
  BY <1>2, <1>5 DEF Founded, Signs, Addressed
<1>8. Disciplined(g)
  <2>1. Overrides(g) \/ Ordered(g.locked, g.flushing)
    <3>1. CASE Overrides(h)  BY <1>5, <3>1 DEF Overrides
    <3>2. CASE Ordered(h.locked, h.flushing)
      <4>1. ASSUME NEW i \in DOMAIN g.flushing
            PROVE  /\ g.flushing[i] \in g.locked
                        \/ \A l \in g.locked : Rank(l) < Rank(g.flushing[i])
                   /\ \A j \in DOMAIN g.flushing : i < j => Rank(g.flushing[i]) < Rank(g.flushing[j])
        <5>1. i + 1 \in DOMAIN h.flushing /\ g.flushing[i] = h.flushing[i + 1] /\ i \in Nat \ {0}
          BY <1>4, <1>5
        <5>2. Rank(x) < Rank(g.flushing[i])  BY <1>4, <3>2, <5>1 DEF Ordered
        <5>3. g.flushing[i] \in h.locked \/ \A l \in h.locked : Rank(l) < Rank(g.flushing[i])
          BY <3>2, <5>1 DEF Ordered
        <5>4. ASSUME NEW j \in DOMAIN g.flushing, i < j
              PROVE  Rank(g.flushing[i]) < Rank(g.flushing[j])
          <6>1. j + 1 \in DOMAIN h.flushing /\ g.flushing[j] = h.flushing[j + 1] /\ j \in Nat
            BY <1>4, <1>5
          <6>2. i + 1 < j + 1  BY <5>1, <5>4, <6>1
          <6> QED  BY <3>2, <5>1, <6>1, <6>2 DEF Ordered
        <5> QED  BY <1>5, <5>2, <5>3, <5>4
      <4> QED  BY <4>1 DEF Ordered
    <3> QED  BY <1>2, <3>1, <3>2 DEF Disciplined
  <2>2. g.next = "send" => g.target = None
    BY <1>2, <1>3, <1>5 DEF Disciplined
  <2>3. g.next = "send" => RequestRow \in g.locked
    <3>1. h.flushing = <<RequestRow>> => x = RequestRow  BY <1>4
    <3> QED  BY <1>2, <1>5, <2>2, <3>1 DEF Disciplined
  <2>4. g.next \in {"send", "reconcile"} =>
          NotamRow \notin g.locked /\ \A i \in DOMAIN g.flushing : g.flushing[i] # NotamRow
    BY <1>2, <1>4, <1>5 DEF Disciplined
  <2>5. g.next = "override" => g.now.status = "published" /\ NotamRow \in g.locked
    <3>1. h.flushing = <<NotamRow>> => x = NotamRow  BY <1>4
    <3> QED  BY <1>2, <1>5, <3>1 DEF Disciplined
  <2> QED  BY <2>1, <2>2, <2>3, <2>4, <2>5 DEF Disciplined
<1>9. Sound(g, row, deliveries)  BY <1>5, <1>7, <1>8 DEF Sound
<1>10. \A t \in Sessions \ {s} : g.locked \cap session[t].locked = {}
  <2>1. \A t \in Sessions \ {s} : x \notin session[t].locked  BY DEF Flush, x
  <2> QED  BY <1>5, <2>1 DEF IInv
<1>11. UNCHANGED <<row, deliveries, events, handed, savers, started>>  BY DEF Flush
<1> QED  BY <1>6, <1>9, <1>10, <1>11, SessionStep DEF IInv, UnsignedIsNotHanded

\* A session that is rolled back releases its locks and leaves nothing.
LEMMA FailStep ==
  ASSUME IInv, NEW s \in Sessions, Fail(s)
  PROVE  IInv'
<1>1. Sound(Idle, row, deliveries)  BY DEF Sound
<1>2. \A t \in Sessions \ {s} : Idle.locked \cap session[t].locked = {}  BY IdleFacts
<1> QED  BY <1>1, <1>2, SessionStep DEF Fail, IInv, UnsignedIsNotHanded

-----------------------------------------------------------------------------
(***************************************************************************)
(* The handlers begin.                                                     *)
(***************************************************************************)

\* What the first part of a handler has to provide: h is its copy before the
\* walk, to the status st.
Ready(h, path, st) ==
  /\ h \in Handlers
  /\ h.read = row /\ h.now.status = row.status /\ h.locked = {}
  /\ row.published => h.now.published
  /\ row.approver # None => h.now.approver # None
  /\ path # <<>> /\ st = "published" => h.now.published
  /\ h.next \in {"send", "reconcile", "override"} => h.now.approver # None
  /\ st \in Life!Signed \/ DOMAIN h.changed # {} => h.now.approver # None
  /\ Addressed(h, deliveries)
  /\ Ordered({}, h.flushing)
  /\ h.next = "send" => h.flushing = IF h.target = None THEN <<RequestRow>> ELSE <<>>
  /\ h.next \in {"send", "reconcile"} => \A i \in DOMAIN h.flushing : h.flushing[i] # NotamRow
  /\ h.next = "override" => st = "published" /\ h.flushing = <<NotamRow>>

LEMMA ReadyStep ==
  ASSUME IInv, NEW s \in Sessions, NEW path \in Seq(WorkflowStatus), NEW h,
         Begin(s, path, h), Ready(h, path, Reached(row.status, path))
  PROVE  IInv'
<1> DEFINE st  == Reached(row.status, path)
           now == [h.now EXCEPT !.status = st]
           w   == Walk(row.status, path)
           g   == [h EXCEPT !.now = now, !.walked = w, !.alone = Quiet]
<1>1. row.status \in WorkflowStatus /\ row \in Columns
  BY DEF Begin, IInv, Committed, Columns
<1>2. /\ w \in Seq(Events)
      /\ path = <<>> => w = <<>> /\ st = row.status
      /\ path # <<>> => w # <<>> /\ w[Len(w)].to = st
      /\ st \in WorkflowStatus
  BY <1>1, WalkFacts
<1>3. h \in Handlers /\ h.now \in Columns  BY DEF Ready, Handlers
<1> HIDE DEF st, w
<1>4. /\ now \in Columns
      /\ now.status = st /\ now.approver = h.now.approver /\ now.published = h.now.published
  BY <1>2, <1>3 DEF Columns
<1>5. Quiet \in BOOLEAN  BY DEF Quiet
<1>6. Begun(h, path) = g
  <2>1. h.now.status = row.status  BY DEF Ready
  <2> QED  BY <1>3, <2>1 DEF Begun, Handlers, st, w
<1> HIDE DEF now
<1>7. /\ g \in Handlers
      /\ g.next = h.next /\ g.read = row /\ g.now = now /\ g.target = h.target
      /\ g.changed = h.changed /\ g.walked = w
      /\ g.flushing = h.flushing /\ g.locked = {}
  <2>1. h.read = row /\ h.locked = {}  BY DEF Ready
  <2> QED  BY <1>2, <1>3, <1>4, <1>5, <2>1 DEF Handlers
<1> HIDE DEF g
<1>8. Founded(g, row)
  BY <1>1, <1>2, <1>4, <1>7 DEF Founded, Signs, Ready, st, Begin
<1>9. Addressed(g, deliveries)  BY <1>7 DEF Ready, Addressed
<1>10. Disciplined(g)
  BY <1>4, <1>7 DEF Ready, Disciplined, st
<1>11. Sound(g, row, deliveries)  BY <1>7, <1>8, <1>9, <1>10 DEF Sound
<1> QED  BY <1>6, <1>7, <1>11, BeginStep

\* The rows a handler updates first.
LEMMA OrderedFacts ==
  /\ Ordered({}, <<>>)
  /\ \A x : Ordered({}, <<x>>)
  /\ Ordered({}, <<RequestRow, NotamRow>>)
<1>1. Ordered({}, <<>>)  BY DEF Ordered
<1>2. ASSUME NEW x  PROVE Ordered({}, <<x>>)
  <2>1. DOMAIN <<x>> = {1}  OBVIOUS
  <2> QED  BY <2>1 DEF Ordered
<1>3. Ordered({}, <<RequestRow, NotamRow>>)
  <2>1. DOMAIN <<RequestRow, NotamRow>> = {1, 2}  OBVIOUS
  <2>2. Rank(RequestRow) = 2 /\ Rank(NotamRow) = 3  BY RowsDiffer DEF Rank
  <2> QED  BY <2>1, <2>2 DEF Ordered
<1> QED  BY <1>1, <1>2, <1>3

\* The copy with which every handler starts.
LEMMA FreshFacts ==
  ASSUME IInv, row.status # None
  PROVE  /\ Fresh \in Handlers
         /\ row \in Columns /\ row.status \in WorkflowStatus
         /\ DOMAIN <<>> = {}
         /\ row.status \in Life!Signed \/ deliveries # <<>> => row.approver # None
<1>1. row \in Columns /\ row.status \in WorkflowStatus
  BY DEF IInv, Committed, Columns
<1>2. <<>> \in Changes
  <2>1. <<>> \in [{} -> Life!DeliveryStatus]  OBVIOUS
  <2>2. {} \in SUBSET Delivery  OBVIOUS
  <2> QED  BY <2>1, <2>2 DEF Changes
<1>3. <<>> \in Seq(Events) /\ <<>> \in Seq(Rows)  OBVIOUS
<1>4. Fresh \in Handlers  BY <1>1, <1>2, <1>3 DEF Fresh, Handlers
<1> QED  BY <1>1, <1>4 DEF IInv, Committed

LEMMA SubmitStep ==
  ASSUME IInv, NEW s \in Sessions, NEW u \in Users, Submit(s, u)
  PROVE  IInv'
<1> DEFINE h == [Fresh EXCEPT !.flushing = <<RequestRow>>]
           path == <<"review">>
<1>1. Begin(s, path, h) /\ row.status # None  BY DEF Submit, Begin
<1>2. path \in Seq(WorkflowStatus) /\ Reached(row.status, path) = "review"
  BY DEF WorkflowStatus, Reached
<1>3. <<RequestRow>> \in Seq(Rows)  BY RowsDiffer
<1>4. /\ h \in Handlers
      /\ h.read = row /\ h.now = row /\ h.locked = {} /\ h.next = "commit" /\ h.target = None
      /\ h.changed = <<>> /\ h.flushing = <<RequestRow>>
  BY <1>1, <1>3, FreshFacts DEF Fresh, Handlers
<1> HIDE DEF h, path
<1>5. Addressed(h, deliveries)  BY <1>4 DEF Addressed
<1>6. "review" \notin Life!Signed  BY DEF Life!Signed
<1>7. Ready(h, path, "review")
  BY <1>1, <1>4, <1>5, <1>6, FreshFacts, OrderedFacts DEF Ready
<1> QED  BY <1>1, <1>2, <1>7, ReadyStep

LEMMA RequestChangesStep ==
  ASSUME IInv, NEW s \in Sessions, NEW u \in Users, RequestChanges(s, u)
  PROVE  IInv'
<1> DEFINE h == [Fresh EXCEPT !.flushing = <<RequestRow>>]
           path == <<"changes_requested">>
<1>1. Begin(s, path, h) /\ row.status # None  BY DEF RequestChanges, Begin
<1>2. path \in Seq(WorkflowStatus) /\ Reached(row.status, path) = "changes_requested"
  BY DEF WorkflowStatus, Reached
<1>3. <<RequestRow>> \in Seq(Rows)  BY RowsDiffer
<1>4. /\ h \in Handlers
      /\ h.read = row /\ h.now = row /\ h.locked = {} /\ h.next = "commit" /\ h.target = None
      /\ h.changed = <<>> /\ h.flushing = <<RequestRow>>
  BY <1>1, <1>3, FreshFacts DEF Fresh, Handlers
<1> HIDE DEF h, path
<1>5. Addressed(h, deliveries)  BY <1>4 DEF Addressed
<1>6. "changes_requested" \notin Life!Signed  BY DEF Life!Signed
<1>7. Ready(h, path, "changes_requested")
  BY <1>1, <1>4, <1>5, <1>6, FreshFacts, OrderedFacts DEF Ready
<1> QED  BY <1>1, <1>2, <1>7, ReadyStep

LEMMA ApproveStep ==
  ASSUME IInv, NEW s \in Sessions, NEW u \in Users, Approve(s, u)
  PROVE  IInv'
<1> DEFINE now == [row EXCEPT !.approver = u]
           h == [Fresh EXCEPT !.now = now, !.flushing = <<RequestRow, NotamRow>>]
           path == <<"approved">>
<1>1. row.status # None  BY DEF Approve, Begin
<1>2. path \in Seq(WorkflowStatus) /\ Reached(row.status, path) = "approved"
  BY DEF WorkflowStatus, Reached
<1>3. <<RequestRow, NotamRow>> \in Seq(Rows)  BY RowsDiffer
<1>4. /\ now \in Columns /\ now.status = row.status /\ now.approver = u
      /\ now.published = row.published
  BY <1>1, FreshFacts DEF Columns
<1>5. Begin(s, path, h)
  <2>1. [Fresh EXCEPT !.now.approver = u, !.flushing = <<RequestRow, NotamRow>>] = h
    BY DEF Fresh
  <2> QED  BY <2>1 DEF Approve
<1> HIDE DEF now
<1>6. /\ h \in Handlers
      /\ h.read = row /\ h.now = now /\ h.locked = {} /\ h.next = "commit" /\ h.target = None
      /\ h.changed = <<>> /\ h.flushing = <<RequestRow, NotamRow>>
  BY <1>1, <1>3, <1>4, FreshFacts DEF Fresh, Handlers
<1> HIDE DEF h, path
<1>7. Addressed(h, deliveries)  BY <1>6 DEF Addressed
<1>8. u # None  BY NoneAssumption
<1>9. Ready(h, path, "approved")
  BY <1>1, <1>4, <1>6, <1>7, <1>8, FreshFacts, OrderedFacts DEF Ready
<1> QED  BY <1>2, <1>5, <1>9, ReadyStep

LEMMA SaveDraftStep ==
  ASSUME IInv, NEW s \in Sessions, NEW u \in Users, NEW text \in Texts, SaveDraft(s, u, text)
  PROVE  IInv'
<1> DEFINE path == DraftPath(row.status)
           n    == IF Drafted THEN 2 ELSE 1
           now  == [row EXCEPT !.text = text, !.preparer = u, !.printed = n]
           f    == (IF path = <<>> THEN <<>> ELSE <<RequestRow>>) \o <<NotamRow>>
           h    == [Fresh EXCEPT !.now = now, !.saver = u, !.flushing = f]
<1>1. row.status # None  BY DEF SaveDraft, Begin
<1>2. path \in Seq(WorkflowStatus) /\ Reached(row.status, path) = "draft"
  <2>1. row.status \in {"received", "triage", "draft", "changes_requested"}
    BY DEF SaveDraft, Life!Draftable
  <2>2. CASE row.status = "received"
    <3>1. path = <<"triage", "draft">>  BY <2>2 DEF DraftPath
    <3> QED  BY <3>1 DEF WorkflowStatus, Reached
  <2>3. CASE row.status \in {"triage", "changes_requested"}
    <3>1. path = <<"draft">>  BY <2>3 DEF DraftPath
    <3> QED  BY <3>1 DEF WorkflowStatus, Reached
  <2>4. CASE row.status = "draft"
    <3>1. path = <<>>  BY <2>4 DEF DraftPath
    <3>2. <<>> \in Seq(WorkflowStatus) /\ Reached(row.status, <<>>) = "draft"
      BY <2>4 DEF Reached
    <3> QED  BY <3>1, <3>2
  <2> QED  BY <2>1, <2>2, <2>3, <2>4
<1>3. f \in Seq(Rows) /\ Ordered({}, f)
  <2>1. f = <<NotamRow>> \/ f = <<RequestRow, NotamRow>>
    <3>1. <<>> \o <<NotamRow>> = <<NotamRow>>  OBVIOUS
    <3>2. <<RequestRow>> \o <<NotamRow>> = <<RequestRow, NotamRow>>  BY RowsDiffer, PairFacts
    <3>3. CASE path = <<>>  BY <3>1, <3>3
    <3>4. CASE path # <<>>  BY <3>2, <3>4
    <3> QED  BY <3>3, <3>4
  <2>2. <<NotamRow>> \in Seq(Rows) /\ <<RequestRow, NotamRow>> \in Seq(Rows)  BY RowsDiffer
  <2> QED  BY <2>1, <2>2, OrderedFacts
<1>4. /\ now \in Columns /\ now.status = row.status /\ now.approver = row.approver
      /\ now.published = row.published
  <2>1. n \in 0 .. 2  OBVIOUS
  <2> HIDE DEF n
  <2> QED  BY <1>1, <2>1, FreshFacts DEF Columns
<1>5. Begin(s, path, h)
  BY DEF SaveDraft, Fresh
<1> HIDE DEF now, f
<1>6. /\ h \in Handlers
      /\ h.read = row /\ h.now = now /\ h.locked = {} /\ h.next = "commit" /\ h.target = None
      /\ h.changed = <<>> /\ h.flushing = f
  BY <1>1, <1>3, <1>4, FreshFacts DEF Fresh, Handlers
<1> HIDE DEF h, path
<1>7. Addressed(h, deliveries)  BY <1>6 DEF Addressed
<1>8. "draft" \notin Life!Signed  BY DEF Life!Signed
<1>9. Ready(h, path, "draft")
  BY <1>1, <1>3, <1>4, <1>6, <1>7, <1>8, FreshFacts DEF Ready
<1> QED  BY <1>2, <1>5, <1>9, ReadyStep

LEMMA PublishStep ==
  ASSUME IInv, NEW s \in Sessions, NEW u \in Users, Publish(s, u)
  PROVE  IInv'
<1> DEFINE h == [Fresh EXCEPT !.flushing = <<RequestRow>>, !.next = "send"]
           path == <<"publishing">>
<1>1. Begin(s, path, h) /\ row.status # None  BY DEF Publish, Begin
<1>2. path \in Seq(WorkflowStatus) /\ Reached(row.status, path) = "publishing"
  BY DEF WorkflowStatus, Reached
<1>3. <<RequestRow>> \in Seq(Rows)  BY RowsDiffer
<1>4. /\ h \in Handlers
      /\ h.read = row /\ h.now = row /\ h.locked = {} /\ h.next = "send" /\ h.target = None
      /\ h.changed = <<>> /\ h.flushing = <<RequestRow>>
  BY <1>1, <1>3, FreshFacts DEF Fresh, Handlers
<1>5. row.approver # None
  <2>1. LegalPath(row.status, path)  BY <1>1 DEF Begin
  <2>2. 1 \in DOMAIN path /\ path[1] = "publishing"  OBVIOUS
  <2>3. "publishing" \in TRANSITIONS[row.status]  BY <2>1, <2>2 DEF LegalPath
  <2>4. row.status = "approved"
    BY <1>1, <2>3, FreshFacts DEF TRANSITIONS, WorkflowStatus
  <2> QED  BY <1>1, <2>4, FreshFacts DEF Life!Signed
<1> HIDE DEF h, path
<1>6. Addressed(h, deliveries)  BY <1>4 DEF Addressed
<1>7. \A i \in DOMAIN <<RequestRow>> : <<RequestRow>>[i] # NotamRow  BY RowsDiffer
<1>8. Ready(h, path, "publishing")
  BY <1>1, <1>4, <1>5, <1>6, <1>7, FreshFacts, OrderedFacts DEF Ready
<1> QED  BY <1>1, <1>2, <1>8, ReadyStep

\* Deliveries exist only of a NOTAM that was approved.
LEMMA ExistingFacts ==
  ASSUME IInv, NEW d \in Existing
  PROVE  /\ d \in Delivery /\ d \in Stored(deliveries)
         /\ row.status \in WorkflowStatus => row.approver # None
<1>1. deliveries \in Deliveries /\ Existing = Stored(deliveries)
  BY DEF IInv, Committed, Existing, Stored
<1>2. deliveries # <<>>  BY <1>1 DEF Existing
<1>3. row.approver # None  BY <1>2 DEF IInv, Committed
<1> QED  BY <1>1, <1>3, StoredFinite

LEMMA RetryDeliveryStep ==
  ASSUME IInv, NEW s \in Sessions, NEW u \in Users, NEW d \in Existing, RetryDelivery(s, u, d)
  PROVE  IInv'
<1> DEFINE h == [Fresh EXCEPT !.target = d, !.next = "send"]
<1>1. Begin(s, <<>>, h) /\ row.status # None  BY DEF RetryDelivery, Begin
<1>2. <<>> \in Seq(WorkflowStatus)  OBVIOUS
<1>3. d \in Delivery /\ d \in Stored(deliveries) /\ row.approver # None /\ d # None
  BY <1>1, ExistingFacts, FreshFacts, NoneAssumption DEF Delivery
<1>4. /\ h \in Handlers
      /\ h.read = row /\ h.now = row /\ h.locked = {} /\ h.next = "send" /\ h.target = d
      /\ h.changed = <<>> /\ h.flushing = <<>>
  BY <1>1, <1>3, FreshFacts DEF Fresh, Handlers
<1> HIDE DEF h
<1>5. Addressed(h, deliveries)  BY <1>3, <1>4 DEF Addressed
<1>6. Ready(h, <<>>, Reached(row.status, <<>>))
  BY <1>1, <1>3, <1>4, <1>5, FreshFacts, OrderedFacts DEF Ready
<1> QED  BY <1>1, <1>2, <1>6, ReadyStep

LEMMA AcknowledgeDeliveryStep ==
  ASSUME IInv, NEW s \in Sessions, NEW d \in Existing, AcknowledgeDelivery(s, d)
  PROVE  IInv'
<1> DEFINE ch == [x \in {d} |-> "acknowledged"]
           h  == [Fresh EXCEPT !.changed = ch, !.flushing = <<DeliveryRow(d)>>, !.next = "reconcile"]
<1>1. Begin(s, <<>>, h) /\ row.status # None  BY DEF AcknowledgeDelivery, Begin
<1>2. <<>> \in Seq(WorkflowStatus)  OBVIOUS
<1>3. d \in Delivery /\ d \in Stored(deliveries) /\ row.approver # None
  BY <1>1, ExistingFacts, FreshFacts
<1>4. <<DeliveryRow(d)>> \in Seq(Rows)  BY <1>3, RowsDiffer
<1>5. ch \in Changes /\ DOMAIN ch = {d}
  <2>1. ch \in [{d} -> Life!DeliveryStatus]  BY DEF Life!DeliveryStatus
  <2>2. {d} \in SUBSET Delivery  BY <1>3
  <2> QED  BY <2>1, <2>2 DEF Changes
<1> HIDE DEF ch
<1>6. /\ h \in Handlers
      /\ h.read = row /\ h.now = row /\ h.locked = {} /\ h.next = "reconcile" /\ h.target = None
      /\ h.changed = ch /\ h.flushing = <<DeliveryRow(d)>>
  BY <1>1, <1>4, <1>5, FreshFacts DEF Fresh, Handlers
<1> HIDE DEF h
<1>7. Addressed(h, deliveries)  BY <1>3, <1>5, <1>6 DEF Addressed
<1>8. \A i \in DOMAIN <<DeliveryRow(d)>> : <<DeliveryRow(d)>>[i] # NotamRow
  BY <1>3, RowsDiffer
<1>9. Ready(h, <<>>, Reached(row.status, <<>>))
  BY <1>1, <1>3, <1>6, <1>7, <1>8, FreshFacts, OrderedFacts DEF Ready
<1> QED  BY <1>1, <1>2, <1>9, ReadyStep

LEMMA MarkPublishedStep ==
  ASSUME IInv, NEW s \in Sessions, NEW u \in Users, MarkPublished(s, u)
  PROVE  IInv'
<1> DEFINE now  == [row EXCEPT !.published = TRUE]
           path == OverridePath(row.status)
           h    == [Fresh EXCEPT !.now = now, !.flushing = <<NotamRow>>, !.next = "override"]
<1>1. row.status # None /\ row.status \in {"publishing", "approved", "published"}
  BY DEF MarkPublished, Begin
<1>2. path \in Seq(WorkflowStatus) /\ Reached(row.status, path) = "published"
  <2>1. CASE row.status = "approved"
    <3>1. path = <<"publishing", "published">>  BY <2>1 DEF OverridePath
    <3> QED  BY <3>1 DEF WorkflowStatus, Reached
  <2>2. CASE row.status = "publishing"
    <3>1. path = <<"published">>  BY <2>2 DEF OverridePath
    <3> QED  BY <3>1 DEF WorkflowStatus, Reached
  <2>3. CASE row.status = "published"
    <3>1. path = <<>>  BY <2>3 DEF OverridePath
    <3>2. <<>> \in Seq(WorkflowStatus) /\ Reached(row.status, <<>>) = "published"
      BY <2>3 DEF Reached
    <3> QED  BY <3>1, <3>2
  <2> QED  BY <1>1, <2>1, <2>2, <2>3
<1>3. <<NotamRow>> \in Seq(Rows)  BY RowsDiffer
<1>4. /\ now \in Columns /\ now.status = row.status /\ now.approver = row.approver
      /\ now.published = TRUE
  BY <1>1, FreshFacts DEF Columns
<1>5. Begin(s, path, h)  BY DEF MarkPublished, Fresh
<1> HIDE DEF now
<1>6. /\ h \in Handlers
      /\ h.read = row /\ h.now = now /\ h.locked = {} /\ h.next = "override" /\ h.target = None
      /\ h.changed = <<>> /\ h.flushing = <<NotamRow>>
  BY <1>1, <1>3, <1>4, FreshFacts DEF Fresh, Handlers
<1> HIDE DEF h, path
<1>7. Addressed(h, deliveries)  BY <1>6 DEF Addressed
<1>8. row.approver # None  BY <1>1, FreshFacts DEF Life!Signed
<1>9. Ready(h, path, "published")
  BY <1>1, <1>4, <1>6, <1>7, <1>8, FreshFacts, OrderedFacts DEF Ready
<1> QED  BY <1>2, <1>5, <1>9, ReadyStep

-----------------------------------------------------------------------------
(***************************************************************************)
(* The handlers go on.                                                     *)
(***************************************************************************)

\* What is known of a session that is at a part of its handler.
LEMMA AtFacts ==
  ASSUME IInv, NEW s \in Sessions, NEW next \in {"send", "reconcile", "override", "commit"},
         At(s, next)
  PROVE  LET h == session[s]
         IN /\ h \in Handlers /\ Founded(h, row) /\ Addressed(h, deliveries) /\ Disciplined(h)
            /\ h.next = next /\ h.flushing = <<>>
            /\ deliveries \in Deliveries /\ row \in Columns
            /\ \A t \in Sessions \ {s} : h.locked \cap session[t].locked = {}
<1>1. session[s] # Idle  BY IdleFacts DEF At
<1> QED  BY <1>1 DEF IInv, Sound, At, Committed

\* dispatch_delivery is called by handlers that know an approver.
LEMMA SendStep ==
  ASSUME IInv, NEW s \in Sessions, Send(s)
  PROVE  IInv'
<1> DEFINE h    == session[s]
           f    == IF h.target = None THEN <<>> ELSE <<DeliveryRow(h.target)>>
<1>1. /\ h \in Handlers /\ Founded(h, row) /\ Addressed(h, deliveries) /\ Disciplined(h)
      /\ h.next = "send" /\ h.flushing = <<>>
      /\ deliveries \in Deliveries
      /\ \A t \in Sessions \ {s} : h.locked \cap session[t].locked = {}
  BY AtFacts DEF Send
<1>2. PICK outcome \in [Mine(h) -> Life!DeliveryStatus] :
        /\ session' = [session EXCEPT ![s] = Dispatched(h, outcome)]
        /\ handed' = IF \A d \in Mine(h) : outcome[d] = "failed" THEN handed
                     ELSE handed \cup {[text |-> h.now.text, preparer |-> h.now.preparer,
                                        approver |-> h.now.approver]}
  BY Zenon DEF Send
<1> DEFINE g == Dispatched(h, outcome)
<1>3. session' = [session EXCEPT ![s] = g]  BY <1>2
<1>4. h.target # None => h.target \in Stored(deliveries) /\ h.target \in Delivery
  BY <1>1, StoredFinite DEF Addressed
<1>5. Mine(h) \in SUBSET Delivery
  <2>1. NewBatch \subseteq Delivery  BY <1>1 DEF NewBatch, Delivery, Deliveries
  <2> QED  BY <1>4, <2>1 DEF Mine
<1>6. outcome \in Changes  BY <1>2, <1>5 DEF Changes
<1>7. f \in Seq(Rows)
  <2>1. CASE h.target = None  BY <2>1
  <2>2. CASE h.target # None
    <3>1. DeliveryRow(h.target) \in Rows  BY <1>4, <2>2, RowsDiffer
    <3> QED  BY <2>2, <3>1
  <2> QED  BY <2>1, <2>2
<1>8. h.target = None => RequestRow \in h.locked
  BY <1>1 DEF Disciplined
<1>9. DOMAIN outcome = Mine(h)  BY <1>2
<1>10. f = (IF h.target = None THEN <<>> ELSE <<DeliveryRow(h.target)>>)  OBVIOUS
<1> HIDE DEF f
<1>11. /\ g \in Handlers
       /\ g.next = "reconcile" /\ g.read = h.read /\ g.now = h.now /\ g.target = h.target
       /\ g.changed = outcome /\ g.walked = h.walked
       /\ g.flushing = f /\ g.locked = h.locked
  BY <1>1, <1>6, <1>7, <1>10 DEF Handlers, Dispatched
<1> HIDE DEF g
<1>12. Founded(g, row)
  BY <1>1, <1>11 DEF Founded, Signs
<1>13. Addressed(g, deliveries)
  <2>1. CASE h.target = None
    <3>1. Mine(h) = Batch(deliveries)  BY <2>1 DEF Mine, NewBatch, Batch
    <3> QED  BY <1>8, <1>9, <1>11, <2>1, <3>1 DEF Addressed
  <2>2. CASE h.target # None
    <3>1. Mine(h) = {h.target}  BY <2>2 DEF Mine
    <3> QED  BY <1>4, <1>9, <1>11, <2>2, <3>1 DEF Addressed
  <2> QED  BY <2>1, <2>2
<1>14. Disciplined(g)
  <2>1. NotamRow \notin h.locked  BY <1>1 DEF Disciplined
  <2>2. CASE h.target = None
    <3>1. f = <<>>  BY <1>10, <2>2
    <3>2. Ordered(h.locked, <<>>)  BY DEF Ordered
    <3> QED  BY <1>11, <2>1, <3>1, <3>2 DEF Disciplined
  <2>3. CASE h.target # None
    <3>1. f = <<DeliveryRow(h.target)>> /\ h.locked = {}  BY <1>1, <1>10, <2>3 DEF Disciplined
    <3>2. Ordered({}, f)  BY <3>1, OrderedFacts
    <3>3. DeliveryRow(h.target) # NotamRow  BY <1>4, <2>3, RowsDiffer
    <3>4. \A i \in DOMAIN f : f[i] # NotamRow  BY <3>1, <3>3
    <3> QED  BY <1>11, <3>1, <3>2, <3>4 DEF Disciplined
  <2> QED  BY <2>2, <2>3
<1>15. Sound(g, row, deliveries)  BY <1>11, <1>12, <1>13, <1>14 DEF Sound
<1>16. UnsignedIsNotHanded'
  <2>1. h.now.approver # None  BY <1>1 DEF Founded, Signs
  <2> QED  BY <1>2, <2>1 DEF IInv, UnsignedIsNotHanded
<1>17. UNCHANGED <<row, deliveries, events, savers, started>>  BY DEF Send
<1> QED  BY <1>1, <1>3, <1>11, <1>15, <1>16, <1>17, SessionStep

\* A handler that is given its changes and its next flush.
Given(h, ch, f) == [h EXCEPT !.changed = ch, !.flushing = f, !.next = "commit"]

LEMMA GivenFacts ==
  ASSUME NEW h \in Handlers, NEW ch \in Changes, NEW f \in Seq(Rows)
  PROVE  LET g == Given(h, ch, f)
         IN /\ g \in Handlers
            /\ g.next = "commit" /\ g.read = h.read /\ g.now = h.now /\ g.target = h.target
            /\ g.changed = ch /\ g.walked = h.walked
            /\ g.flushing = f /\ g.locked = h.locked
BY DEF Handlers, Given

\* mark_request_published has locked the NOTAM when it acknowledges deliveries.
LEMMA OverrideStep ==
  ASSUME IInv, NEW s \in Sessions, Override(s)
  PROVE  IInv'
<1> DEFINE h    == session[s]
           open == InStatus({"sent", "failed"})
           ch   == [d \in open |-> "acknowledged"]
           rows == {DeliveryRow(d) : d \in open}
           f    == (IF h.walked = <<>> THEN <<>> ELSE <<RequestRow>>) \o SetToSeq(rows)
           g    == Overridden(h, open)
<1>1. /\ h \in Handlers /\ Founded(h, row) /\ Addressed(h, deliveries) /\ Disciplined(h)
      /\ h.next = "override" /\ h.flushing = <<>>
      /\ deliveries \in Deliveries
      /\ \A t \in Sessions \ {s} : h.locked \cap session[t].locked = {}
  BY AtFacts DEF Override
<1>2. session' = [session EXCEPT ![s] = g]  BY DEF Override
<1>3. open \subseteq Stored(deliveries)  BY DEF InStatus, Existing, Stored
<1> HIDE DEF open
<1>4. open \in SUBSET Delivery /\ IsFiniteSet(open)
  BY <1>1, <1>3, StoredFinite, FS_Subset
<1>5. ch \in Changes /\ DOMAIN ch = open
  <2>1. ch \in [open -> Life!DeliveryStatus]  BY DEF Life!DeliveryStatus
  <2> QED  BY <1>4, <2>1 DEF Changes
<1>6. f \in Seq(Rows)
  <2> DEFINE name == [d \in open |-> DeliveryRow(d)]
  <2>1. name \in Surjection(open, rows)
    BY DEF Surjection
  <2>2. IsFiniteSet(rows)  BY <1>4, <2>1, FS_Surjection
  <2>3. rows \subseteq Rows  BY <1>4, RowsDiffer
  <2> HIDE DEF rows
  <2>4. SetToSeq(rows) \in Seq(Rows)  BY <2>2, <2>3, SetToSeqType, SeqMonotonic
  <2>5. <<>> \in Seq(Rows) /\ <<RequestRow>> \in Seq(Rows)  BY RowsDiffer
  <2> QED  BY <2>4, <2>5
<1> HIDE DEF ch, f
<1>7. /\ g \in Handlers
      /\ g.next = "commit" /\ g.read = h.read /\ g.now = h.now /\ g.target = h.target
      /\ g.changed = ch /\ g.walked = h.walked
      /\ g.flushing = f /\ g.locked = h.locked
  <2>1. g = Given(h, ch, f)  BY DEF Overridden, Given, ch, f
  <2> HIDE DEF g
  <2> QED  BY <1>1, <1>5, <1>6, <2>1, GivenFacts
<1> HIDE DEF g
<1>8. Founded(g, row)  BY <1>1, <1>7 DEF Founded, Signs
<1>9. Addressed(g, deliveries)  BY <1>1, <1>3, <1>5, <1>7 DEF Addressed
<1>10. Disciplined(g)
  <2>1. h.flushing # <<NotamRow>>  BY <1>1
  <2>2. h.now.status = "published" /\ NotamRow \in h.locked  BY <1>1, <2>1 DEF Disciplined
  <2> QED  BY <1>7, <2>2 DEF Disciplined, Overrides
<1>11. Sound(g, row, deliveries)  BY <1>7, <1>8, <1>9, <1>10 DEF Sound
<1>12. UNCHANGED <<row, deliveries, events, savers, started, handed>>  BY DEF Override
<1> QED  BY <1>1, <1>2, <1>7, <1>11, <1>12, SessionStep DEF IInv, UnsignedIsNotHanded

\* Before the NOTAM is locked, the request and the NOTAM may be, in this order.
LEMMA LastRows ==
  ASSUME NEW locked, NotamRow \notin locked
  PROVE  /\ Ordered(locked, <<>>)
         /\ Ordered(locked, <<RequestRow>>)
         /\ Ordered(locked, <<RequestRow, NotamRow>>)
<1>1. Rank(RequestRow) = 2 /\ Rank(NotamRow) = 3  BY RowsDiffer DEF Rank
<1>2. \A l \in locked : Rank(l) < 3  BY DEF Rank
<1>3. RequestRow \notin locked => \A l \in locked : Rank(l) < 2  BY DEF Rank
<1>4. Ordered(locked, <<>>)  BY DEF Ordered
<1>5. Ordered(locked, <<RequestRow>>)
  <2>1. DOMAIN <<RequestRow>> = {1}  OBVIOUS
  <2> QED  BY <1>1, <1>3, <2>1 DEF Ordered
<1>6. Ordered(locked, <<RequestRow, NotamRow>>)
  <2>1. DOMAIN <<RequestRow, NotamRow>> = {1, 2}  OBVIOUS
  <2> QED  BY <1>1, <1>2, <1>3, <2>1 DEF Ordered
<1> QED  BY <1>4, <1>5, <1>6

\* One walk after another leads where the later one leads.
LEMMA WalksJoin ==
  ASSUME NEW v \in Seq(Events), NEW w \in Seq(Events)
  PROVE  /\ v \o w \in Seq(Events)
         /\ v \o w = <<>> => v = <<>> /\ w = <<>>
         /\ w = <<>> => v \o w = v
         /\ w # <<>> => v \o w # <<>> /\ (v \o w)[Len(v \o w)] = w[Len(w)]
OBVIOUS

\* The handler after _reconcile_publishing_status: what changed, what did not.
Follows(g, h, st, path) ==
  /\ g \in Handlers
  /\ g.next = "commit" /\ g.target = h.target
  /\ g.changed = h.changed /\ g.locked = h.locked
  /\ g.walked = h.walked \o Walk(st, path)
  /\ g.read.status = (IF h.walked = <<>> THEN st ELSE h.read.status)
  /\ g.read.published = h.read.published /\ g.read.approver = h.read.approver
  /\ g.now.status = Reached(st, path)
  /\ g.now.published = (h.now.published \/ path = <<"published">>)
  /\ g.now.approver = h.now.approver
  /\ g.flushing \in {<<>>, <<RequestRow>>, <<RequestRow, NotamRow>>}

LEMMA ReconciledFacts ==
  ASSUME NEW h \in Handlers, NEW st \in WorkflowStatus,
         NEW path \in {<<>>, <<"approved">>, <<"published">>}
  PROVE  Follows(Reconciled(h, st, path), h, st, path)
<1> DEFINE read == [h.read EXCEPT !.status = IF h.walked = <<>> THEN st ELSE h.read.status]
           now  == [h.now EXCEPT !.status = Reached(st, path),
                                 !.published = h.now.published \/ path = <<"published">>]
           w    == h.walked \o Walk(st, path)
           f    == CASE path = <<>>            -> <<>>
                     [] path = <<"published">> -> <<RequestRow, NotamRow>>
                     [] OTHER                  -> <<RequestRow>>
           g    == [h EXCEPT !.read = read, !.now = now, !.walked = w,
                             !.flushing = f, !.next = "commit"]
<1>1. path \in Seq(WorkflowStatus)
  <2>1. <<>> \in Seq(WorkflowStatus)  OBVIOUS
  <2>2. <<"approved">> \in Seq(WorkflowStatus) /\ <<"published">> \in Seq(WorkflowStatus)
    BY DEF WorkflowStatus
  <2> QED  BY <2>1, <2>2
<1>2. Reached(st, path) \in WorkflowStatus /\ Walk(st, path) \in Seq(Events)
  BY <1>1, WalkFacts
<1>3. /\ read \in Columns
      /\ read.status = (IF h.walked = <<>> THEN st ELSE h.read.status)
      /\ read.published = h.read.published /\ read.approver = h.read.approver
  BY DEF Handlers, Columns
<1>4. /\ now \in Columns /\ now.status = Reached(st, path)
      /\ now.published = (h.now.published \/ path = <<"published">>)
      /\ now.approver = h.now.approver
  <2>1. h.now \in Columns  BY DEF Handlers
  <2>2. (h.now.published \/ path = <<"published">>) \in BOOLEAN  OBVIOUS
  <2> QED  BY <1>2, <2>1, <2>2 DEF Columns
<1>5. w \in Seq(Events)  BY <1>2, WalksJoin DEF Handlers
<1>6. f \in {<<>>, <<RequestRow>>, <<RequestRow, NotamRow>>}  OBVIOUS
<1>7. f \in Seq(Rows)
  <2>1. <<>> \in Seq(Rows)  OBVIOUS
  <2>2. <<RequestRow>> \in Seq(Rows) /\ <<RequestRow, NotamRow>> \in Seq(Rows)  BY RowsDiffer
  <2> QED  BY <1>6, <2>1, <2>2
<1>8. Reconciled(h, st, path) = g  BY DEF Reconciled
<1>9. w = h.walked \o Walk(st, path)  OBVIOUS
<1> HIDE DEF read, now, w, f
<1>10. /\ g \in Handlers
       /\ g.next = "commit" /\ g.target = h.target
       /\ g.changed = h.changed /\ g.locked = h.locked
       /\ g.walked = w /\ g.read = read /\ g.now = now /\ g.flushing = f
  BY <1>3, <1>4, <1>5, <1>7 DEF Handlers
<1> HIDE DEF g
<1> QED  BY <1>3, <1>4, <1>6, <1>8, <1>9, <1>10 DEF Follows

LEMMA ReconcileStep ==
  ASSUME IInv, NEW s \in Sessions, Reconcile(s)
  PROVE  IInv'
<1> DEFINE h    == session[s]
           st   == IF h.walked # <<>> THEN h.now.status ELSE row.status
           path == IF st = "publishing" THEN Life!Reconcile(Overlaid(h.changed)) ELSE <<>>
           g    == Reconciled(h, st, path)
           w    == Walk(st, path)
<1>1. /\ h \in Handlers /\ Founded(h, row) /\ Addressed(h, deliveries) /\ Disciplined(h)
      /\ h.next = "reconcile" /\ h.flushing = <<>> /\ row \in Columns
      /\ \A t \in Sessions \ {s} : h.locked \cap session[t].locked = {}
  BY AtFacts DEF Reconcile
<1>2. session' = [session EXCEPT ![s] = g]  BY Zenon DEF Reconcile
<1>3. UNCHANGED <<row, deliveries, events, savers, started, handed>>  BY Zenon DEF Reconcile
<1>4. st \in WorkflowStatus  BY <1>1 DEF Founded, Follows, Columns
<1>5. path \in {<<>>, <<"approved">>, <<"published">>}  BY DEF Life!Reconcile
<1>6. path \in Seq(WorkflowStatus)
  <2>1. <<>> \in Seq(WorkflowStatus)  OBVIOUS
  <2>2. <<"approved">> \in Seq(WorkflowStatus) /\ <<"published">> \in Seq(WorkflowStatus)
    BY DEF WorkflowStatus
  <2> QED  BY <1>5, <2>1, <2>2
<1>7. h.walked # <<>> => st = h.now.status  OBVIOUS
<1> HIDE DEF h, path, st
<1>8. Follows(g, h, st, path)  BY <1>1, <1>4, <1>5, ReconciledFacts
<1>9. /\ w \in Seq(Events)
      /\ path = <<>> => w = <<>> /\ Reached(st, path) = st
      /\ path # <<>> => w # <<>> /\ w[Len(w)].to = Reached(st, path)
      /\ Reached(st, path) \in WorkflowStatus
  BY <1>4, <1>6, WalkFacts
<1>10. path = <<"approved">> => Reached(st, path) = "approved"  BY DEF Reached
<1> HIDE DEF g, w
<1>11. Founded(g, row)
  <2>1. /\ h.walked \in Seq(Events)
        /\ g.walked = h.walked \o w
        /\ w = <<>> => g.walked = h.walked
        /\ g.walked = <<>> => h.walked = <<>> /\ w = <<>>
        /\ w # <<>> => g.walked[Len(g.walked)] = w[Len(w)]
    <3>1. h.walked \in Seq(Events) /\ g.walked = h.walked \o w  BY <1>1, <1>8 DEF Handlers, Follows, w
    <3> QED  BY <1>9, <3>1, WalksJoin
  <2>2. g.walked = <<>> => g.now.status = g.read.status
    BY <1>8, <1>9, <2>1 DEF Follows
  <2>3. g.walked # <<>> => g.walked[Len(g.walked)].to = g.now.status
    <3>1. CASE path = <<>>
      <4>1. g.walked = h.walked  BY <1>8, <1>9, <2>1, <3>1 DEF Follows
      <4> QED  BY <1>1, <1>7, <1>8, <1>9, <3>1, <4>1 DEF Founded, Follows
    <3>2. CASE path # <<>>
      BY <1>8, <1>9, <2>1, <3>2 DEF Follows
    <3> QED  BY <3>1, <3>2
  <2>4. g.walked # <<>> /\ g.now.status = "published" => g.now.published
    <3>1. CASE path = <<>>
      <4>1. g.walked = h.walked  BY <1>8, <1>9, <2>1, <3>1 DEF Follows
      <4> QED  BY <1>1, <1>7, <1>8, <1>9, <3>1, <4>1 DEF Founded, Follows
    <3>2. CASE path = <<"published">>  BY <1>8, <3>2 DEF Follows
    <3>3. CASE path = <<"approved">>   BY <1>8, <1>10, <3>3 DEF Follows
    <3> QED  BY <1>5, <3>1, <3>2, <3>3
  <2>5. g.read.status \in WorkflowStatus /\ g.now.status \in WorkflowStatus
    BY <1>1, <1>4, <1>8, <1>9 DEF Founded, Follows
  <2>6. h.now.approver # None  BY <1>1 DEF Founded, Follows, Signs
  <2> QED  BY <1>1, <1>8, <2>2, <2>3, <2>4, <2>5, <2>6 DEF Founded, Follows
<1>12. Addressed(g, deliveries)  BY <1>1, <1>8 DEF Addressed, Follows
<1>13. Disciplined(g)
  <2>1. NotamRow \notin g.locked  BY <1>1, <1>8 DEF Disciplined, Follows
  <2> QED  BY <1>8, <2>1, LastRows DEF Disciplined, Follows
<1>14. Sound(g, row, deliveries)  BY <1>8, <1>11, <1>12, <1>13 DEF Sound, Follows
<1> QED  BY <1>1, <1>2, <1>3, <1>8, <1>14, SessionStep DEF IInv, UnsignedIsNotHanded, h, Follows

-----------------------------------------------------------------------------
(***************************************************************************)
(* Commits.                                                                *)
(***************************************************************************)

\* What a commit makes of the deliveries: it changes some, or adds a batch.
LEMMA OverlaidFacts ==
  ASSUME deliveries \in Deliveries, NEW ch \in Changes,
         DOMAIN ch \subseteq Stored(deliveries) \/ DOMAIN ch = Batch(deliveries)
  PROVE  /\ Overlaid(ch) \in Deliveries
         /\ Stored(deliveries) \subseteq Stored(Overlaid(ch))
         /\ DOMAIN ch \subseteq Stored(deliveries) =>
              Len(Overlaid(ch)) = Len(deliveries) /\ Batch(Overlaid(ch)) = Batch(deliveries)
         /\ Overlaid(ch) # <<>> => deliveries # <<>> \/ DOMAIN ch # {}
<1> DEFINE n == Len(deliveries)
           D == DOMAIN deliveries \cup {d[1] : d \in DOMAIN ch}
           o == Overlaid(ch)
<1>1. DOMAIN deliveries = 1 .. n /\ n \in Nat
      /\ \A i \in 1 .. n : deliveries[i] \in [Channels -> Life!DeliveryStatus]
  BY DEF Deliveries
<1>2. \A d \in DOMAIN ch : ch[d] \in Life!DeliveryStatus  BY DEF Changes
<1>3. DOMAIN o = D  BY DEF Overlaid
<1>4. CASE DOMAIN ch \subseteq Stored(deliveries)
  <2>1. D = 1 .. n
    <3>1. \A d \in Stored(deliveries) : d[1] \in 1 .. n  BY <1>1 DEF Stored
    <3> QED  BY <1>1, <1>4, <3>1
  <2>2. o \in [1 .. n -> [Channels -> Life!DeliveryStatus]]
    BY <1>1, <1>2, <2>1 DEF Overlaid
  <2> HIDE DEF o
  <2>3. o \in Deliveries /\ Len(o) = n /\ DOMAIN o = 1 .. n  BY <1>1, <2>2 DEF Deliveries
  <2>4. Stored(deliveries) = Stored(o) /\ Batch(deliveries) = Batch(o)
    BY <1>1, <2>3 DEF Stored, Batch
  <2>5. o # <<>> => deliveries # <<>>
    <3>1. deliveries = <<>> => n = 0  OBVIOUS
    <3>2. n = 0 => o = <<>>  BY <2>3 DEF Deliveries
    <3> QED  BY <3>1, <3>2
  <2> QED  BY <2>3, <2>4, <2>5 DEF o
<1>5. CASE DOMAIN ch = Batch(deliveries) /\ ~ (DOMAIN ch \subseteq Stored(deliveries))
  <2>1. PICK c \in Channels : TRUE  BY <1>5 DEF Batch
  <2>2. DOMAIN ch # {}  BY <1>5
  <2>3. D = 1 .. n + 1
    <3>1. \A d \in Batch(deliveries) : d[1] = n + 1  BY DEF Batch
    <3>2. <<n + 1, c>> \in DOMAIN ch  BY <1>5 DEF Batch
    <3>3. {d[1] : d \in DOMAIN ch} = {n + 1}  BY <1>5, <3>1, <3>2
    <3>4. \A m \in Nat : 1 .. m + 1 = (1 .. m) \cup {m + 1}  OBVIOUS
    <3> HIDE DEF n
    <3> QED  BY <1>1, <3>3, <3>4
  <2>4. \A i \in D, k \in Channels : <<i, k>> \notin DOMAIN ch => i \in 1 .. n
    BY <1>1, <1>5, <2>3 DEF Batch
  <2>5. o \in [1 .. n + 1 -> [Channels -> Life!DeliveryStatus]]
    BY <1>1, <1>2, <2>3, <2>4 DEF Overlaid
  <2> HIDE DEF o
  <2>6. o \in Deliveries /\ DOMAIN o = 1 .. n + 1  BY <1>1, <2>5 DEF Deliveries
  <2>7. Stored(deliveries) \subseteq Stored(o)  BY <1>1, <2>6 DEF Stored
  <2> QED  BY <1>5, <2>2, <2>6, <2>7 DEF o
<1> QED  BY <1>4, <1>5

\* A session is not disturbed by columns and deliveries that others commit, as
\* long as stamps stay, deliveries stay, and its batch is its own.
LEMMA KeptFacts ==
  ASSUME NEW r, NEW ds, NEW r2, NEW ds2, NEW g, Sound(g, r, ds),
         g # Idle => r2.status # None,
         r.published => r2.published,
         r.approver # None => r2.approver # None,
         Stored(ds) \subseteq Stored(ds2),
         RequestRow \in g.locked => Batch(ds2) = Batch(ds)
  PROVE  Sound(g, r2, ds2)
<1>1. CASE g = Idle  BY <1>1 DEF Sound
<1>2. CASE g # Idle
  <2>1. g \in Handlers /\ Founded(g, r) /\ Addressed(g, ds) /\ Disciplined(g)
    BY <1>2 DEF Sound
  <2>2. Founded(g, r2)  BY <1>2, <2>1 DEF Founded
  <2>3. Addressed(g, ds2)  BY <2>1 DEF Addressed
  <2> QED  BY <2>1, <2>2, <2>3 DEF Sound
<1> QED  BY <1>1, <1>2

\* The columns after the commit of a handler that was sound.
LEMMA WrittenFacts ==
  ASSUME row \in Columns, NEW h \in Handlers, Founded(h, row), NEW r,
         r = [c \in DOMAIN row |-> IF c \in Written(h) THEN h.now[c] ELSE row[c]]
  PROVE  /\ r \in Columns
         /\ r.status = (IF h.walked = <<>> THEN row.status ELSE h.now.status)
         /\ row.published \/ h.now.published => r.published
         /\ row.approver # None \/ h.now.approver # None => r.approver # None
<1>1. h.now \in Columns /\ h.read \in Columns  BY DEF Handlers
<1>2. DOMAIN row = {"status", "text", "printed", "preparer", "approver", "published"}
  BY DEF Columns
<1>3. /\ "status" \in Written(h) <=> h.now.status # h.read.status \/ h.walked # <<>>
      /\ "approver" \in Written(h) <=> h.now.approver # h.read.approver
      /\ "published" \in Written(h) <=> h.now.published # h.read.published
  BY <1>2 DEF Written
<1>4. /\ r \in Columns
      /\ r.status = (IF "status" \in Written(h) THEN h.now.status ELSE row.status)
      /\ r.approver = (IF "approver" \in Written(h) THEN h.now.approver ELSE row.approver)
      /\ r.published = (IF "published" \in Written(h) THEN h.now.published ELSE row.published)
  BY <1>1, MergedColumns
<1>5. r.status = (IF h.walked = <<>> THEN row.status ELSE h.now.status)
  BY <1>3, <1>4 DEF Founded
<1>6. row.published \/ h.now.published => r.published
  <2>1. {row.published, h.now.published, h.read.published} \subseteq BOOLEAN
    BY <1>1 DEF Columns
  <2> QED  BY <1>3, <1>4, <2>1 DEF Founded
<1>7. row.approver # None \/ h.now.approver # None => r.approver # None
  BY <1>3, <1>4 DEF Founded
<1> QED  BY <1>4, <1>5, <1>6, <1>7

LEMMA CommitStep ==
  ASSUME IInv, NEW s \in Sessions, Commit(s)
  PROVE  IInv'
<1> DEFINE h == session[s]
           w == h.walked
           o == Overlaid(h.changed)
<1>1. /\ h \in Handlers /\ Founded(h, row) /\ Addressed(h, deliveries) /\ Disciplined(h)
      /\ deliveries \in Deliveries /\ row \in Columns
      /\ \A t \in Sessions \ {s} : h.locked \cap session[t].locked = {}
  BY AtFacts DEF Commit
<1>2. /\ row' = [c \in DOMAIN row |-> IF c \in Written(h) THEN h.now[c] ELSE row[c]]
      /\ deliveries' = o
      /\ events' = events \o w
      /\ savers' = savers \cup ({h.saver} \ {None})
      /\ session' = [session EXCEPT ![s] = Idle]
      /\ UNCHANGED <<handed, started>>
  BY Zenon DEF Commit
<1> HIDE DEF h
<1>3. /\ row' \in Columns
      /\ row'.status = (IF w = <<>> THEN row.status ELSE h.now.status)
      /\ row.published \/ h.now.published => row'.published
      /\ row.approver # None \/ h.now.approver # None => row'.approver # None
  BY <1>1, <1>2, WrittenFacts
<1>4. /\ h.changed \in Changes
      /\ DOMAIN h.changed \subseteq Stored(deliveries) \/ DOMAIN h.changed = Batch(deliveries)
  BY <1>1 DEF Handlers, Addressed
<1>5. /\ o \in Deliveries
      /\ Stored(deliveries) \subseteq Stored(o)
      /\ DOMAIN h.changed \subseteq Stored(deliveries) => Batch(o) = Batch(deliveries)
      /\ o # <<>> => deliveries # <<>> \/ DOMAIN h.changed # {}
  BY <1>1, <1>4, OverlaidFacts
<1>6. w \in Seq(Events)  BY <1>1 DEF Handlers
<1>7. events \in Seq(Events)  BY DEF IInv, Committed
<1>8. row.status # None /\ row'.status # None
  BY <1>1, <1>3, NoneAssumption DEF Founded
<1> HIDE DEF o, w
<1>9. /\ events' \in Seq(Events)
      /\ row'.status = IF events' = <<>> THEN "received" ELSE events'[Len(events')].to
  <2>1. CASE w = <<>>
    <3>1. events' = events  BY <1>2, <1>6, <1>7, <2>1, WalksJoin
    <3>2. row'.status = row.status  BY <1>3, <2>1
    <3> QED  BY <1>7, <1>8, <3>1, <3>2 DEF IInv, Committed
  <2>2. CASE w # <<>>
    <3>1. events' \in Seq(Events) /\ events' # <<>> /\ events'[Len(events')] = w[Len(w)]
      BY <1>2, <1>6, <1>7, <2>2, WalksJoin
    <3>2. w[Len(w)].to = h.now.status  BY <1>1, <2>2 DEF Founded, w
    <3> QED  BY <1>3, <2>2, <3>1, <3>2
  <2> QED  BY <2>1, <2>2
<1>10. row'.status = "published" => row'.published
  BY <1>1, <1>3 DEF Founded, IInv, Committed, w
<1>11. row'.status \in Life!Signed \/ deliveries' # <<>> => row'.approver # None
  BY <1>1, <1>2, <1>3, <1>5 DEF Founded, Signs, IInv, Committed
<1>12. Committed(row', deliveries', events')
  BY <1>2, <1>3, <1>5, <1>8, <1>9, <1>10, <1>11 DEF Committed
<1>13. ASSUME NEW t \in Sessions
       PROVE  Sound(session'[t], row', deliveries') /\ session'[t].locked \subseteq session[t].locked
  <2>1. CASE t = s
    <3>1. session'[t] = Idle  BY <1>2, <2>1 DEF IInv
    <3> QED  BY <3>1, IdleFacts DEF Sound
  <2>2. CASE t # s
    <3>1. session'[t] = session[t]  BY <1>2, <2>2 DEF IInv
    <3>2. Sound(session[t], row, deliveries)  BY DEF IInv
    <3>3. RequestRow \in session[t].locked => Batch(o) = Batch(deliveries)
      BY <1>1, <1>5, <2>2 DEF Addressed
    <3>4. Sound(session[t], row', deliveries')
      BY <1>2, <1>3, <1>5, <1>8, <3>2, <3>3, KeptFacts
    <3> QED  BY <3>1, <3>4
  <2> QED  BY <2>1, <2>2
<1>14. \A t, v \in Sessions : t # v => session'[t].locked \cap session'[v].locked = {}
  BY <1>13 DEF IInv
<1>15. savers' \subseteq Users  BY <1>1, <1>2 DEF IInv, Handlers
<1>16. DOMAIN session' = Sessions  BY <1>2 DEF IInv
<1> QED  BY <1>2, <1>12, <1>13, <1>14, <1>15, <1>16 DEF IInv, UnsignedIsNotHanded

LEMMA ReceivedStep ==
  ASSUME IInv, Received
  PROVE  IInv'
<1>1. row \in Columns /\ row.status = None /\ events = <<>>
  BY DEF IInv, Committed, Received
<1>2. /\ row' \in Columns /\ row'.status = "received"
      /\ row'.approver = row.approver
  BY <1>1 DEF Received, Columns, WorkflowStatus
<1>3. "received" # None  BY NoneAssumption DEF WorkflowStatus
<1>4. \A s \in Sessions : session[s] = Idle
  BY <1>1 DEF IInv, Sound, Founded
<1>5. "received" \notin Life!Signed  BY DEF Life!Signed
<1>6. Committed(row', deliveries', events')
  BY <1>1, <1>2, <1>3, <1>5 DEF IInv, Committed, Received
<1>7. \A s \in Sessions : Sound(session'[s], row', deliveries')
  BY <1>4 DEF Received, Sound
<1> QED  BY <1>6, <1>7 DEF IInv, Received, UnsignedIsNotHanded

-----------------------------------------------------------------------------
(***************************************************************************)
(* The invariant and what follows from it.                                 *)
(***************************************************************************)
LEMMA InitIInv == Init => IInv
<1> SUFFICES ASSUME Init  PROVE IInv
  OBVIOUS
<1>1. row \in Columns /\ row.status = None /\ row.status # "published"
  BY NoneAssumption DEF Init, Columns, WorkflowStatus
<1>2. row.status \notin Life!Signed
  BY <1>1, NoneAssumption DEF Life!Signed, WorkflowStatus
<1>3. <<>> \in Deliveries /\ <<>> \in Seq(Events)  BY DEF Deliveries
<1>4. Committed(row, deliveries, events)
  BY <1>1, <1>2, <1>3 DEF Init, Committed
<1>5. \A s \in Sessions : session[s] = Idle /\ Sound(session[s], row, deliveries)
  BY DEF Init, Sound
<1>6. \A s, t \in Sessions : s # t => session[s].locked \cap session[t].locked = {}
  BY <1>5, IdleFacts
<1>7. /\ DOMAIN session = Sessions /\ UnsignedIsNotHanded /\ savers \subseteq Users
      /\ started \in 0 .. MaxHandlers
  BY SessionsAssumption DEF Init, UnsignedIsNotHanded
<1> QED  BY <1>4, <1>5, <1>6, <1>7 DEF IInv

LEMMA NextIInv == IInv /\ [Next]_vars => IInv'
<1> SUFFICES ASSUME IInv, [Next]_vars  PROVE IInv'
  OBVIOUS
<1>1. CASE Received  BY <1>1, ReceivedStep
<1>2. ASSUME NEW s \in Sessions, NEW u \in Users, Start(s, u)  PROVE IInv'
  <2>1. ASSUME NEW text \in Texts, SaveDraft(s, u, text)  PROVE IInv'
    BY <2>1, SaveDraftStep
  <2>2. CASE Submit(s, u)          BY <2>2, SubmitStep
  <2>3. CASE RequestChanges(s, u)  BY <2>3, RequestChangesStep
  <2>4. CASE Approve(s, u)         BY <2>4, ApproveStep
  <2>5. CASE Publish(s, u)         BY <2>5, PublishStep
  <2>6. CASE MarkPublished(s, u)   BY <2>6, MarkPublishedStep
  <2>7. ASSUME NEW d \in Existing, RetryDelivery(s, u, d)  PROVE IInv'
    BY <2>7, RetryDeliveryStep
  <2> QED  BY <1>2, <2>1, <2>2, <2>3, <2>4, <2>5, <2>6, <2>7 DEF Start
<1>3. ASSUME NEW s \in Sessions, NEW d \in Existing, AcknowledgeDelivery(s, d)  PROVE IInv'
  BY <1>3, AcknowledgeDeliveryStep
<1>4. ASSUME NEW s \in Sessions, Continue(s)  PROVE IInv'
  <2>1. CASE Flush(s)      BY <2>1, FlushStep
  <2>2. CASE Send(s)       BY <2>2, SendStep
  <2>3. CASE Reconcile(s)  BY <2>3, ReconcileStep
  <2>4. CASE Override(s)   BY <2>4, OverrideStep
  <2>5. CASE Commit(s)     BY <2>5, CommitStep
  <2>6. CASE EndedByDatabase(s)  BY <2>6, FailStep DEF EndedByDatabase
  <2> QED  BY <1>4, <2>1, <2>2, <2>3, <2>4, <2>5, <2>6 DEF Continue
<1>5. ASSUME NEW s \in Sessions, Fail(s)  PROVE IInv'
  BY <1>5, FailStep
<1>6. CASE UNCHANGED vars
  BY <1>6 DEF vars, IInv, UnsignedIsNotHanded
<1> QED  BY <1>1, <1>2, <1>3, <1>4, <1>5, <1>6 DEF Next

THEOREM Invariance == Spec => []IInv
<1>1. Init => IInv  BY InitIInv
<1>2. IInv /\ [Next]_vars => IInv'  BY NextIInv
<1> QED  BY <1>1, <1>2, PTL DEF Spec

\* Every column, delivery, event and session holds what the code can read back.
THEOREM TypeCorrect == Spec => []TypeOK
<1>1. IInv => TypeOK
  <2> SUFFICES ASSUME IInv  PROVE TypeOK
    OBVIOUS
  <2>1. ASSUME NEW s \in Sessions
        PROVE  /\ session[s].next \in {"idle", "send", "reconcile", "override", "commit"}
               /\ session[s].next # "idle" => session[s].read \in Columns /\ session[s].now \in Columns
    <3>1. CASE session[s] = Idle  BY <3>1, IdleFacts
    <3>2. CASE session[s] # Idle
      <4>1. session[s] \in Handlers  BY <3>2 DEF IInv, Sound
      <4> QED  BY <4>1 DEF Handlers
    <3> QED  BY <3>1, <3>2
  <2> QED  BY <2>1 DEF TypeOK, IInv, Committed, Deliveries, Events
<1> QED  BY <1>1, Invariance, PTL

\* For any number of sessions: the status is the one the latest committed audit
\* event entered, and a published request has its stamp (transition_request).
THEOREM StatusIsFoundedHolds == Spec => []StatusIsFounded
<1>1. IInv => StatusIsFounded  BY DEF IInv, Committed, StatusIsFounded
<1> QED  BY <1>1, Invariance, PTL

\* For any number of sessions: no channel was ever given a NOTAM that its
\* handler did not know to be signed (publish, retry_delivery).
THEOREM UnsignedIsNotHandedHolds == Spec => []UnsignedIsNotHanded
<1>1. IInv => UnsignedIsNotHanded  BY DEF IInv
<1> QED  BY <1>1, Invariance, PTL

\* A session that waits in the order of the rows waits for a row above all it
\* has locked, and the session that has it waits for a higher one still.
LEMMA WaitRises ==
  ASSUME IInv, NEW s \in Sessions, NEW t \in Sessions,
         WaitsFor(s, t), session[t].flushing # <<>>, ~ Overrides(session[t]),
         NEW v \in Sessions, WaitsFor(t, v)
  PROVE  /\ Rank(Head(session[s].flushing)) < Rank(Head(session[t].flushing))
         /\ {Rank(Head(session[s].flushing)), Rank(Head(session[t].flushing))} \subseteq 1 .. 3
<1> DEFINE h == session[t]
           x == Head(session[s].flushing)
           y == Head(h.flushing)
<1>1. h # Idle  BY IdleFacts
<1>2. h \in Handlers /\ Disciplined(h)  BY <1>1 DEF IInv, Sound
<1>3. Ordered(h.locked, h.flushing)  BY <1>2 DEF Disciplined
<1>4. h.flushing \in Seq(Rows) /\ h.flushing # <<>>  BY <1>2 DEF Handlers
<1>5. y = h.flushing[1] /\ 1 \in DOMAIN h.flushing  BY <1>4, TailFacts
<1>6. x \in h.locked /\ y \in session[v].locked /\ t # v  BY DEF WaitsFor
<1>7. y \notin h.locked  BY <1>6 DEF IInv
<1> HIDE DEF x, y, h
<1>8. Rank(x) < Rank(y)  BY <1>3, <1>5, <1>6, <1>7 DEF Ordered
<1>9. Rank(x) \in 1 .. 3 /\ Rank(y) \in 1 .. 3  BY DEF Rank
<1> QED  BY <1>8, <1>9 DEF x, y, h

\* For any number of sessions: every deadlock includes a manual override that
\* has locked the NOTAM before the rows below it (mark_request_published).
THEOREM OnlyOverridesDeadlockHolds == Spec => []OnlyOverridesDeadlock
<1>1. IInv => OnlyOverridesDeadlock
  <2> SUFFICES ASSUME IInv, NEW C \in Cycles, \A s \in C : ~ Overrides(session[s])
               PROVE  FALSE
    BY DEF OnlyOverridesDeadlock, Overrides
  <2>1. C \subseteq Sessions /\ C # {} /\ \A s \in C : \E t \in C : WaitsFor(s, t)
    BY DEF Cycles
  <2> DEFINE rank(s) == Rank(Head(session[s].flushing))
  <2>2. ASSUME NEW s \in C, NEW t \in C, WaitsFor(s, t)
        PROVE  rank(s) < rank(t) /\ {rank(s), rank(t)} \subseteq 1 .. 3
    <3>1. PICK v \in C : WaitsFor(t, v)  BY <2>1
    <3>2. session[t].flushing # <<>>  BY <3>1 DEF WaitsFor
    <3> QED  BY <2>1, <2>2, <3>1, <3>2, WaitRises
  <2> HIDE DEF rank
  <2>3. PICK s0 \in C : TRUE  BY <2>1
  <2>4. PICK s1 \in C : WaitsFor(s0, s1)  BY <2>1
  <2>5. PICK s2 \in C : WaitsFor(s1, s2)  BY <2>1
  <2>6. PICK s3 \in C : WaitsFor(s2, s3)  BY <2>1
  <2>7. rank(s0) < rank(s1) /\ rank(s1) < rank(s2) /\ rank(s2) < rank(s3)
        /\ {rank(s0), rank(s1), rank(s2), rank(s3)} \subseteq 1 .. 3
    BY <2>2, <2>4, <2>5, <2>6
  <2> QED  BY <2>7
<1> QED  BY <1>1, Invariance, PTL

=============================================================================
