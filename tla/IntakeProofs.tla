----------------------------- MODULE IntakeProofs -----------------------------
(***************************************************************************)
(* What Intake guarantees for any mails, uploads, attachments and tasks.   *)
(***************************************************************************)
EXTENDS Intake, TLAPS, FiniteSetTheorems, SequenceTheorems

-----------------------------------------------------------------------------
(***************************************************************************)
(* The poller.  A mail that is still to be read has no request, and what   *)
(* the poll has added to its session is flagged, stored and new.           *)
(***************************************************************************)
Unread(i) ==
  /\ batch[i] \in arrived
  /\ \/ requests[batch[i]] = 0 /\ batch[i] \notin pending
     \/ poller = "flagging" /\ i = 1

MailInv ==
  /\ Mail!TypeOK
  /\ \A i, j \in DOMAIN batch : batch[i] = batch[j] => i = j
  /\ \A i \in DOMAIN batch : Unread(i)
  /\ \A m \in pending : requests[m] = 0 /\ m \in seen /\ m \in objects
  /\ \A m \in Mails : requests[m] <= 1 /\ (requests[m] = 1 => m \in seen /\ m \in objects)
  /\ poller \in {"storing", "flagging"} =>
       batch # <<>> /\ Head(batch) \in seen /\ Head(batch) \in polled
  /\ faults = 0 /\ polled \cap Faulty = {} =>
       \A m \in polled : \/ requests[m] = 1 \/ m \in pending
                         \/ poller = "storing" /\ m = Head(batch)

\* The head of a batch, and what remains of it.
LEMMA BatchFacts ==
  ASSUME NEW q \in Seq(Mails), q # <<>>
  PROVE  /\ Head(q) = q[1] /\ Head(q) \in Mails /\ 1 \in DOMAIN q
         /\ Tail(q) \in Seq(Mails)
         /\ \A i \in DOMAIN Tail(q) : i + 1 \in DOMAIN q /\ Tail(q)[i] = q[i + 1] /\ i + 1 # 1
         /\ \A i, j \in DOMAIN Tail(q) : i + 1 = j + 1 => i = j
OBVIOUS

\* The operators of FiniteSets that EmailIntake is given are those of this module.
LEMMA MailFinite ==
  ASSUME NEW S
  PROVE  Mail!IsFiniteSet(S) = IsFiniteSet(S) /\ Mail!Cardinality(S) = Cardinality(S)
<1>1. Mail!IsFiniteSet(S) = IsFiniteSet(S)  BY DEF Mail!IsFiniteSet, IsFiniteSet
<1>2. Mail!Cardinality(S) = Cardinality(S)  BY DEF Mail!Cardinality, Cardinality
<1> QED  BY <1>1, <1>2

LEMMA MailInit == Mail!Init => MailInv
<1> SUFFICES ASSUME Mail!Init  PROVE MailInv
  OBVIOUS
<1>1. <<>> \in Seq(Mails) /\ DOMAIN <<>> = {}  OBVIOUS
<1>2. Mail!TypeOK  BY <1>1, MailAssumption DEF Mail!Init, Mail!TypeOK, Mail!MailsAssumption
<1> QED  BY <1>1, <1>2 DEF Mail!Init, MailInv

LEMMA MailSearch ==
  ASSUME MailInv, Mail!Search
  PROVE  MailInv'
<1> DEFINE n == Cardinality(Mail!Found)
<1>1. poller = "sleeping" /\ pending = {} /\ poller' = "fetching"
      /\ UNCHANGED <<arrived, seen, pending, requests, objects, polled, faults>>
  BY DEF Mail!Search, MailInv, Mail!TypeOK
<1>2. PICK order \in [1 .. n -> Mail!Found] :
        (\A i, j \in DOMAIN order : order[i] = order[j] => i = j) /\ batch' = order
  BY MailFinite DEF Mail!Search
<1>3. n \in Nat
  <2>1. Mail!Found \subseteq Mails  BY DEF Mail!Found, MailInv, Mail!TypeOK
  <2>2. IsFiniteSet(Mails)  BY MailAssumption, MailFinite DEF Mail!MailsAssumption
  <2> QED  BY <2>1, <2>2, FS_Subset, FS_CardinalityType
<1> HIDE DEF n
<1>4. batch' \in Seq(Mails) /\ DOMAIN batch' = 1 .. n
      /\ \A i \in DOMAIN batch' : batch'[i] \in arrived \ seen
  BY <1>2, <1>3 DEF Mail!Found, MailInv, Mail!TypeOK
<1>5. \A i \in DOMAIN batch' : Unread(i)'
  BY <1>1, <1>4 DEF MailInv, Mail!TypeOK, Unread
<1> QED  BY <1>1, <1>2, <1>4, <1>5 DEF MailInv, Mail!TypeOK

LEMMA MailStep ==
  ASSUME MailInv, [Mail!Next]_mailVars
  PROVE  MailInv'
<1> USE DEF Mail!TypeOK
<1>1. ASSUME NEW m \in Mails, Mail!Arrive(m)  PROVE MailInv'
  BY <1>1 DEF MailInv, Unread, Mail!Arrive
<1>2. ASSUME NEW m \in Mails, Mail!ReadByHand(m)  PROVE MailInv'
  BY <1>2 DEF MailInv, Unread, Mail!ReadByHand
<1>3. CASE Mail!PassOver
  <2>1. /\ batch \in Seq(Mails) /\ batch # <<>> /\ batch' = Tail(batch)
        /\ poller = "fetching"
        /\ UNCHANGED <<arrived, seen, poller, pending, requests, objects, polled, faults>>
    BY <1>3 DEF Mail!PassOver, MailInv
  <2> QED  BY <2>1, BatchFacts DEF MailInv, Unread
<1>4. CASE Mail!Search  BY <1>4, MailSearch
<1>5. CASE Mail!Fetch
  <2>1. /\ batch \in Seq(Mails) /\ batch # <<>>
        /\ seen' = seen \cup {Head(batch)} /\ polled' = polled \cup {Head(batch)}
        /\ poller = "fetching" /\ poller' = "storing"
        /\ UNCHANGED <<arrived, batch, pending, requests, objects, faults>>
    BY <1>5 DEF Mail!Fetch, MailInv
  <2>2. Head(batch) \in Mails /\ Head(batch) = batch[1] /\ 1 \in DOMAIN batch
    BY <2>1, BatchFacts
  <2>3. batch[1] \in arrived  BY <2>1, <2>2 DEF MailInv, Unread
  <2>4. Mail!TypeOK'  BY <2>1, <2>2, <2>3 DEF MailInv
  <2>5. \A i \in DOMAIN batch : Unread(i)'  BY <2>1 DEF MailInv, Unread
  <2>6. (\A m \in pending : requests[m] = 0 /\ m \in seen /\ m \in objects)'
    BY <2>1 DEF MailInv
  <2>7. (\A m \in Mails : requests[m] <= 1 /\ (requests[m] = 1 => m \in seen /\ m \in objects))'
    BY <2>1 DEF MailInv
  <2>8. (faults = 0 /\ polled \cap Faulty = {} =>
           \A m \in polled : \/ requests[m] = 1 \/ m \in pending
                             \/ poller = "storing" /\ m = Head(batch))'
    BY <2>1 DEF MailInv
  <2> QED  BY <2>1, <2>4, <2>5, <2>6, <2>7, <2>8 DEF MailInv
<1>6. CASE Mail!Store
  BY <1>6, BatchFacts DEF MailInv, Unread, Mail!Store
<1>7. CASE Mail!Flag
  BY <1>7, BatchFacts DEF MailInv, Unread, Mail!Flag
<1>8. CASE Mail!Commit
  BY <1>8 DEF MailInv, Unread, Mail!Commit
<1>9. CASE Mail!Raise
  BY <1>9 DEF MailInv, Unread, Mail!Raise, Mail!Ended
<1>10. CASE Mail!Fault
  BY <1>10, MailAssumption DEF MailInv, Unread, Mail!Fault, Mail!Ended, Mail!MailsAssumption
<1>11. CASE Mail!Restart
  BY <1>11 DEF MailInv, Unread, Mail!Restart
<1>12. CASE UNCHANGED mailVars
  BY <1>12 DEF MailInv, Unread, mailVars
<1> QED  BY <1>1, <1>2, <1>3, <1>4, <1>5, <1>6, <1>7, <1>8, <1>9, <1>10, <1>11, <1>12
         DEF Mail!Next, Mail!Poll
\* What the poller promises follows from its invariant.
LEMMA MailPromises ==
  MailInv => /\ Mail!TypeOK /\ Mail!NoMailTwice /\ Mail!OnlyRollbacksLose /\ Mail!EvidenceIsStored
<1> SUFFICES ASSUME MailInv
             PROVE  /\ Mail!TypeOK /\ Mail!NoMailTwice /\ Mail!OnlyRollbacksLose
                    /\ Mail!EvidenceIsStored
  OBVIOUS
<1>1. Mail!TypeOK /\ Mail!NoMailTwice  BY DEF MailInv, Mail!NoMailTwice
<1>2. Mail!OnlyRollbacksLose  BY DEF MailInv, Mail!TypeOK, Mail!OnlyRollbacksLose
<1>3. Mail!EvidenceIsStored
  BY DEF MailInv, Mail!TypeOK, Mail!EvidenceIsStored
<1> QED  BY <1>1, <1>2, <1>3

-----------------------------------------------------------------------------
(***************************************************************************)
(* The evidence store, atomic or not.  An upload that is past its put, and *)
(* a row, have an object; no object is ever taken away.                    *)
(***************************************************************************)
PastPut == {"writing", "stored", "flushed", "answered"}

EvidenceInv(atomic) ==
  /\ Evidence(atomic)!TypeOK
  /\ \A u \in Uploads : /\ uploading[u] \in PastPut => object[KeyOf[u]] # "absent"
                        /\ uploading[u] = "answered" => KeyOf[u] \in rows
                        /\ atomic => uploading[u] # "writing"
  /\ \A k \in rows : object[k] # "absent"
  /\ Evidence(atomic)!OneRowEach

LEMMA EvidenceInit ==
  ASSUME NEW atomic \in BOOLEAN, Evidence(atomic)!Init
  PROVE  EvidenceInv(atomic)
BY EvidenceAssumption DEF Evidence!Init, Evidence!TypeOK, Evidence!OneRowEach,
   Evidence!UploadsAssumption, EvidenceInv, PastPut

LEMMA EvidenceStep ==
  ASSUME NEW atomic \in BOOLEAN, EvidenceInv(atomic), [Evidence(atomic)!Next]_evidenceVars
  PROVE  EvidenceInv(atomic)'
<1> USE EvidenceAssumption
        DEF EvidenceInv, PastPut, Evidence!UploadsAssumption, Evidence!TypeOK, Evidence!OneRowEach
<1>1. CASE Evidence(atomic)!Triage  BY <1>1 DEF Evidence!Triage
<1>2. CASE Evidence(atomic)!Crash  BY <1>2 DEF Evidence!Crash
<1>3. ASSUME NEW u \in Uploads, Evidence(atomic)!Receive(u)  PROVE EvidenceInv(atomic)'
  BY <1>3 DEF Evidence!Receive, Evidence!Go
<1>4. ASSUME NEW u \in Uploads, Evidence(atomic)!Present(u)  PROVE EvidenceInv(atomic)'
  BY <1>4 DEF Evidence!Present, Evidence!Go
<1>5. ASSUME NEW u \in Uploads, Evidence(atomic)!Write(u)  PROVE EvidenceInv(atomic)'
  BY <1>5 DEF Evidence!Write, Evidence!Go
<1>6. ASSUME NEW u \in Uploads, Evidence(atomic)!Fill(u)  PROVE EvidenceInv(atomic)'
  BY <1>6 DEF Evidence!Fill, Evidence!Go
<1>7. ASSUME NEW u \in Uploads, Evidence(atomic)!Flush(u)  PROVE EvidenceInv(atomic)'
  BY <1>7 DEF Evidence!Flush, Evidence!Go
<1>8. ASSUME NEW u \in Uploads, Evidence(atomic)!Commit(u)  PROVE EvidenceInv(atomic)'
  BY <1>8 DEF Evidence!Commit, Evidence!Go
<1>9. ASSUME NEW u \in Uploads, Evidence(atomic)!Fail(u)  PROVE EvidenceInv(atomic)'
  BY <1>9 DEF Evidence!Fail
<1>10. CASE UNCHANGED evidenceVars  BY <1>10 DEF evidenceVars
<1> QED  BY <1>1, <1>2, <1>3, <1>4, <1>5, <1>6, <1>7, <1>8, <1>9, <1>10
         DEF Evidence!Next, Evidence!Upload

\* What the store promises; that the evidence is whole, where a put is atomic.
LEMMA EvidencePromises ==
  ASSUME NEW atomic \in BOOLEAN, EvidenceInv(atomic)
  PROVE  /\ Evidence(atomic)!TypeOK
         /\ Evidence(Local)!OneRowEach /\ Evidence(Local)!RowsHaveObjects
         /\ atomic => Evidence(Minio)!EvidenceIsWhole
BY DEF EvidenceInv, Evidence!TypeOK, Evidence!OneRowEach, Evidence!RowsHaveObjects,
   Evidence!EvidenceIsWhole, Evidence!Served

-----------------------------------------------------------------------------
(***************************************************************************)
(* Extraction.  What a task has picked is an attachment, an upload its own *)
(* and any other task a stored one; what its run says follows how far it   *)
(* is; and what is stored has a finished run.                              *)
(***************************************************************************)
Picked == {"picked", "running", "read", "flushed"}
Finished == {"succeeded", "failed"}

TaskInv(o, t) ==
  /\ pc[t] \in Picked => of[t] \in Extraction(o)!Attachments
  /\ pc[t] = "running" => status[t] = "running"
  /\ pc[t] \in {"read", "flushed"} => status[t] \in Finished
  /\ t \in Files /\ of[t] # None => of[t] = t
  /\ t \notin Files /\ of[t] # None => of[t] \in attached
  /\ t \in runs => pc[t] = "ended" /\ status[t] \in Finished /\ of[t] \in Extraction(o)!Attachments

RunsInv(o) ==
  /\ Extraction(o)!TypeOK
  /\ \A t \in Extraction(o)!Tasks : TaskInv(o, t)
  /\ Extraction(o)!RecordedTogether
  /\ Extraction(o)!DataIsOfARun

\* What the proofs need of the constants.
LEMMA ExtractionConstants ==
  ASSUME NEW o \in BOOLEAN
  PROVE  /\ Extraction(o)!Attachments = Files \cup Portal
         /\ Extraction(o)!Tasks = Files \cup Reruns \cup Jobs[o]
         /\ Files \cap (Portal \cup Reruns \cup Jobs[o]) = {}
         /\ \A j \in Jobs[o] : JobOf[o][j] \in Extraction(o)!Attachments
         /\ \A a \in Extraction(o)!Attachments :
              Confidence[a] \in 0..100 /\ Confidence[a] # 100 /\ a # None
         /\ \A t \in Extraction(o)!Tasks : t \notin {"idle", "done"}
BY ExtractionAssumption
   DEF Extraction!ExtractionAssumption, Extraction!NoneAssumption, Extraction!Attachments,
       Extraction!Tasks, Extraction!Idle

LEMMA RunsInit ==
  ASSUME NEW o \in BOOLEAN, Extraction(o)!Init
  PROVE  RunsInv(o)
<1> DEFINE none == [data |-> None, confidence |-> 100]
           new  == [value |-> "proposed", by |-> None]
<1>1. none \in Extraction(o)!Columns /\ new \in Extraction(o)!Fields
  BY DEF Extraction!Columns, Extraction!Fields, Extraction!Values, Extraction!Persons,
         Extraction!Null, Extraction!Proposed
<1>2. /\ attached = {} /\ runs = {} /\ audits = {} /\ clock = 0
      /\ madeAt = [a \in Extraction(o)!Attachments |-> 0]
      /\ ranAt = [t \in Extraction(o)!Tasks |-> 0]
      /\ request = none /\ view = [t \in Extraction(o)!Tasks |-> none]
      /\ pc = [t \in Extraction(o)!Tasks |-> "idle"]
      /\ of = [t \in Extraction(o)!Tasks |-> None]
      /\ status = [t \in Extraction(o)!Tasks |-> "none"]
      /\ field = [t \in Extraction(o)!Tasks |-> new]
      /\ call = [c \in Accepts[o] |-> [at |-> "idle", seen |-> new]]
  BY DEF Extraction!Init, Extraction!Idle, Extraction!Null, Extraction!Proposed
<1>3. request.data = None  BY <1>2
<1> HIDE DEF none, new
<1>4. Extraction(o)!TypeOK  BY <1>1, <1>2 DEF Extraction!TypeOK, Extraction!Idle
<1>5. \A t \in Extraction(o)!Tasks : TaskInv(o, t)  BY <1>2 DEF TaskInv, Picked
<1>6. Extraction(o)!RecordedTogether  BY <1>2 DEF Extraction!RecordedTogether
<1>7. Extraction(o)!DataIsOfARun  BY <1>3 DEF Extraction!DataIsOfARun
<1> QED  BY <1>4, <1>5, <1>6, <1>7 DEF RunsInv

\* A request's row is written with what a successful task read, or not at all.
LEMMA WrittenIs ==
  ASSUME NEW o \in BOOLEAN, RunsInv(o), NEW t \in Extraction(o)!Tasks, pc[t] = "flushed"
  PROVE  /\ Extraction(o)!Written(t) \in Extraction(o)!Columns
         /\ \/ Extraction(o)!Written(t).data = request.data
            \/ Extraction(o)!Written(t).data = of[t] /\ status[t] = "succeeded"
<1>1. /\ request \in [data : Extraction(o)!Attachments \cup {None}, confidence : 0 .. 100]
      /\ view[t] \in [data : Extraction(o)!Attachments \cup {None}, confidence : 0 .. 100]
  BY DEF RunsInv, Extraction!TypeOK, Extraction!Columns, Extraction!Null
<1>2. status[t] \in Finished /\ of[t] \in Extraction(o)!Attachments
  BY DEF RunsInv, TaskInv, Picked
<1>3. Confidence[of[t]] \in 0 .. 100  BY <1>2, ExtractionConstants
<1>4. CASE status[t] = "failed"
  <2>1. Extraction(o)!Assigned(t) = view[t]  BY <1>4 DEF Extraction!Assigned
  <2>2. Extraction(o)!Written(t) = [c \in DOMAIN request |-> request[c]]
    BY <2>1 DEF Extraction!Written
  <2>3. Extraction(o)!Written(t) = request  BY <1>1, <2>2
  <2> QED  BY <1>1, <2>3 DEF Extraction!Columns, Extraction!Null
<1>5. CASE status[t] = "succeeded"
  <2>1. Extraction(o)!Assigned(t) = [data |-> of[t], confidence |-> Confidence[of[t]]]
    BY <1>5 DEF Extraction!Assigned
  <2>2. DOMAIN request = {"data", "confidence"}  BY <1>1
  <2> DEFINE w == Extraction(o)!Written(t)
  <2>3. w = [c \in {"data", "confidence"} |->
               IF Extraction(o)!Assigned(t)[c] # view[t][c] THEN Extraction(o)!Assigned(t)[c]
               ELSE request[c]]
    BY <2>2 DEF Extraction!Written
  <2>4. w = [data |-> IF of[t] # view[t].data THEN of[t] ELSE request.data,
             confidence |-> IF Confidence[of[t]] # view[t].confidence THEN Confidence[of[t]]
                            ELSE request.confidence]
    BY <2>1, <2>3
  <2> QED  BY <1>1, <1>2, <1>3, <1>5, <2>4 DEF Extraction!Columns, Extraction!Null
<1> QED  BY <1>2, <1>4, <1>5 DEF Finished

\* What a call makes of the field it loaded, and of what it finds there.
LEMMA AcceptedIs ==
  ASSUME NEW o \in BOOLEAN, RunsInv(o), NEW c \in Accepts[o],
         NEW held \in Extraction(o)!Fields
  PROVE  /\ Extraction(o)!Accepted(c) \in Extraction(o)!Fields
         /\ Extraction(o)!Accepted(c).value \in Extraction(o)!Values
         /\ Extraction(o)!Accepted(c).by = Officer[o][c]
         /\ Officer[o][c] \in Extraction(o)!Persons
         /\ Extraction(o)!Saved(c, held) \in Extraction(o)!Fields
         /\ held = call[c].seen => Extraction(o)!Saved(c, held) = Extraction(o)!Accepted(c)
<1> DEFINE x == Extraction(o)!Accepted(c)
<1>1. call[c].seen \in Extraction(o)!Fields  BY DEF RunsInv, Extraction!TypeOK
<1>2. Officer[o][c] \in Extraction(o)!Persons  BY DEF Extraction!Persons
<1>3. /\ x \in Extraction(o)!Fields
      /\ x.value \in Extraction(o)!Values /\ x.by = Officer[o][c]
  BY <1>1, <1>2 DEF Extraction!Accepted, Extraction!Fields, Extraction!Values
<1>4. DOMAIN held = {"value", "by"} /\ DOMAIN x = {"value", "by"}
  BY <1>3 DEF Extraction!Fields
<1>5. Extraction(o)!Saved(c, held) =
        [k \in {"value", "by"} |-> IF x[k] # call[c].seen[k] THEN x[k] ELSE held[k]]
  BY <1>4 DEF Extraction!Saved
<1> HIDE DEF x
<1>6. Extraction(o)!Saved(c, held) =
        [value |-> IF x.value # call[c].seen.value THEN x.value ELSE held.value,
         by    |-> IF x.by # call[c].seen.by THEN x.by ELSE held.by]
  BY <1>5
<1>7. Extraction(o)!Saved(c, held) \in Extraction(o)!Fields
  BY <1>3, <1>6 DEF Extraction!Fields
<1>8. ASSUME held = call[c].seen  PROVE Extraction(o)!Saved(c, held) = x
  BY <1>3, <1>6, <1>8 DEF Extraction!Fields
<1> QED  BY <1>2, <1>3, <1>7, <1>8 DEF x

\* A stamp is the clock's next value.
LEMMA Stamped ==
  ASSUME NEW S, NEW n \in Nat, NEW f \in [S -> 0 .. n], NEW x
  PROVE  f \in [S -> 0 .. n + 1] /\ [f EXCEPT ![x] = n + 1] \in [S -> 0 .. n + 1]
<1>1. 0 .. n \subseteq 0 .. n + 1 /\ n + 1 \in 0 .. n + 1  OBVIOUS
<1> QED  BY <1>1

LEMMA RunsStep ==
  ASSUME NEW o \in BOOLEAN, RunsInv(o), [Extraction(o)!Next]_extractionVars
  PROVE  RunsInv(o)'
<1> DEFINE A == Extraction(o)!Attachments
           T == Extraction(o)!Tasks
<1> USE DEF Extraction!Idle, Extraction!Go, Extraction!TypeOK, Extraction!RecordedTogether,
            Extraction!DataIsOfARun, TaskInv, Picked, Finished
<1>1. ASSUME NEW a \in Portal, Extraction(o)!PortalUpload(a)  PROVE RunsInv(o)'
  <2>1. /\ attached' = attached \cup {a} /\ clock' = clock + 1
        /\ madeAt' = [madeAt EXCEPT ![a] = clock + 1] /\ a \in A \ Files
        /\ UNCHANGED <<ranAt, request, pc, view, of, status, runs, field, audits, call>>
    BY <1>1, ExtractionConstants
       DEF Extraction!PortalUpload, Extraction!Stamp, Extraction!tasks, Extraction!fields
  <2>2. madeAt' \in [A -> 0 .. clock'] /\ ranAt' \in [T -> 0 .. clock'] /\ clock' \in Nat
    BY <2>1, Stamped DEF RunsInv
  <2> QED  BY <2>1, <2>2 DEF RunsInv
<1>2. ASSUME NEW t \in T, Extraction(o)!Start(t)  PROVE RunsInv(o)'
  BY <1>2, ExtractionConstants DEF RunsInv, Extraction!Start, Extraction!fields
<1>3. ASSUME NEW t \in T, Extraction(o)!PickUpload(t)  PROVE RunsInv(o)'
  <2>1. /\ of' = [of EXCEPT ![t] = t] /\ clock' = clock + 1 /\ t \in A \cap Files
        /\ madeAt' = [madeAt EXCEPT ![t] = clock + 1]
        /\ pc[t] = "loaded" /\ pc' = [pc EXCEPT ![t] = "picked"]
        /\ UNCHANGED <<attached, ranAt, request, view, status, runs, field, audits, call>>
    BY <1>3, ExtractionConstants
       DEF Extraction!PickUpload, Extraction!Take, Extraction!Stamp, Extraction!fields
  <2>2. madeAt' \in [A -> 0 .. clock'] /\ ranAt' \in [T -> 0 .. clock'] /\ clock' \in Nat
    BY <2>1, Stamped DEF RunsInv
  <2> QED  BY <2>1, <2>2 DEF RunsInv
<1>4. ASSUME NEW t \in T, Extraction(o)!PickNewest(t)  PROVE RunsInv(o)'
  BY <1>4, ExtractionConstants
     DEF RunsInv, Extraction!PickNewest, Extraction!Take, Extraction!IsNewest, Extraction!fields
<1>5. ASSUME NEW t \in T, Extraction(o)!PickJob(t)  PROVE RunsInv(o)'
  BY <1>5, ExtractionConstants
     DEF RunsInv, Extraction!PickJob, Extraction!Take, Extraction!fields
<1>6. ASSUME NEW t \in T, Extraction(o)!NothingToRead(t)  PROVE RunsInv(o)'
  BY <1>6 DEF RunsInv, Extraction!NothingToRead, Extraction!fields
<1>7. ASSUME NEW t \in T, Extraction(o)!Begin(t)  PROVE RunsInv(o)'
  BY <1>7 DEF RunsInv, Extraction!Begin, Extraction!fields
<1>8. ASSUME NEW t \in T, Extraction(o)!Read(t)  PROVE RunsInv(o)'
  BY <1>8 DEF RunsInv, Extraction!Read, Extraction!fields
<1>9. ASSUME NEW t \in T, Extraction(o)!Flush(t)  PROVE RunsInv(o)'
  BY <1>9 DEF RunsInv, Extraction!Flush, Extraction!fields
<1>10. ASSUME NEW t \in T, Extraction(o)!FlushRefused(t)  PROVE RunsInv(o)'
  BY <1>10 DEF RunsInv, Extraction!FlushRefused, Extraction!fields
<1>11. ASSUME NEW t \in T, Extraction(o)!Commit(t)  PROVE RunsInv(o)'
  <2> DEFINE w == Extraction(o)!Written(t)
  <2>1. /\ pc[t] = "flushed" /\ pc' = [pc EXCEPT ![t] = "ended"]
        /\ runs' = runs \cup {t} /\ attached' = attached \cup {of[t]} /\ request' = w
        /\ UNCHANGED <<madeAt, ranAt, clock, view, of, status, field, audits, call>>
    BY <1>11 DEF Extraction!Commit, Extraction!fields
  <2>2. /\ w \in Extraction(o)!Columns
        /\ \/ w.data = request.data
           \/ w.data = of[t] /\ status[t] = "succeeded"
    BY <2>1, WrittenIs
  <2> HIDE DEF w
  <2>3. status[t] \in Finished /\ of[t] \in A /\ of[t] # None
    BY <2>1, ExtractionConstants DEF RunsInv
  <2>4. Extraction(o)!TypeOK'  BY <2>1, <2>2, <2>3 DEF RunsInv
  <2>5. \A u \in T : TaskInv(o, u)'  BY <2>1, <2>3 DEF RunsInv
  <2>6. Extraction(o)!RecordedTogether'
    BY <2>1, <2>3, ExtractionConstants DEF RunsInv
  <2>7. Extraction(o)!DataIsOfARun'  BY <2>1, <2>2 DEF RunsInv
  <2> QED  BY <2>4, <2>5, <2>6, <2>7 DEF RunsInv
<1>12. ASSUME NEW t \in T, Extraction(o)!Abort(t)  PROVE RunsInv(o)'
  BY <1>12 DEF RunsInv, Extraction!Abort, Extraction!InTransaction, Extraction!fields
<1>13. ASSUME NEW c \in Accepts[o], NEW t \in T, Extraction(o)!LoadField(c, t)  PROVE RunsInv(o)'
  BY <1>13 DEF RunsInv, Extraction!LoadField, Extraction!tasks
<1>14. ASSUME NEW c \in Accepts[o], Extraction(o)!SaveField(c)  PROVE RunsInv(o)'
  <2>1. PICK r \in T :
          /\ field' = [field EXCEPT ![r] = Extraction(o)!Saved(c, field[r])]
          /\ audits' = audits \cup {[run |-> r, value |-> Extraction(o)!Accepted(c).value,
                                    by |-> Officer[o][c]]}
          /\ call' = [call EXCEPT ![c].at = "done"]
          /\ UNCHANGED <<attached, madeAt, ranAt, clock, request, pc, view, of, status, runs>>
    BY <1>14 DEF Extraction!SaveField, Extraction!tasks
  <2>2. /\ Extraction(o)!Saved(c, field[r]) \in Extraction(o)!Fields
        /\ Extraction(o)!Accepted(c).value \in Extraction(o)!Values
        /\ Officer[o][c] \in Extraction(o)!Persons
    BY AcceptedIs, <2>1 DEF RunsInv
  <2> QED  BY <2>1, <2>2 DEF RunsInv
<1>15. CASE UNCHANGED extractionVars
  BY <1>15 DEF RunsInv, extractionVars
<1> QED
  BY <1>1, <1>2, <1>3, <1>4, <1>5, <1>6, <1>7, <1>8, <1>9, <1>10, <1>11, <1>12, <1>13, <1>14, <1>15
  DEF Extraction!Next, Extraction!Step, Extraction!Pick

\* What is promised of transactions that overlap.
LEMMA RunsPromises ==
  ASSUME NEW o \in BOOLEAN, RunsInv(o)
  PROVE  /\ Extraction(o)!TypeOK
         /\ Extraction(Overlapping)!DataIsOfARun /\ Extraction(Overlapping)!RecordedTogether
         /\ Extraction(Overlapping)!RunsAreFinished
BY DEF RunsInv, TaskInv, Finished, Extraction!TypeOK, Extraction!DataIsOfARun,
       Extraction!RecordedTogether, Extraction!RunsAreFinished

-----------------------------------------------------------------------------
(***************************************************************************)
(* Extraction, one transaction at a time.  At most one task or call is in  *)
(* its transaction, and what it loaded is still there; the run it begins   *)
(* is newer than every stored one.                                         *)
(***************************************************************************)
Active(t) == pc[t] \in Picked \cup {"loaded"}
Calling(c) == call[c].at \notin {"idle", "done"}

Better == {t \in runs : status[t] = "succeeded"}
Older(k, m) == ranAt[k] < ranAt[m]

AloneInv(o) ==
  /\ \A t, u \in Extraction(o)!Tasks : Active(t) /\ Active(u) => t = u
  /\ \A t \in Extraction(o)!Tasks, c \in Accepts[o] : ~ (Active(t) /\ Calling(c))
  /\ \A c, d \in Accepts[o] : Calling(c) /\ Calling(d) => c = d

LoadedInv(o) ==
  /\ \A t \in Extraction(o)!Tasks : Active(t) => view[t] = request
  /\ \A c \in Accepts[o] : Calling(c) => call[c].seen = field[call[c].at]

LatestInv(o) ==
  /\ \A t \in runs, u \in Extraction(o)!Tasks : pc[u] \in {"running", "read", "flushed"} => Older(t, u)
  /\ Better = {} => request.data = None
  /\ Better # {} => \E m \in Better : /\ request.data = of[m]
                                      /\ \A k \in Better \ {m} : Older(k, m)

SerialInv(o) ==
  /\ RunsInv(o)
  /\ AloneInv(o) /\ LoadedInv(o) /\ LatestInv(o)
  /\ Extraction(o)!DataHasItsConfidence
  /\ Extraction(o)!AcceptedAsAudited

LEMMA SerialInit ==
  ASSUME NEW o \in BOOLEAN, Extraction(o)!Init
  PROVE  SerialInv(o)
<1> DEFINE new == [value |-> "proposed", by |-> None]
<1>1. /\ runs = {} /\ request.data = None /\ request.confidence = 100
      /\ pc = [t \in Extraction(o)!Tasks |-> "idle"]
      /\ field = [t \in Extraction(o)!Tasks |-> new] /\ new.by = None
      /\ call = [c \in Accepts[o] |-> [at |-> "idle", seen |-> new]]
  BY DEF Extraction!Init, Extraction!Idle, Extraction!Null, Extraction!Proposed
<1> HIDE DEF new
<1>2. RunsInv(o)  BY RunsInit
<1>3. AloneInv(o)  BY <1>1 DEF AloneInv, Active, Calling, Picked
<1>4. LoadedInv(o)  BY <1>1 DEF LoadedInv, Active, Calling, Picked
<1>5. LatestInv(o)  BY <1>1 DEF LatestInv, Better
<1>6. Extraction(o)!DataHasItsConfidence
  BY <1>1 DEF Extraction!DataHasItsConfidence, Extraction!Null
<1>7. Extraction(o)!AcceptedAsAudited
  BY <1>1 DEF Extraction!AcceptedAsAudited
<1> QED  BY <1>2, <1>3, <1>4, <1>5, <1>6, <1>7 DEF SerialInv

\* A step of a transaction that neither begins a run nor stores one.
LEMMA StillLoaded ==
  ASSUME NEW o \in BOOLEAN, SerialInv(o), RunsInv(o)',
         NEW t \in Extraction(o)!Tasks, Active(t),
         NEW next, pc' = [pc EXCEPT ![t] = next],
         UNCHANGED <<request, view, status, runs, ranAt, field, audits, call>>,
         \A r \in runs : of'[r] = of[r],
         next \in {"picked", "flushed", "ended", "stopped"},
         next = "flushed" => pc[t] = "read"
  PROVE  SerialInv(o)'
<1>1. pc \in [Extraction(o)!Tasks -> {"idle", "loaded", "picked", "running", "read",
                                      "flushed", "ended", "stopped"}]
  BY DEF SerialInv, RunsInv, Extraction!TypeOK, Extraction!Idle
<1>2. \A u \in Extraction(o)!Tasks : Active(u)' => Active(u)  BY <1>1 DEF Active, Picked
<1>3. \A c \in Accepts[o] : Calling(c)' = Calling(c)  BY DEF Calling
<1>4. AloneInv(o)'  BY <1>2, <1>3 DEF SerialInv, AloneInv
<1>5. LoadedInv(o)'  BY <1>2, <1>3 DEF SerialInv, LoadedInv
<1>6. LatestInv(o)'  BY <1>1 DEF SerialInv, LatestInv, Better, Older
<1>7. (Extraction(o)!DataHasItsConfidence /\ Extraction(o)!AcceptedAsAudited)'
  BY DEF SerialInv, Extraction!DataHasItsConfidence, Extraction!AcceptedAsAudited
<1> QED  BY <1>4, <1>5, <1>6, <1>7 DEF SerialInv

LEMMA SerialCommit ==
  ASSUME NEW o \in BOOLEAN, SerialInv(o), RunsInv(o)',
         NEW t \in Extraction(o)!Tasks, Extraction(o)!Commit(t)
  PROVE  SerialInv(o)'
<1> DEFINE T == Extraction(o)!Tasks
           w == Extraction(o)!Written(t)
<1>1. /\ pc \in [T -> {"idle", "loaded", "picked", "running", "read", "flushed", "ended", "stopped"}]
      /\ request \in [data : Extraction(o)!Attachments \cup {None}, confidence : 0 .. 100]
      /\ runs \subseteq T
  BY DEF SerialInv, RunsInv, Extraction!TypeOK, Extraction!Idle, Extraction!Columns, Extraction!Null
<1>2. /\ pc[t] = "flushed" /\ pc' = [pc EXCEPT ![t] = "ended"]
      /\ runs' = runs \cup {t} /\ request' = w
      /\ UNCHANGED <<ranAt, view, of, status, field, audits, call>>
  BY DEF Extraction!Commit, Extraction!Go, Extraction!fields
<1>3. Active(t) /\ view[t] = request  BY <1>2 DEF SerialInv, LoadedInv, Active, Picked
<1>4. t \notin runs /\ status[t] \in Finished /\ of[t] \in Extraction(o)!Attachments
  BY <1>2 DEF SerialInv, RunsInv, TaskInv, Picked
<1>5. w = Extraction(o)!Assigned(t)
  <2>1. \/ Extraction(o)!Assigned(t) = request
        \/ Extraction(o)!Assigned(t) = [data |-> of[t], confidence |-> Confidence[of[t]]]
    BY <1>3 DEF Extraction!Assigned
  <2>2. DOMAIN request = {"data", "confidence"} /\ DOMAIN Extraction(o)!Assigned(t) = {"data", "confidence"}
    BY <1>1, <2>1
  <2>3. w = [c \in {"data", "confidence"} |-> Extraction(o)!Assigned(t)[c]]
    BY <1>3, <2>2 DEF Extraction!Written
  <2> QED  BY <1>1, <2>1, <2>3
<1> HIDE DEF w
<1>6. \A u \in T : ~ Active(u)'
  BY <1>1, <1>2, <1>3 DEF SerialInv, AloneInv, Active, Picked
<1>7. AloneInv(o)'  BY <1>2, <1>6 DEF SerialInv, AloneInv, Calling
<1>8. LoadedInv(o)'
  BY <1>2, <1>6 DEF SerialInv, LoadedInv, Calling
<1>9. (Extraction(o)!DataHasItsConfidence /\ LatestInv(o))'
  <2>1. \A r \in runs', u \in T : pc'[u] \notin {"running", "read", "flushed"}
    BY <1>6 DEF Active, Picked
  <2>2. CASE status[t] = "failed"
    <3>1. request' = request  BY <1>2, <1>3, <1>5, <2>2 DEF Extraction!Assigned
    <3>2. Better' = Better  BY <1>2, <2>2 DEF Better
    <3> QED
      BY <1>2, <2>1, <3>1, <3>2 DEF SerialInv, LatestInv, Older, Extraction!DataHasItsConfidence
  <2>3. CASE status[t] = "succeeded"
    <3>1. request'.data = of[t] /\ request'.confidence = Confidence[of[t]]
      BY <1>2, <1>5, <2>3 DEF Extraction!Assigned
    <3>2. Better' = Better \cup {t}  BY <1>2, <2>3 DEF Better
    <3>3. \A k \in Better : Older(k, t)  BY <1>2 DEF SerialInv, LatestInv, Better
    <3>4. of[t] # None  BY <1>4, ExtractionConstants
    <3>5. Extraction(o)!DataHasItsConfidence'
      BY <3>1, <3>4 DEF Extraction!DataHasItsConfidence
    <3>6. \A k \in Better' \ {t} : Older(k, t)'  BY <1>2, <3>2, <3>3 DEF Older
    <3>7. request'.data = of'[t] /\ t \in Better'  BY <1>2, <3>1, <3>2
    <3> QED  BY <2>1, <3>5, <3>6, <3>7 DEF LatestInv
  <2> QED  BY <1>4, <2>2, <2>3 DEF Finished
<1>10. Extraction(o)!AcceptedAsAudited'
  BY <1>2 DEF SerialInv, Extraction!AcceptedAsAudited
<1> QED  BY <1>7, <1>8, <1>9, <1>10 DEF SerialInv

\* A task begins its transaction, its run, or has read its attachment.
LEMMA SerialBegin ==
  ASSUME NEW o \in BOOLEAN, ~ o, SerialInv(o), RunsInv(o)', NEW t \in Extraction(o)!Tasks,
         Extraction(o)!Start(t) \/ Extraction(o)!Begin(t) \/ Extraction(o)!Read(t)
  PROVE  SerialInv(o)'
<1> DEFINE T == Extraction(o)!Tasks
<1>1. /\ pc \in [T -> {"idle", "loaded", "picked", "running", "read", "flushed", "ended", "stopped"}]
      /\ runs \subseteq T /\ t \in DOMAIN view /\ t \in DOMAIN status /\ clock \in Nat
      /\ ranAt \in [T -> 0 .. clock]
  BY DEF SerialInv, RunsInv, Extraction!TypeOK, Extraction!Idle
<1>2. UNCHANGED <<request, of, runs, field, audits, call>> /\ pc[t] # "ended"
  BY DEF Extraction!Start, Extraction!Begin, Extraction!Read, Extraction!Go, Extraction!fields,
         Extraction!Idle
<1>3. t \notin runs  BY <1>2 DEF SerialInv, RunsInv, TaskInv
<1>4. (Extraction(o)!DataHasItsConfidence /\ Extraction(o)!AcceptedAsAudited)'
  BY <1>2 DEF SerialInv, Extraction!DataHasItsConfidence, Extraction!AcceptedAsAudited
<1>5. CASE Extraction(o)!Start(t)
  <2>1. /\ \A u \in T : ~ Active(u)
        /\ \A c \in Accepts[o] : ~ Calling(c)
    BY <1>1, <1>5
       DEF Extraction!Start, Extraction!Free, Extraction!InTransaction, Extraction!Idle, Active,
           Picked, Calling
  <2>2. /\ pc[t] = "idle" /\ pc' = [pc EXCEPT ![t] = "loaded"]
        /\ view' = [view EXCEPT ![t] = request] /\ UNCHANGED <<ranAt, status>>
    BY <1>5 DEF Extraction!Start, Extraction!Go, Extraction!fields, Extraction!Idle
  <2>3. /\ \A u \in T \ {t} : ~ Active(u)'
        /\ \A c \in Accepts[o] : ~ Calling(c)'
    BY <1>1, <1>2, <2>1, <2>2 DEF Active, Picked, Calling
  <2>4. view'[t] = request'  BY <1>1, <1>2, <2>2
  <2>5. AloneInv(o)' /\ LoadedInv(o)'  BY <2>3, <2>4 DEF AloneInv, LoadedInv
  <2>6. LatestInv(o)'  BY <1>1, <1>2, <2>2 DEF SerialInv, LatestInv, Better, Older
  <2> QED  BY <1>4, <2>5, <2>6 DEF SerialInv
<1>6. CASE Extraction(o)!Begin(t)
  <2>1. /\ pc[t] = "picked" /\ pc' = [pc EXCEPT ![t] = "running"]
        /\ ranAt' = [ranAt EXCEPT ![t] = clock + 1] /\ status' = [status EXCEPT ![t] = "running"]
        /\ UNCHANGED view
    BY <1>6 DEF Extraction!Begin, Extraction!Go, Extraction!fields
  <2>2. /\ \A u \in T : Active(u)' = Active(u)
        /\ \A c \in Accepts[o] : Calling(c)' = Calling(c)
    BY <1>1, <1>2, <2>1 DEF Active, Picked, Calling
  <2>3. AloneInv(o)' /\ LoadedInv(o)'
    BY <1>2, <2>1, <2>2 DEF SerialInv, AloneInv, LoadedInv
  <2>4. Better' = Better  BY <1>2, <1>3, <2>1 DEF Better
  <2>5. \A r \in runs : r # t /\ ranAt'[r] = ranAt[r] /\ ranAt[r] < clock + 1
    BY <1>1, <1>3, <2>1
  <2>6. \A u \in T \ {t} : pc'[u] \notin {"running", "read", "flushed"}
    BY <1>1, <2>1 DEF SerialInv, AloneInv, Active, Picked
  <2>7. \A r \in runs : Older(r, t)'  BY <1>1, <2>1, <2>5 DEF Older
  <2>8. \A k, m \in Better : Older(k, m)' = Older(k, m)  BY <2>5 DEF Better, Older
  <2>9. LatestInv(o)'
    BY <1>2, <2>4, <2>6, <2>7, <2>8 DEF SerialInv, LatestInv
  <2> QED  BY <1>4, <2>3, <2>9 DEF SerialInv
<1>7. CASE Extraction(o)!Read(t)
  <2>1. /\ pc[t] = "running" /\ pc' = [pc EXCEPT ![t] = "read"]
        /\ \A r \in T \ {t} : status'[r] = status[r] /\ view'[r] = view[r]
        /\ view'[t] \in {request, view[t]} /\ UNCHANGED ranAt
    BY <1>1, <1>7 DEF Extraction!Read, Extraction!Go, Extraction!fields, SerialInv, RunsInv,
                      Extraction!TypeOK
  <2>2. /\ \A u \in T : Active(u)' = Active(u)
        /\ \A c \in Accepts[o] : Calling(c)' = Calling(c)
    BY <1>1, <1>2, <2>1 DEF Active, Picked, Calling
  <2>3. AloneInv(o)'  BY <2>2 DEF SerialInv, AloneInv
  <2>4. LoadedInv(o)'  BY <1>2, <2>1, <2>2 DEF SerialInv, LoadedInv
  <2>5. Better' = Better  BY <1>1, <1>2, <1>3, <2>1 DEF Better
  <2>6. LatestInv(o)'  BY <1>1, <1>2, <2>1, <2>5 DEF SerialInv, LatestInv, Older
  <2> QED  BY <1>4, <2>3, <2>4, <2>6 DEF SerialInv
<1> QED  BY <1>5, <1>6, <1>7

\* An officer's call loads a field, and saves it.
LEMMA SerialCall ==
  ASSUME NEW o \in BOOLEAN, ~ o, SerialInv(o), RunsInv(o)', NEW c \in Accepts[o],
         Extraction(o)!SaveField(c) \/ \E t \in Extraction(o)!Tasks : Extraction(o)!LoadField(c, t)
  PROVE  SerialInv(o)'
<1> DEFINE T == Extraction(o)!Tasks
<1>1. /\ call \in [Accepts[o] -> [at : {"idle", "done"} \cup T, seen : Extraction(o)!Fields]]
      /\ field \in [T -> Extraction(o)!Fields]
  BY DEF SerialInv, RunsInv, Extraction!TypeOK, Extraction!Idle
<1>2. UNCHANGED <<request, pc, view, of, status, runs, ranAt>>
  BY DEF Extraction!SaveField, Extraction!LoadField, Extraction!tasks
<1>3. (Extraction(o)!DataHasItsConfidence)' /\ LatestInv(o)'
  BY <1>2 DEF SerialInv, Extraction!DataHasItsConfidence, LatestInv, Better, Older
<1>4. \A u \in T : Active(u)' = Active(u)  BY <1>2 DEF Active
<1>5. ASSUME NEW t \in T, Extraction(o)!LoadField(c, t)  PROVE SerialInv(o)'
  <2>1. /\ call' = [call EXCEPT ![c] = [at |-> t, seen |-> field[t]]]
        /\ UNCHANGED <<field, audits>>
    BY <1>5 DEF Extraction!LoadField
  <2>2. (\A u \in T : ~ Active(u)) /\ \A d \in Accepts[o] : ~ Calling(d)
    BY <1>5 DEF Extraction!LoadField, Extraction!Free, Extraction!InTransaction, Extraction!Idle,
                Active, Picked, Calling
  <2>3. \A d \in Accepts[o] \ {c} : ~ Calling(d)'  BY <1>1, <2>1, <2>2 DEF Calling
  <2>4. call'[c].at = t /\ call'[c].seen = field'[t]  BY <1>1, <2>1
  <2>5. AloneInv(o)' /\ LoadedInv(o)'  BY <1>4, <2>2, <2>3, <2>4 DEF AloneInv, LoadedInv
  <2>6. Extraction(o)!AcceptedAsAudited'
    BY <2>1 DEF SerialInv, Extraction!AcceptedAsAudited
  <2> QED  BY <1>3, <2>5, <2>6 DEF SerialInv
<1>6. CASE Extraction(o)!SaveField(c)
  <2>1. PICK r \in T :
          /\ r = call[c].at
          /\ field' = [field EXCEPT ![r] = Extraction(o)!Saved(c, field[r])]
          /\ audits' = audits \cup {[run |-> r, value |-> Extraction(o)!Accepted(c).value,
                                    by |-> Officer[o][c]]}
          /\ call' = [call EXCEPT ![c].at = "done"]
    BY <1>6 DEF Extraction!SaveField
  <2>2. Calling(c) /\ call[c].seen = field[r]
    BY <2>1, ExtractionConstants DEF SerialInv, LoadedInv, Calling
  <2>3. (\A u \in T : ~ Active(u)) /\ \A d \in Accepts[o] \ {c} : ~ Calling(d)
    BY <2>2 DEF SerialInv, AloneInv
  <2>4. \A d \in Accepts[o] : ~ Calling(d)'  BY <1>1, <2>1, <2>3 DEF Calling
  <2>5. AloneInv(o)' /\ LoadedInv(o)'  BY <1>4, <2>3, <2>4 DEF AloneInv, LoadedInv
  <2>6. /\ Extraction(o)!Saved(c, field[r]) = Extraction(o)!Accepted(c)
        /\ Extraction(o)!Accepted(c).by = Officer[o][c]
    BY <1>1, <2>1, <2>2, AcceptedIs DEF SerialInv
  <2> DEFINE x == Extraction(o)!Accepted(c)
  <2> HIDE DEF x
  <2>7. /\ field' = [field EXCEPT ![r] = x]
        /\ audits' = audits \cup {[run |-> r, value |-> x.value, by |-> x.by]}
    BY <2>1, <2>6 DEF x
  <2>8. Extraction(o)!AcceptedAsAudited'
    BY <1>1, <2>7 DEF SerialInv, Extraction!AcceptedAsAudited
  <2> QED  BY <1>3, <2>5, <2>8 DEF SerialInv
<1> QED  BY <1>5, <1>6

LEMMA SerialStep ==
  ASSUME NEW o \in BOOLEAN, ~ o, SerialInv(o), [Extraction(o)!Next]_extractionVars
  PROVE  SerialInv(o)'
<1> DEFINE T == Extraction(o)!Tasks
<1>1. RunsInv(o)'  BY RunsStep DEF SerialInv
<1>2. /\ of \in [T -> Extraction(o)!Attachments \cup {None}]
      /\ \A t \in runs : pc[t] = "ended"
      /\ \A t \in T : pc[t] \in {"idle", "loaded", "picked", "running", "read", "flushed", "ended",
                                "stopped"}
  BY DEF SerialInv, RunsInv, TaskInv, Extraction!TypeOK, Extraction!Idle
<1>3. ASSUME NEW a \in Portal, Extraction(o)!PortalUpload(a)  PROVE SerialInv(o)'
  <2>1. UNCHANGED <<request, pc, view, of, status, runs, ranAt, field, audits, call>>
    BY <1>3 DEF Extraction!PortalUpload, Extraction!Stamp, Extraction!tasks, Extraction!fields
  <2> QED
    BY <1>1, <2>1 DEF SerialInv, AloneInv, LoadedInv, LatestInv, Active, Calling, Better, Older,
       Extraction!DataHasItsConfidence, Extraction!AcceptedAsAudited
<1>4. ASSUME NEW t \in T, Extraction(o)!Pick(t)  PROVE SerialInv(o)'
  <2>1. PICK a : /\ pc[t] = "loaded" /\ pc' = [pc EXCEPT ![t] = "picked"]
                 /\ of' = [of EXCEPT ![t] = a]
                 /\ UNCHANGED <<request, view, status, runs, ranAt, field, audits, call>>
    BY <1>4 DEF Extraction!Pick, Extraction!PickUpload, Extraction!PickNewest, Extraction!PickJob,
       Extraction!Take, Extraction!Stamp, Extraction!Go, Extraction!fields
  <2>2. \A r \in runs : of'[r] = of[r]  BY <1>2, <2>1
  <2> QED  BY <1>1, <2>1, <2>2, StillLoaded DEF Active
<1>5. ASSUME NEW t \in T,
             \/ Extraction(o)!NothingToRead(t) \/ Extraction(o)!Flush(t)
             \/ Extraction(o)!FlushRefused(t) \/ Extraction(o)!Abort(t)
      PROVE  SerialInv(o)'
  <2>1. PICK next \in {"flushed", "ended", "stopped"} :
          /\ pc' = [pc EXCEPT ![t] = next]
          /\ next = "flushed" => pc[t] = "read"
    BY <1>5 DEF Extraction!NothingToRead, Extraction!Flush, Extraction!FlushRefused,
       Extraction!Abort, Extraction!Go
  <2>2. Active(t)
    BY <1>2, <1>5 DEF Extraction!NothingToRead, Extraction!Flush, Extraction!FlushRefused,
       Extraction!Abort, Extraction!InTransaction, Extraction!Idle, Extraction!Go, Active, Picked
  <2>3. UNCHANGED <<request, view, of, status, runs, ranAt, field, audits, call>>
    BY <1>5 DEF Extraction!NothingToRead, Extraction!Flush, Extraction!FlushRefused,
       Extraction!Abort, Extraction!fields
  <2> QED  BY <1>1, <2>1, <2>2, <2>3, StillLoaded
<1>6. ASSUME NEW t \in T, Extraction(o)!Start(t) \/ Extraction(o)!Begin(t) \/ Extraction(o)!Read(t)
      PROVE  SerialInv(o)'
  BY <1>1, <1>6, SerialBegin
<1>7. ASSUME NEW t \in T, Extraction(o)!Commit(t)  PROVE SerialInv(o)'
  BY <1>1, <1>7, SerialCommit
<1>8. ASSUME NEW c \in Accepts[o],
             Extraction(o)!SaveField(c) \/ \E t \in T : Extraction(o)!LoadField(c, t)
      PROVE  SerialInv(o)'
  BY <1>1, <1>8, SerialCall
<1>9. CASE UNCHANGED extractionVars
  BY <1>1, <1>9 DEF SerialInv, AloneInv, LoadedInv, LatestInv, Active, Calling, Better, Older,
       Extraction!DataHasItsConfidence, Extraction!AcceptedAsAudited, extractionVars
<1> QED  BY <1>3, <1>4, <1>5, <1>6, <1>7, <1>8, <1>9 DEF Extraction!Next, Extraction!Step

\* What is promised of transactions one at a time.
LEMMA SerialPromises ==
  ASSUME NEW o \in BOOLEAN, SerialInv(o)
  PROVE  /\ Extraction(o)!DataIsLatestSuccess /\ Extraction(o)!DataHasItsConfidence
         /\ Extraction(o)!AcceptedAsAudited
<1>1. Extraction(o)!Successes = Better  BY DEF Extraction!Successes, Better
<1>2. ranAt \in [Extraction(o)!Tasks -> Nat] /\ Better \subseteq Extraction(o)!Tasks
  <2>1. ranAt \in [Extraction(o)!Tasks -> 0 .. clock] /\ clock \in Nat /\ runs \subseteq Extraction(o)!Tasks
    BY DEF SerialInv, RunsInv, Extraction!TypeOK
  <2> QED  BY <2>1 DEF Better
<1>3. CASE Better = {}
  BY <1>1, <1>3 DEF SerialInv, LatestInv, Extraction!DataIsLatestSuccess
<1>4. CASE Better # {}
  <2>1. PICK m \in Better : request.data = of[m] /\ \A k \in Better \ {m} : Older(k, m)
    BY <1>4 DEF SerialInv, LatestInv
  <2>2. Extraction(o)!IsNewest(m, Better, ranAt)
    BY <1>2, <2>1 DEF Older, Extraction!IsNewest
  <2>3. Extraction(o)!DataIsLatestSuccess
    BY <1>1, <1>4, <2>1, <2>2 DEF Extraction!DataIsLatestSuccess
  <2> QED  BY <2>3 DEF SerialInv
<1> QED  BY <1>3, <1>4 DEF SerialInv

-----------------------------------------------------------------------------
(***************************************************************************)
(* The parts together: each keeps its invariant, and stands still while    *)
(* another is shown.                                                       *)
(***************************************************************************)
LEMMA Kinds == /\ {Minio, Local, Overlapping, Serial} \subseteq BOOLEAN
               /\ Minio /\ Overlapping /\ ~ Local /\ ~ Serial
BY DEF Minio, Local, Overlapping, Serial

Inv ==
  /\ shown \in Parts
  /\ MailInv
  /\ IF shown = "minio" THEN EvidenceInv(Minio) ELSE EvidenceInv(Local)
  /\ IF shown = "serial" THEN SerialInv(Serial) ELSE RunsInv(Overlapping)

LEMMA InitInv == Init => Inv
<1> SUFFICES ASSUME Init  PROVE Inv
  OBVIOUS
<1>1. shown \in Parts /\ MailInv  BY MailInit DEF Init
<1>2. Evidence(Local)!Init  BY DEF Init, Evidence!Init
<1>3. EvidenceInv(Minio) /\ EvidenceInv(Local)  BY <1>2, EvidenceInit, Kinds DEF Init
<1>4. CASE shown = "serial"
  <2>1. Extraction(Serial)!Init  BY <1>4 DEF Init
  <2>2. SerialInv(Serial)  BY <2>1, SerialInit, Kinds
  <2> QED  BY <1>1, <1>3, <1>4, <2>2 DEF Inv
<1>5. CASE shown # "serial"
  <2>1. Extraction(Overlapping)!Init  BY <1>5 DEF Init
  <2>2. RunsInv(Overlapping)  BY <2>1, RunsInit, Kinds
  <2> QED  BY <1>1, <1>3, <1>5, <2>2 DEF Inv
<1> QED  BY <1>4, <1>5

LEMMA NextInv == Inv /\ [Next]_intakeVars => Inv'
<1> SUFFICES ASSUME Inv, [Next]_intakeVars  PROVE Inv'
  OBVIOUS
<1>1. /\ [Mail!Next]_mailVars /\ UNCHANGED shown
      /\ shown = "minio" => [Evidence(Minio)!Next]_evidenceVars
      /\ shown # "minio" => [Evidence(Local)!Next]_evidenceVars
      /\ shown = "serial" => [Extraction(Serial)!Next]_extractionVars
      /\ shown # "serial" => [Extraction(Overlapping)!Next]_extractionVars
  BY DEF Next, intakeVars
<1>2. MailInv'  BY <1>1, MailStep DEF Inv
<1>3. IF shown = "minio" THEN EvidenceInv(Minio)' ELSE EvidenceInv(Local)'
  <2>1. CASE shown = "minio"  BY <1>1, <2>1, EvidenceStep, Kinds DEF Inv
  <2>2. CASE shown # "minio"  BY <1>1, <2>2, EvidenceStep, Kinds DEF Inv
  <2> QED  BY <2>1, <2>2
<1>4. IF shown = "serial" THEN SerialInv(Serial)' ELSE RunsInv(Overlapping)'
  <2>1. CASE shown = "serial"  BY <1>1, <2>1, SerialStep, Kinds DEF Inv
  <2>2. CASE shown # "serial"  BY <1>1, <2>2, RunsStep, Kinds DEF Inv
  <2> QED  BY <2>1, <2>2
<1> QED  BY <1>1, <1>2, <1>3, <1>4 DEF Inv

LEMMA Invariance == Spec => []Inv
BY InitInv, NextInv, PTL DEF Spec

\* Every value stays of its kind: no count, flag or state the code cannot read
\* is ever written by the poller, the upload handlers and extraction.
THEOREM TypeCorrect == Spec => []TypeOK
<1>1. Inv => TypeOK
  <2> SUFFICES ASSUME Inv  PROVE TypeOK
    OBVIOUS
  <2>1. Mail!TypeOK  BY MailPromises DEF Inv
  <2>2. IF shown = "minio" THEN Evidence(Minio)!TypeOK ELSE Evidence(Local)!TypeOK
    BY DEF Inv, EvidenceInv
  <2>3. IF shown = "serial" THEN Extraction(Serial)!TypeOK ELSE Extraction(Overlapping)!TypeOK
    BY DEF Inv, SerialInv, RunsInv
  <2> QED  BY <2>1, <2>2, <2>3 DEF TypeOK
<1> QED  BY <1>1, Invariance, PTL

\* However many mails arrive, are read by hand or polled again: none becomes
\* two requests, and one that was fetched is missing only if a poll was rolled
\* back (poll_once).
THEOREM OnlyRollbacksLoseHolds == Spec => []OnlyRollbacksLose
<1>1. Inv => OnlyRollbacksLose  BY MailPromises DEF Inv, OnlyRollbacksLose
<1> QED  BY <1>1, Invariance, PTL

\* For any number of uploads of any files, in both stores: every attachment
\* names stored evidence, no two the same, and in MinIO all of its content is
\* there (upload_attachment, StorageBackend.put); a request that came by mail
\* has its attachments (poll_once).
THEOREM EvidenceIsWholeHolds == Spec => []EvidenceIsWhole
<1>1. Inv => EvidenceIsWhole
  <2> SUFFICES ASSUME Inv  PROVE EvidenceIsWhole
    OBVIOUS
  <2>1. Mail!EvidenceIsStored  BY MailPromises DEF Inv
  <2>2. CASE shown = "minio"
    <3>1. EvidenceInv(Minio)  BY <2>2 DEF Inv
    <3> QED  BY <2>1, <3>1, EvidencePromises, Kinds DEF EvidenceIsWhole
  <2>3. CASE shown # "minio"
    <3>1. EvidenceInv(Local)  BY <2>3 DEF Inv
    <3> QED  BY <2>1, <2>3, <3>1, EvidencePromises, Kinds DEF EvidenceIsWhole
  <2> QED  BY <2>2, <2>3
<1> QED  BY <1>1, Invariance, PTL

\* For any attachments and any number of uploads, reruns, jobs and calls of
\* officers: a request shows what a stored run read, evidence is stored with
\* its finished run, and one transaction at a time what is shown is of the
\* newest successful run, with its confidence, and acceptances are audited
\* (run_extraction, upload_attachment, accept_extracted_field).
THEOREM DataIsOfARunHolds == Spec => []DataIsOfARun
<1>1. Inv => DataIsOfARun
  <2> SUFFICES ASSUME Inv  PROVE DataIsOfARun
    OBVIOUS
  <2>1. CASE shown = "serial"
    <3>1. SerialInv(Serial)  BY <2>1 DEF Inv
    <3>2. RunsInv(Serial)  BY <3>1 DEF SerialInv
    <3> QED  BY <3>1, <3>2, RunsPromises, Kinds, SerialPromises DEF DataIsOfARun
  <2>2. CASE shown # "serial"
    <3>1. RunsInv(Overlapping)  BY <2>2 DEF Inv
    <3> QED  BY <2>2, <3>1, RunsPromises, Kinds DEF DataIsOfARun
  <2> QED  BY <2>1, <2>2
<1> QED  BY <1>1, Invariance, PTL

=============================================================================
