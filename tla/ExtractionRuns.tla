--------------------------- MODULE ExtractionRuns ---------------------------
(***************************************************************************)
(* Document extraction for one request: every task is one transaction that *)
(* runs run_extraction (an upload of an officer, a rerun, the Celery job)  *)
(* and stores a run, its fields, and the request's extracted_data and      *)
(* extraction_confidence; officers accept the fields of stored runs.  The  *)
(* pipeline is deterministic, so what it reads from an attachment is named *)
(* by the attachment.  Transactions are PostgreSQL's, READ COMMITTED; an   *)
(* UPDATE writes the columns whose value differs from the one loaded.      *)
(***************************************************************************)
EXTENDS Naturals, FiniteSets

CONSTANTS
  Uploads,      \* attachments uploaded by officers, each by its own task
  Portal,       \* attachments uploaded through the public portal
  Reruns,       \* tasks of the rerun endpoint
  Jobs,         \* tasks of the Celery worker
  JobOf,        \* the attachment each job is given
  Content,      \* what is in each attachment
  Confidence,   \* overall_confidence of what is read in each attachment
  Accepts,      \* calls of accept_extracted_field
  Officer,      \* the officer who makes each call
  Override,     \* the value it carries: Proposed when it has none
  Overlap       \* FALSE: one transaction at a time

Attachments == Uploads \cup Portal
Tasks == Uploads \cup Reruns \cup Jobs
Proposed == "proposed"

ExtractionAssumption ==
  /\ Uploads \cap (Portal \cup Reruns \cup Jobs) = {}
  /\ JobOf \in [Jobs -> Attachments]
  /\ Content \in [Attachments -> {"text", "unreadable", "unstorable"}]
  /\ Confidence \in [Attachments -> 0..99]
  /\ Overlap \in BOOLEAN

CONSTANT None
Idle == "idle"
NoneAssumption == None \notin Attachments \cup Tasks /\ {Idle, "done"} \cap Tasks = {}

VARIABLES
  attached,   \* committed attachments
  madeAt,     \* created_at of attachments
  ranAt,      \* created_at of runs
  clock,
  request,    \* extracted_data and extraction_confidence
  pc, view, of, status,   \* of each task: progress, request loaded, attachment, run
  runs,       \* tasks whose run is committed
  field,      \* the field of each run: its value and who accepted it
  audits,     \* events "extraction_field_accepted"
  call        \* accept calls in progress: the field loaded

tasks == <<pc, view, of, status>>
fields == <<field, audits, call>>
vars == <<attached, madeAt, ranAt, clock, request, tasks, runs, fields>>

Values == {Proposed} \cup {Override[c] : c \in Accepts}
Persons == {None} \cup {Officer[c] : c \in Accepts}
Null == 100   \* no extraction_confidence; every confidence read is below
Columns == [data : Attachments \cup {None}, confidence : 0..Null]
Fields == [value : Values, by : Persons]

TypeOK ==
  /\ attached \subseteq Attachments
  /\ madeAt \in [Attachments -> 0..clock]
  /\ ranAt \in [Tasks -> 0..clock]
  /\ clock \in Nat
  /\ request \in Columns
  /\ pc \in [Tasks -> {Idle, "loaded", "picked", "running", "read", "flushed", "ended", "stopped"}]
  /\ view \in [Tasks -> Columns]
  /\ of \in [Tasks -> Attachments \cup {None}]
  /\ status \in [Tasks -> {"none", "running", "succeeded", "failed"}]
  /\ runs \subseteq Tasks
  /\ field \in [Tasks -> Fields]
  /\ audits \subseteq [run : Tasks, value : Values, by : Persons]
  /\ call \in [Accepts -> [at : {Idle, "done"} \cup Tasks, seen : Fields]]

Init ==
  /\ attached = {}
  /\ madeAt = [a \in Attachments |-> 0]
  /\ ranAt = [t \in Tasks |-> 0]
  /\ clock = 0
  /\ request = [data |-> None, confidence |-> Null]
  /\ pc = [t \in Tasks |-> Idle]
  /\ view = [t \in Tasks |-> request]
  /\ of = [t \in Tasks |-> None]
  /\ status = [t \in Tasks |-> "none"]
  /\ runs = {}
  /\ field = [t \in Tasks |-> [value |-> Proposed, by |-> None]]
  /\ audits = {}
  /\ call = [c \in Accepts |-> [at |-> Idle, seen |-> [value |-> Proposed, by |-> None]]]

-----------------------------------------------------------------------------
Go(t, from, to) == pc[t] = from /\ pc' = [pc EXCEPT ![t] = to]

Stamp(a) == /\ clock' = clock + 1
            /\ madeAt' = [madeAt EXCEPT ![a] = clock']
            /\ UNCHANGED ranAt

InTransaction(t) == pc[t] \notin {Idle, "ended", "stopped"}
Free ==
  \/ Overlap
  \/ /\ \A t \in Tasks : ~ InTransaction(t)
     /\ \A c \in Accepts : call[c].at \in {Idle, "done"}

\* The portal's upload: the row is committed and nothing is extracted.
PortalUpload(a) ==
  /\ a \notin attached
  /\ Free
  /\ attached' = attached \cup {a}
  /\ Stamp(a)
  /\ UNCHANGED <<request, tasks, runs, fields>>

\* The handlers load the request at their start; the job loads it, and the
\* worker no attachment it cannot find, only inside run_extraction.
Start(t) ==
  /\ Free
  /\ Go(t, Idle, "loaded")
  /\ view' = [view EXCEPT ![t] = request]
  /\ UNCHANGED <<attached, madeAt, ranAt, clock, request, of, status, runs, fields>>

\* The evidence row is flushed; the newest one is selected; the job's is read.
IsNewest(a, S, at) == a \in S /\ \A b \in S : at[b] <= at[a]

Take(t, a) ==
  /\ Go(t, "loaded", "picked")
  /\ of' = [of EXCEPT ![t] = a]
  /\ UNCHANGED <<attached, request, view, status, runs, fields>>
PickUpload(t) == t \in Uploads /\ Take(t, t) /\ Stamp(t)
PickNewest(t) ==
  /\ t \in Reruns
  /\ \E a \in attached : IsNewest(a, attached, madeAt) /\ Take(t, a)
  /\ UNCHANGED <<madeAt, ranAt, clock>>
PickJob(t) ==
  /\ t \in Jobs /\ JobOf[t] \in attached
  /\ Take(t, JobOf[t])
  /\ UNCHANGED <<madeAt, ranAt, clock>>
Pick(t) == PickUpload(t) \/ PickNewest(t) \/ PickJob(t)

\* 404, or ValueError of run_extraction: there is nothing to read.
NothingToRead(t) ==
  /\ \/ t \in Reruns /\ attached = {}
     \/ t \in Jobs /\ JobOf[t] \notin attached
  /\ Go(t, "loaded", "stopped")
  /\ UNCHANGED <<attached, madeAt, ranAt, clock, request, view, of, status, runs, fields>>

\* The run is flushed as RUNNING, inside the transaction.
Begin(t) ==
  /\ Go(t, "picked", "running")
  /\ clock' = clock + 1
  /\ ranAt' = [ranAt EXCEPT ![t] = clock']
  /\ status' = [status EXCEPT ![t] = "running"]
  /\ UNCHANGED <<attached, madeAt, request, view, of, runs, fields>>

\* The content is read and parsed; any exception makes the run FAILED with no
\* fields and no change to the request.  The job loads the request here.
Read(t) ==
  /\ Go(t, "running", "read")
  /\ status' = [status EXCEPT ![t] =
       IF Content[of[t]] = "unreadable" THEN "failed" ELSE "succeeded"]
  /\ view' = [view EXCEPT ![t] = IF t \in Jobs THEN request ELSE @]
  /\ UNCHANGED <<attached, madeAt, ranAt, clock, request, of, runs, fields>>

\* What the request's row becomes, and whether the row is written at all.
Assigned_Clearing(t) ==
  IF status[t] = "failed" THEN [data |-> None, confidence |-> Null]
  ELSE [data |-> of[t], confidence |-> Confidence[of[t]]]
Assigned_FirstConfidence(t) ==
  IF status[t] = "failed" THEN view[t]
  ELSE [data |-> of[t], confidence |->
        IF view[t].confidence = Null THEN Confidence[of[t]] ELSE view[t].confidence]
Assigned(t) ==
  IF status[t] = "failed" THEN view[t]
  ELSE [data |-> of[t], confidence |-> Confidence[of[t]]]
Written(t) == [c \in DOMAIN request |->
  IF Assigned(t)[c] # view[t][c] THEN Assigned(t)[c] ELSE request[c]]
Locks(t) == pc[t] = "flushed" /\ Assigned(t) # view[t]

\* The last flush; it waits for another transaction that wrote the request.
Flush(t) ==
  /\ Go(t, "read", "flushed")
  /\ Content[of[t]] # "unstorable"
  /\ Assigned(t) # view[t] => ~ \E u \in Tasks : Locks(u)
  /\ UNCHANGED <<attached, madeAt, ranAt, clock, request, view, of, status, runs, fields>>

\* PostgreSQL refuses text with a NUL: the exception leaves run_extraction
\* and everything is rolled back, the row of the evidence too.
FlushRefused(t) ==
  /\ Go(t, "read", "ended")
  /\ Content[of[t]] = "unstorable"
  /\ UNCHANGED <<attached, madeAt, ranAt, clock, request, view, of, status, runs, fields>>

Commit_WithoutRun(t) ==
  /\ Go(t, "flushed", "ended")
  /\ runs' = IF status[t] = "failed" THEN runs ELSE runs \cup {t}
  /\ attached' = attached \cup {of[t]}
  /\ request' = Written(t)
  /\ UNCHANGED <<madeAt, ranAt, clock, view, of, status, fields>>
Commit_WithFailures(t) ==
  /\ Go(t, "flushed", "ended")
  /\ runs' = runs \cup {t}
  /\ attached' = attached \cup {of[t]}
  /\ request' = [data |-> of[t], confidence |-> Confidence[of[t]]]
  /\ UNCHANGED <<madeAt, ranAt, clock, view, of, status, fields>>
Commit(t) ==
  /\ Go(t, "flushed", "ended")
  /\ runs' = runs \cup {t}
  /\ attached' = attached \cup {of[t]}
  /\ request' = Written(t)
  /\ UNCHANGED <<madeAt, ranAt, clock, view, of, status, fields>>

\* The process ends or the connection is lost: the transaction is rolled back.
Abort(t) ==
  /\ InTransaction(t)
  /\ pc' = [pc EXCEPT ![t] = "stopped"]
  /\ UNCHANGED <<attached, madeAt, ranAt, clock, request, view, of, status, runs, fields>>

Step(t) == \/ Pick(t) \/ NothingToRead(t) \/ Begin(t) \/ Read(t)
           \/ Flush(t) \/ FlushRefused(t) \/ Commit(t)

-----------------------------------------------------------------------------
\* accept_extracted_field: any field of any stored run, accepted or not.
LoadField(c, t) ==
  /\ Free
  /\ call[c].at = Idle
  /\ t \in runs /\ status[t] = "succeeded"
  /\ call' = [call EXCEPT ![c] = [at |-> t, seen |-> field[t]]]
  /\ UNCHANGED <<attached, madeAt, ranAt, clock, request, tasks, runs, field, audits>>

\* The UPDATE carries the value only if the call gave another one, and the
\* officer only if it is not who had accepted the loaded field; the audit
\* event carries what this session holds.
Accepted(c) == [value |-> IF Override[c] = Proposed THEN call[c].seen.value ELSE Override[c],
                by |-> Officer[c]]
Saved(c, held) == [k \in DOMAIN held |->
  IF Accepted(c)[k] # call[c].seen[k] THEN Accepted(c)[k] ELSE held[k]]
SaveField_Unaudited(c) ==
  LET t == call[c].at IN
  /\ t \in Tasks
  /\ field' = [field EXCEPT ![t] = Saved(c, field[t])]
  /\ audits' = audits \cup {[run |-> t, value |-> call[c].seen.value, by |-> Officer[c]]}
  /\ call' = [call EXCEPT ![c].at = "done"]
  /\ UNCHANGED <<attached, madeAt, ranAt, clock, request, tasks, runs>>
SaveField(c) ==
  LET t == call[c].at IN
  /\ t \in Tasks
  /\ field' = [field EXCEPT ![t] = Saved(c, field[t])]
  /\ audits' = audits \cup {[run |-> t, value |-> Accepted(c).value, by |-> Officer[c]]}
  /\ call' = [call EXCEPT ![c].at = "done"]
  /\ UNCHANGED <<attached, madeAt, ranAt, clock, request, tasks, runs>>

Next ==
  \/ \E a \in Portal : PortalUpload(a)
  \/ \E t \in Tasks : Start(t) \/ Step(t) \/ Abort(t)
  \/ \E c \in Accepts : SaveField(c) \/ \E t \in Tasks : LoadField(c, t)

Spec == Init /\ [][Next]_vars

-----------------------------------------------------------------------------
\* No reader, and no crash, ever leaves a run that is neither SUCCEEDED nor
\* FAILED: RUNNING is flushed but never committed (run_extraction).
RunsAreFinished == \A t \in runs : status[t] \in {"succeeded", "failed"}

\* Evidence of an officer and the outcome of reading it are stored together,
\* a failure like a success (upload_attachment).
RecordedTogether == \A u \in Uploads : u \in attached => u \in runs

\* However transactions interleave, fail and abort, extracted_data is what a
\* stored, successful run read.
DataIsOfARun ==
  request.data # None =>
    \E t \in runs : of[t] = request.data /\ status[t] = "succeeded"

\* The confidence shown for a request is the one of the data shown.  True of
\* transactions one at a time only: the UPDATE of a later one may leave the
\* confidence of another because it equals the one it had loaded.
DataHasItsConfidence ==
  IF request.data = None THEN request.confidence = Null
  ELSE request.confidence = Confidence[request.data]

\* extracted_data is what the newest successful run read: a failed rerun
\* leaves it (run_extraction).
Successes == {t \in runs : status[t] = "succeeded"}
DataIsLatestSuccess ==
  IF Successes = {} THEN request.data = None
  ELSE \E t \in Successes : IsNewest(t, Successes, ranAt) /\ request.data = of[t]

\* A field names as its acceptor an officer who accepted the value it holds.
AcceptedAsAudited == \A t \in Tasks :
  field[t].by # None => [run |-> t, value |-> field[t].value, by |-> field[t].by] \in audits

\* "any failure is recorded, never swallowed" (orchestrator.py): a task that
\* read its attachment and was not cut off has left a run.
FailureIsRecorded == \A t \in Tasks : pc[t] = "ended" => t \in runs

\* "both PDF text-layer extraction and scanned-image OCR now run for real on
\* upload" (DEPLOYMENT.md): all evidence has been read.
UploadsAreRead == \A a \in attached : \E t \in runs : of[t] = a
=============================================================================
