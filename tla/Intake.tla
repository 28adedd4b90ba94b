------------------------------- MODULE Intake -------------------------------
(***************************************************************************)
(* How requests and their evidence come in: the mail poller, both evidence *)
(* stores, and extraction, its transactions overlapping or one at a time.  *)
(* These parts write different rows, so that a property of one is broken   *)
(* by an interleaving of all only if it is broken by that part alone; a    *)
(* behaviour therefore shows one of them, and the others stand still.      *)
(***************************************************************************)
EXTENDS Naturals, Sequences, FiniteSets

CONSTANTS
  Mails, Faulty, MaxFaults,           \* of EmailIntake
  Uploads, Keys, KeyOf, Public,       \* of EvidenceStore
  Files, Portal, Reruns, Confidence,  \* of ExtractionRuns, where Files is Uploads
  Jobs, JobOf, Content,               \* as well, each a function of Overlap
  Accepts, Officer, Override,
  None

VARIABLES
  shown,    \* the part a behaviour shows
  arrived, seen, poller, batch, pending, requests, objects, polled, faults,
  object, rows, uploading, received,
  attached, madeAt, ranAt, clock, request, pc, view, of, status, runs, field, audits, call

Mail == INSTANCE EmailIntake WITH pc <- poller

Evidence(atomic) == INSTANCE EvidenceStore WITH AtomicPut <- atomic, pc <- uploading

\* The store whose put is atomic, and the other.
Minio == TRUE
Local == FALSE

Extraction(overlap) == INSTANCE ExtractionRuns WITH
  Overlap <- overlap, Uploads <- Files, Jobs <- Jobs[overlap], JobOf <- JobOf[overlap],
  Content <- Content[overlap], Accepts <- Accepts[overlap], Officer <- Officer[overlap],
  Override <- Override[overlap]

\* Transactions that overlap, and one at a time.
Overlapping == TRUE
Serial == FALSE

ASSUME MailAssumption       == Mail!MailsAssumption
ASSUME EvidenceAssumption   == \A atomic \in BOOLEAN : Evidence(atomic)!UploadsAssumption
ASSUME ExtractionAssumption ==
  \A overlap \in BOOLEAN :
    Extraction(overlap)!ExtractionAssumption /\ Extraction(overlap)!NoneAssumption

mailVars == <<arrived, seen, poller, batch, pending, requests, objects, polled, faults>>
evidenceVars == <<object, rows, uploading, received>>
extractionVars == <<attached, madeAt, ranAt, clock, request, pc, view, of, status, runs, field, audits, call>>
intakeVars == <<shown, mailVars, evidenceVars, extractionVars>>

Parts == {"mail", "minio", "local", "overlapping", "serial"}

Init ==
  /\ shown \in Parts
  /\ Mail!Init
  /\ Evidence(Minio)!Init
  /\ IF shown = "serial" THEN Extraction(Serial)!Init ELSE Extraction(Overlapping)!Init

Next ==
  \/ shown = "mail" /\ Mail!Next /\ UNCHANGED <<shown, evidenceVars, extractionVars>>
  \/ shown = "minio" /\ Evidence(Minio)!Next /\ UNCHANGED <<shown, mailVars, extractionVars>>
  \/ shown = "local" /\ Evidence(Local)!Next /\ UNCHANGED <<shown, mailVars, extractionVars>>
  \/ shown = "overlapping" /\ Extraction(Overlapping)!Next /\ UNCHANGED <<shown, mailVars, evidenceVars>>
  \/ shown = "serial" /\ Extraction(Serial)!Next /\ UNCHANGED <<shown, mailVars, evidenceVars>>

Fairness ==
  /\ WF_intakeVars(shown = "mail" /\ Mail!Poll /\ UNCHANGED <<shown, evidenceVars, extractionVars>>)
  /\ SF_intakeVars(shown = "mail" /\ Mail!Fetch /\ UNCHANGED <<shown, evidenceVars, extractionVars>>)
  /\ WF_intakeVars(shown = "mail" /\ Mail!Restart /\ UNCHANGED <<shown, evidenceVars, extractionVars>>)

Spec == Init /\ [][Next]_intakeVars /\ Fairness

-----------------------------------------------------------------------------
TypeOK ==
  /\ Mail!TypeOK
  /\ IF shown = "minio" THEN Evidence(Minio)!TypeOK ELSE Evidence(Local)!TypeOK
  /\ IF shown = "serial" THEN Extraction(Serial)!TypeOK ELSE Extraction(Overlapping)!TypeOK

\* No mail becomes two requests, and one that was fetched is missing only if
\* its poll was rolled back (poll_once: flags one by one, one commit).
OnlyRollbacksLose == Mail!NoMailTwice /\ Mail!OnlyRollbacksLose

\* A mail that cannot be ingested keeps no other mail from being read.
EveryMailIsRead == Mail!EveryMailIsRead

\* An attachment names stored evidence, and no other attachment the same,
\* whatever is cut off and tried again; where a put is atomic, the evidence
\* is all there (upload_attachment, StorageBackend.put).  A request that came
\* by mail has its attachments too (poll_once).
EvidenceIsWhole ==
  /\ Mail!EvidenceIsStored
  /\ Evidence(Local)!OneRowEach /\ Evidence(Local)!RowsHaveObjects
  /\ shown = "minio" => Evidence(Minio)!EvidenceIsWhole

\* What a request shows is what a stored run read, and an officer's evidence
\* is stored with its run, a finished one, however transactions overlap; one at
\* a time, it is what the newest successful run read, beside the confidence of
\* that run, and an accepted field names an officer who accepted its value
\* (run_extraction, upload_attachment, rerun_extraction, accept_extracted_field).
DataIsOfARun ==
  /\ Extraction(Overlapping)!DataIsOfARun /\ Extraction(Overlapping)!RecordedTogether /\ Extraction(Overlapping)!RunsAreFinished
  /\ shown = "serial" =>
       /\ Extraction(Serial)!DataIsLatestSuccess /\ Extraction(Serial)!DataHasItsConfidence
       /\ Extraction(Serial)!AcceptedAsAudited
=============================================================================
