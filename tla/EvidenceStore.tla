--------------------------- MODULE EvidenceStore ---------------------------
(***************************************************************************)
(* Evidence of one request: uploads that write an object and then a row    *)
(* naming it, and the downloads that read it back.  An object's key is made *)
(* of the request, the SHA-256 of the content and the file name, so a key  *)
(* stands here for the content too.  The API is one process: a put, which  *)
(* never awaits, is cut off only by the end of that process.               *)
(***************************************************************************)
EXTENDS Naturals, FiniteSets

CONSTANTS
  Uploads,    \* uploads of files, each of which may be tried again
  Keys,       \* the keys of the files
  KeyOf,      \* the key of each upload
  Public,     \* uploads through the public portal
  AtomicPut   \* TRUE for MinioStorage, FALSE for EvidenceStorage

UploadsAssumption == /\ KeyOf \in [Uploads -> Keys]
                     /\ Public \subseteq Uploads
                     /\ AtomicPut \in BOOLEAN

VARIABLES
  object,     \* what the store holds under a key
  rows,       \* keys of committed attachments
  pc,         \* where each upload is
  received    \* the request is still RECEIVED

vars == <<object, rows, pc, received>>

TypeOK ==
  /\ object \in [Keys -> {"absent", "torn", "whole"}]
  /\ rows \subseteq Keys
  /\ pc \in [Uploads -> {"idle", "putting", "writing", "stored", "flushed", "answered"}]
  /\ received \in BOOLEAN
  /\ AtomicPut => \A k \in Keys : object[k] # "torn"

Init ==
  /\ object = [k \in Keys |-> "absent"]
  /\ rows = {}
  /\ pc = [u \in Uploads |-> "idle"]
  /\ received = TRUE

\* The request leaves intake.
Triage ==
  /\ received
  /\ received' = FALSE
  /\ UNCHANGED <<object, rows, pc>>

-----------------------------------------------------------------------------
Go(u, from, to) == pc[u] = from /\ pc' = [pc EXCEPT ![u] = to]

\* While a put runs, the event loop does.
Running == \A u \in Uploads : pc[u] # "writing"

\* The request is found; the content is read, which awaits.
Receive(u) ==
  /\ Running /\ Go(u, "idle", "putting")
  /\ u \in Public => received
  /\ UNCHANGED <<object, rows, received>>

\* put finds the key, whatever is stored under it.  A client error of MinIO
\* is taken for "not found", and the object is put again.
Present(u) ==
  /\ Running /\ Go(u, "putting", "stored")
  /\ object[KeyOf[u]] # "absent"
  /\ UNCHANGED <<object, rows, received>>

\* put_object of MinIO; write_bytes of a file, which first creates it empty.
Write_WithoutObject(u) ==
  /\ Running /\ Go(u, "putting", "stored")
  /\ UNCHANGED <<object, rows, received>>
Write(u) ==
  /\ Running
  /\ object[KeyOf[u]] = "absent" \/ AtomicPut
  /\ Go(u, "putting", IF AtomicPut THEN "stored" ELSE "writing")
  /\ object' = [object EXCEPT ![KeyOf[u]] = IF AtomicPut THEN "whole" ELSE "torn"]
  /\ UNCHANGED <<rows, received>>

Fill(u) ==
  /\ Go(u, "writing", "stored")
  /\ object' = [object EXCEPT ![KeyOf[u]] = "whole"]
  /\ UNCHANGED <<rows, received>>

\* The row and its audit event are flushed and, if extraction is on, read by
\* run_extraction, which raises nothing; object_key is unique, so an insert
\* of the same key waits for the end of another one that is not committed.
Flush_WithoutUnique(u) ==
  /\ Running /\ Go(u, "stored", "flushed")
  /\ UNCHANGED <<object, rows, received>>
Flush(u) ==
  /\ Running /\ Go(u, "stored", "flushed")
  /\ KeyOf[u] \notin rows
  /\ \A v \in Uploads : pc[v] = "flushed" => KeyOf[v] # KeyOf[u]
  /\ UNCHANGED <<object, rows, received>>

Commit(u) ==
  /\ Running /\ Go(u, "flushed", "answered")
  /\ rows' = rows \cup {KeyOf[u]}
  /\ UNCHANGED <<object, received>>

\* The insert fails, the put is refused by the store, or the session is lost:
\* the rows are rolled back, the object stays, and the client may try again.
Fail(u) ==
  /\ Running
  /\ pc[u] \in {"putting", "stored", "flushed"}
  /\ pc' = [pc EXCEPT ![u] = "idle"]
  /\ UNCHANGED <<object, rows, received>>

\* The process ends, in the middle of a put too, and is started again.
Crash ==
  /\ pc' = [u \in Uploads |-> IF pc[u] = "answered" THEN "answered" ELSE "idle"]
  /\ UNCHANGED <<object, rows, received>>

\* GET /attachments/{id}/content; "missing" is the answer 404.
Served(k) == IF object[k] = "absent" THEN "missing" ELSE object[k]

Upload(u) == Receive(u) \/ Present(u) \/ Write(u) \/ Fill(u) \/ Flush(u) \/ Commit(u)

Next == Triage \/ Crash \/ \E u \in Uploads : Upload(u) \/ Fail(u)

Spec == Init /\ [][Next]_vars

-----------------------------------------------------------------------------
\* A row is never there without its object, although the two are written
\* apart and either write may be the last (upload_attachment).
RowsHaveObjects == \A k \in rows : Served(k) # "missing"

\* What a download serves is the content that was hashed (storage.py).
EvidenceIsWhole == \A k \in rows : Served(k) = "whole"

\* No two uploads are answered with a row for the same evidence.
OneRowEach == \A u, v \in Uploads :
  {pc[u], pc[v]} \subseteq {"flushed", "answered"} /\ KeyOf[u] = KeyOf[v] => u = v
=============================================================================
