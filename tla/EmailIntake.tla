---------------------------- MODULE EmailIntake ----------------------------
(***************************************************************************)
(* apps/api/app/email_poller.py, the process that turns unread mails into  *)
(* requests.  One poll reads a batch of mails inside one transaction and   *)
(* commits once, after the last; the flags of the mailbox and the files of *)
(* the evidence store are outside that transaction.                        *)
(***************************************************************************)
EXTENDS Naturals, Sequences, FiniteSets

CONSTANTS
  Mails,      \* mails that may arrive
  Faulty,     \* those whose ingestion raises: an unknown charset, an attachment over the limit
  MaxFaults   \* bound: connections lost and crashes of the process

MailsAssumption == Faulty \subseteq Mails /\ IsFiniteSet(Mails) /\ MaxFaults \in Nat

VARIABLES
  arrived,    \* mails in the mailbox
  seen,       \* those with the flag \Seen
  pc,         \* where poll_once is
  batch,      \* mails the search found that are still to be read
  pending,    \* requests added to the session and not committed
  requests,   \* how many committed requests a mail has
  objects,    \* mails whose attachments are in the evidence store
  polled,     \* history: mails a poll has fetched
  faults      \* history: how often a poll was cut off

vars == <<arrived, seen, pc, batch, pending, requests, objects, polled, faults>>

TypeOK ==
  /\ seen \subseteq arrived /\ arrived \subseteq Mails
  /\ pc \in {"sleeping", "fetching", "storing", "flagging", "down"}
  /\ batch \in Seq(Mails)
  /\ pending \subseteq Mails
  /\ requests \in [Mails -> Nat]
  /\ objects \subseteq Mails /\ polled \subseteq Mails
  /\ faults \in 0 .. MaxFaults
  /\ pc \in {"sleeping", "down"} => pending = {} /\ batch = <<>>

Init ==
  /\ arrived = {} /\ seen = {}
  /\ pc = "down"
  /\ batch = <<>>
  /\ pending = {}
  /\ requests = [m \in Mails |-> 0]
  /\ objects = {} /\ polled = {}
  /\ faults = 0

Arrive(m) ==
  /\ m \notin arrived
  /\ arrived' = arrived \cup {m}
  /\ UNCHANGED <<seen, pc, batch, pending, requests, objects, polled, faults>>

\* A person reads the shared mailbox.
ReadByHand(m) ==
  /\ m \in arrived
  /\ seen' = seen \cup {m}
  /\ UNCHANGED <<arrived, pc, batch, pending, requests, objects, polled, faults>>

-----------------------------------------------------------------------------
\* The mails search(None, "UNSEEN") returns; their order is left open.
Found == arrived \ seen

Search ==
  /\ pc = "sleeping"
  /\ \E order \in [1 .. Cardinality(Found) -> Found] :
       /\ \A i, j \in DOMAIN order : order[i] = order[j] => i = j
       /\ batch' = order
  /\ pc' = "fetching"
  /\ UNCHANGED <<arrived, seen, pending, requests, objects, polled, faults>>

\* RFC822 is fetched without PEEK, which sets \Seen.  The request is flushed.
Fetch_WithPeek ==
  /\ pc = "fetching" /\ batch # <<>>
  /\ polled' = polled \cup {Head(batch)}
  /\ pc' = "storing"
  /\ UNCHANGED <<arrived, seen, batch, pending, requests, objects, faults>>
Fetch ==
  /\ pc = "fetching" /\ batch # <<>>
  /\ seen' = seen \cup {Head(batch)}
  /\ polled' = polled \cup {Head(batch)}
  /\ pc' = "storing"
  /\ UNCHANGED <<arrived, batch, pending, requests, objects, faults>>

\* The server does not answer OK, or without a body: the mail is passed over.
PassOver ==
  /\ pc = "fetching" /\ batch # <<>>
  /\ batch' = Tail(batch)
  /\ UNCHANGED <<arrived, seen, pc, pending, requests, objects, polled, faults>>

\* storage.put for each attachment, their rows and the audit event.
Store ==
  /\ pc = "storing" /\ Head(batch) \notin Faulty
  /\ objects' = objects \cup {Head(batch)}
  /\ pending' = pending \cup {Head(batch)}
  /\ pc' = "flagging"
  /\ UNCHANGED <<arrived, seen, batch, requests, polled, faults>>

Flag ==
  /\ pc = "flagging"
  /\ seen' = seen \cup {Head(batch)}
  /\ batch' = Tail(batch)
  /\ pc' = "fetching"
  /\ UNCHANGED <<arrived, pending, requests, objects, polled, faults>>

Commit_WithoutLast ==
  /\ pc = "fetching" /\ batch = <<>>
  /\ \E kept \in {pending} \cup {pending \ {m} : m \in pending} :
       requests' = [m \in Mails |-> IF m \in kept THEN requests[m] + 1 ELSE requests[m]]
  /\ pending' = {}
  /\ pc' = "sleeping"
  /\ UNCHANGED <<arrived, seen, batch, objects, polled, faults>>
Commit ==
  /\ pc = "fetching" /\ batch = <<>>
  /\ requests' = [m \in Mails |-> IF m \in pending THEN requests[m] + 1 ELSE requests[m]]
  /\ pending' = {}
  /\ pc' = "sleeping"
  /\ UNCHANGED <<arrived, seen, batch, objects, polled, faults>>

\* Nothing catches an exception of poll_once: the session is rolled back, the
\* connection closed, and the process ends.
Ended_WithoutRollback ==
  /\ pc' = "down"
  /\ batch' = <<>>
  /\ UNCHANGED <<arrived, seen, pending, requests, objects, polled>>
Ended ==
  /\ pc' = "down"
  /\ batch' = <<>>
  /\ pending' = {}
  /\ UNCHANGED <<arrived, seen, requests, objects, polled>>

Raise ==
  /\ pc = "storing" /\ Head(batch) \in Faulty
  /\ Ended
  /\ UNCHANGED faults

\* The mail server, the database or the process itself fails.
Fault ==
  /\ pc # "down"
  /\ faults < MaxFaults
  /\ faults' = faults + 1
  /\ Ended

\* The platform starts the worker again.
Restart ==
  /\ pc = "down"
  /\ pc' = "sleeping"
  /\ UNCHANGED <<arrived, seen, batch, pending, requests, objects, polled, faults>>

Poll == Search \/ Fetch \/ Store \/ Flag \/ Commit \/ Raise

Next == (\E m \in Mails : Arrive(m) \/ ReadByHand(m)) \/ PassOver \/ Poll \/ Fault \/ Restart

Spec == Init /\ [][Next]_vars

\* The loop goes on and the platform restarts the process; a mail that is
\* asked for again and again is not passed over every time.
Fairness == WF_vars(Poll) /\ SF_vars(Fetch) /\ WF_vars(Restart)

FairSpec == Spec /\ Fairness

-----------------------------------------------------------------------------
\* No mail becomes two requests, whatever is rolled back and polled again
\* (poll_once: "so a repeat poll doesn't re-ingest it").
NoMailTwice == \A m \in Mails : requests[m] <= 1

\* A request that came by mail has its attachments in the evidence store.
EvidenceIsStored == \A m \in Mails : requests[m] > 0 => m \in objects

\* Between polls nothing the poller fetched is missing, unless a poll was cut
\* off: a rollback is the only way to lose a mail (poll_once, one commit).
OnlyRollbacksLose ==
  pc \in {"sleeping", "down"} /\ faults = 0 /\ polled \cap Faulty = {}
    => \A m \in polled : requests[m] > 0

\* Every mail is read in the end: one that cannot be ingested does not keep
\* the poller from those behind it.
EveryMailIsRead == \A m \in Mails : m \in arrived ~> m \in seen

\* docs/INTEGRATION_REQUIREMENTS.md: "Every NOTAM request emailed to the
\* mailbox becomes a real request".  A mail fetched in a batch that fails on a
\* later one, without any fault of the machines, is never read again.
FetchedBecomesRequest ==
  pc = "sleeping" /\ faults = 0 => \A m \in polled \ Faulty : requests[m] > 0
=============================================================================
