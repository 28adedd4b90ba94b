----------------------------- MODULE AftnBridge -----------------------------
(***************************************************************************)
(* The pull queue of AFTN envelopes: the deliveries of channel AFTN in the *)
(* database, the outbox endpoints that serve them, and the bridge process  *)
(* (scripts/aftn_bridge.py) that writes each envelope into the directory   *)
(* the terminal watches and acknowledges it over HTTP.  The deployment is  *)
(* that of docs/AFTN_BRIDGE.md: AFTN mode real, bridge key set.            *)
(***************************************************************************)
EXTENDS Naturals, Sequences, FiniteSets

CONSTANTS
  Deliveries,    \* publication_deliveries of channel AFTN, each of its own NOTAM
  Sendable,      \* those whose text fits ITA-2: an envelope can be built
  MaxAttempts,   \* bound: dispatches in all
  MaxLate        \* bound: abandoned acknowledgements of a delivery on their way

ASSUME DeliveriesAssumption == IsFiniteSet(Deliveries) /\ Sendable \subseteq Deliveries
ASSUME LimitsAssumption     == MaxAttempts \in Nat /\ MaxLate \in Nat

VARIABLES
  row,        \* the row of each delivery
  attempts,   \* dispatches so far: the clock that stamps attempted_at
  pc,         \* where the bridge is
  batch,      \* items of the outbox it has read and not finished
  late,       \* acknowledgements the bridge gave up and the API may yet serve
  directory   \* what lies in the watched directory for each delivery

vars == <<row, attempts, pc, batch, late, directory>>

-----------------------------------------------------------------------------
\* named: external_reference holds the file name the bridge reported.
Row == [status    : {"none", "sent", "acknowledged", "failed"},
        named     : BOOLEAN,
        attempted : Nat]

\* asleep between polls; to open, fill and acknowledge the head of the batch;
\* to read the answer to that acknowledgement; not running.
BridgeStep == {"asleep", "opening", "filling", "acknowledging", "answered", "down"}

TypeOK ==
  /\ row \in [Deliveries -> Row]
  /\ attempts \in Nat
  /\ pc \in BridgeStep
  /\ batch \in Seq(Deliveries)
  /\ (pc \in {"asleep", "down"}) <=> (batch = <<>>)
  /\ late \in [Deliveries -> Nat]
  /\ directory \in [Deliveries -> SUBSET {"whole", "torn"}]

Init ==
  /\ row = [d \in Deliveries |-> [status |-> "none", named |-> FALSE, attempted |-> 0]]
  /\ attempts = 0
  /\ pc = "asleep"
  /\ batch = <<>>
  /\ late = [d \in Deliveries |-> 0]
  /\ directory = [d \in Deliveries |-> {}]

-----------------------------------------------------------------------------
(***************************************************************************)
(* The API.  The definitions named ..._Without or ..._With are the one     *)
(* they precede with a mistake in it, for the properties below.            *)
(***************************************************************************)

\* dispatch_delivery through PullQueueAftnAdapter, by publish or by a retry on
\* a delivery of any status: prepare raises on a text outside ITA-2 before it
\* touches the reference; send returns a receipt without one.
Dispatched_WithReference(d) ==
  [row[d] EXCEPT !.status = IF d \in Sendable THEN "sent" ELSE "failed",
                 !.attempted = attempts + 1]
Dispatched(d) ==
  IF d \in Sendable
  THEN [status |-> "sent", named |-> FALSE, attempted |-> attempts + 1]
  ELSE [row[d] EXCEPT !.status = "failed", !.attempted = attempts + 1]

Dispatch(d) ==
  /\ attempts < MaxAttempts
  /\ row' = [row EXCEPT ![d] = Dispatched(d)]
  /\ attempts' = attempts + 1
  /\ UNCHANGED <<pc, batch, late, directory>>

\* An operator acknowledges the delivery or marks its NOTAM published.
AcknowledgeByHand(d) ==
  /\ row[d].status # "none"
  /\ row' = [row EXCEPT ![d].status = "acknowledged"]
  /\ UNCHANGED <<attempts, pc, batch, late, directory>>

\* GET /aftn/outbox: sent, no reference yet, oldest attempt first.
Listed == {d \in Deliveries : row[d].status = "sent" /\ ~ row[d].named}

IsOutbox(items) ==
  /\ \A d \in Listed : \E i \in DOMAIN items : items[i] = d
  /\ \A i, j \in DOMAIN items :
       i < j => row[items[i]].attempted < row[items[j]].attempted

\* POST /aftn/outbox/{id}/ack, whatever became of the delivery meanwhile.
Acknowledged(d) == [row EXCEPT ![d].status = "acknowledged", ![d].named = TRUE]

-----------------------------------------------------------------------------
(***************************************************************************)
(* The bridge.                                                             *)
(***************************************************************************)

\* A poll that fails, or finds nothing, goes back to sleep: a stuttering step.
Poll(items) ==
  /\ pc = "asleep"
  /\ items # <<>>
  /\ IsOutbox(items)
  /\ pc' = "opening"
  /\ batch' = items
  /\ UNCHANGED <<row, attempts, late, directory>>

\* write_text opens a new file in the watched directory and then fills it.
OpenFile ==
  /\ pc = "opening"
  /\ pc' = "filling"
  /\ UNCHANGED <<row, attempts, batch, late, directory>>

FillFile_WithoutText ==
  /\ pc = "filling"
  /\ pc' = "acknowledging"
  /\ UNCHANGED <<row, attempts, batch, late, directory>>
FillFile ==
  /\ pc = "filling"
  /\ directory' = [directory EXCEPT ![Head(batch)] = @ \cup {"whole"}]
  /\ pc' = "acknowledging"
  /\ UNCHANGED <<row, attempts, batch, late>>

\* The API serves the acknowledgement the bridge is waiting for.
ServeAck(d) ==
  /\ pc = "acknowledging"
  /\ d = Head(batch)
  /\ row' = Acknowledged(d)
  /\ pc' = "answered"
  /\ UNCHANGED <<attempts, batch, late, directory>>

\* The answer arrives; the loop goes on to the next item.
NextItem_WithoutTail ==
  /\ pc = "answered"
  /\ pc' = "opening"
  /\ UNCHANGED <<row, attempts, batch, late, directory>>
NextItem ==
  /\ pc = "answered"
  /\ batch' = Tail(batch)
  /\ pc' = IF Tail(batch) = <<>> THEN "asleep" ELSE "opening"
  /\ UNCHANGED <<row, attempts, late, directory>>

\* The request in flight when the bridge stops waiting for it: not sent, lost,
\* or still to be served.
Abandoned ==
  \/ UNCHANGED late
  \/ /\ pc = "acknowledging"
     /\ late[Head(batch)] < MaxLate
     /\ late' = [late EXCEPT ![Head(batch)] = @ + 1]

\* URLError, TimeoutError or ValueError from the call: main drops the rest of
\* the batch and sleeps.
GiveUp_WithoutReset ==
  /\ pc \in {"acknowledging", "answered"}
  /\ pc' = "asleep"
  /\ Abandoned
  /\ UNCHANGED <<row, attempts, batch, directory>>
GiveUp ==
  /\ pc \in {"acknowledging", "answered"}
  /\ pc' = "asleep"
  /\ batch' = <<>>
  /\ Abandoned
  /\ UNCHANGED <<row, attempts, directory>>

\* The API serves an acknowledgement the bridge no longer waits for.
ServeLateAck(d) ==
  /\ late[d] > 0
  /\ row' = Acknowledged(d)
  /\ late' = [late EXCEPT ![d] = @ - 1]
  /\ UNCHANGED <<attempts, pc, batch, directory>>

LoseLateAck(d) ==
  /\ late[d] > 0
  /\ late' = [late EXCEPT ![d] = @ - 1]
  /\ UNCHANGED <<row, attempts, pc, batch, directory>>

\* Any other exception (a full disk, a connection reset) ends the process, as
\* do a kill and a power failure.  A file being filled stays as it is.
Crash ==
  /\ pc # "down"
  /\ pc' = "down"
  /\ batch' = <<>>
  /\ Abandoned
  /\ directory' = IF pc = "filling"
                    THEN [directory EXCEPT ![Head(batch)] = @ \cup {"torn"}]
                    ELSE directory
  /\ UNCHANGED <<row, attempts>>

\* systemd, Restart=on-failure.  The bridge keeps nothing between two runs.
Restart ==
  /\ pc = "down"
  /\ pc' = "asleep"
  /\ UNCHANGED <<row, attempts, batch, late, directory>>

Polling == \E items \in [1 .. Cardinality(Listed) -> Listed] : Poll(items)

Next ==
  \/ \E d \in Deliveries : Dispatch(d) \/ AcknowledgeByHand(d)
  \/ Polling
  \/ OpenFile
  \/ FillFile
  \/ \E d \in Deliveries : ServeAck(d)
  \/ NextItem
  \/ GiveUp
  \/ \E d \in Deliveries : ServeLateAck(d) \/ LoseLateAck(d)
  \/ Crash
  \/ Restart

Spec == Init /\ [][Next]_vars

(***************************************************************************)
(* main polls for ever and systemd restarts it (weak fairness); a step the *)
(* box or the network can fail, and that is tried again and again, does    *)
(* not fail every time (strong fairness).                                  *)
(***************************************************************************)
Fairness ==
  /\ WF_vars(Restart)
  /\ WF_vars(NextItem)
  /\ SF_vars(Polling)
  /\ SF_vars(OpenFile)
  /\ SF_vars(FillFile)
  /\ \A d \in Deliveries : SF_vars(ServeAck(d))

FairSpec == Spec /\ Fairness

-----------------------------------------------------------------------------
\* docs/AFTN_BRIDGE.md: an acknowledgement of the bridge means "the envelope
\* reached the watched directory".  Whatever was lost, late or repeated, a row
\* with the bridge's file name has a complete file.
NamedIsWritten ==
  \A d \in Deliveries : row[d].named => "whole" \in directory[d]

\* The inductive form: every acknowledgement the bridge has sent, answered, lost
\* or late, was sent for a complete file.
AckedIsWritten ==
  /\ NamedIsWritten
  /\ \A d \in Deliveries : late[d] > 0 => "whole" \in directory[d]
  /\ pc \in {"acknowledging", "answered"} => "whole" \in directory[Head(batch)]

\* A delivery that is sent is in the outbox, however often it was dispatched,
\* acknowledged and dispatched again (dispatch_delivery, aftn_outbox).
SentIsListed ==
  \A d \in Deliveries : row[d].status = "sent" => d \in Listed

\* Every queued envelope is taken off the queue, through crashes and lost or
\* abandoned acknowledgements (poll_once, main).
EverySentIsAcknowledged ==
  \A d \in Deliveries : row[d].status = "sent" ~> row[d].status = "acknowledged"

\* docs/AFTN_BRIDGE.md: the files in the directory contain "the real,
\* ITA-2-validated AFTN envelope".  write_text fills a file the terminal can
\* already see, and one it did not finish stays there.
EveryFileIsWhole ==
  /\ pc # "filling"
  /\ \A d \in Deliveries : "torn" \notin directory[d]
=============================================================================
