------------------------------- MODULE Channels -------------------------------
(***************************************************************************)
(* One publication of a NOTAM on its four channels: which adapter the      *)
(* settings of a deployment choose, what it sends, and what the delivery   *)
(* says.  The adapters send while the transaction of publish is open; an   *)
(* error that is no ValueError leaves it, and rolls back all deliveries.   *)
(* Settings change when a new deployment replaces the process.             *)
(***************************************************************************)
EXTENDS Naturals, FiniteSets, Sequences

CONSTANTS
  Deployments,  \* settings that operators deploy
  Ita2,         \* AFTN can transmit the text of the NOTAM
  Worker        \* TRUE when a Celery worker is given publish_delivery tasks

\* registry.CHANNELS, in the order in which publish dispatches them.
CHANNELS == <<"AFTN", "GCAA_WEB", "EMAIL", "AIXM">>
Channel == {CHANNELS[i] : i \in DOMAIN CHANNELS}
Mode == {"simulated_sync", "async_adapters"}

DeploymentsAssumption ==
  /\ Deployments \subseteq [publication : Mode, pinned : [Channel \ {"AIXM"} -> Mode \cup {"unset"}],
                            key : BOOLEAN, smtp : BOOLEAN]
  /\ Ita2 \in BOOLEAN /\ Worker \in BOOLEAN

VARIABLES
  settings,   \* of the process
  next,       \* the channel an open publish dispatches next, 0 without one
  pending,    \* its deliveries
  delivery,   \* the committed deliveries: status and external reference
  reached,    \* history: channels whose last dispatch really sent something
  confirmed,  \* history: channels a person or the bridge acknowledged since
  simulated,  \* history: channels whose last dispatch was simulated
  allowed     \* history: channels that some deployment simulated

vars == <<settings, next, pending, delivery, reached, confirmed, simulated, allowed>>

-----------------------------------------------------------------------------
ModeForChannel(s, c) ==
  IF c \in DOMAIN s.pinned /\ s.pinned[c] # "unset" THEN s.pinned[c] ELSE s.publication
Simulated(s, c) == ModeForChannel(s, c) = "simulated_sync"
MaySimulate(s) == {c \in Channel \ {"AIXM"} : Simulated(s, c)}

BuildAdapter(s, c, sim) ==
  CASE c = "AIXM" -> "Aixm"
    [] c # "AIXM" /\ sim -> "Simulated"
    [] c = "AFTN" /\ ~sim -> IF s.key THEN "PullQueue" ELSE "FileDrop"
    [] c = "EMAIL" /\ ~sim -> IF s.smtp THEN "Smtp" ELSE "Unconfigured"
    [] c = "GCAA_WEB" /\ ~sim -> "Unconfigured"

RequiresAcknowledgement == {"PullQueue", "FileDrop", "Unconfigured"}

\* What an adapter reports, and whether something left this process; "raise"
\* is an OSError of the drop directory or an error of the object store.
Receipt(status, ref) == [status |-> status, ref |-> ref]
AftnReceipts == [PullQueue |-> {Receipt("sent", "none")},
                 FileDrop  |-> {Receipt("sent", "file"), Receipt("raise", "none")}]
AixmReceipts == {Receipt("acknowledged", "key"), Receipt("failed", "none"), Receipt("raise", "none")}
SimulatedReceipts == {Receipt("acknowledged", "id")}
UnconfiguredReceipts == {Receipt("failed", "none")}
SmtpReceipts == {Receipt("acknowledged", "id"), Receipt("failed", "none")}
Receipts(adapter) ==
  CASE adapter = "Simulated" -> SimulatedReceipts
    [] adapter \in {"PullQueue", "FileDrop"} -> AftnReceipts[adapter]
    [] adapter = "Aixm" -> AixmReceipts
    [] adapter = "Smtp" -> SmtpReceipts
    [] adapter = "Unconfigured" -> UnconfiguredReceipts

Leaves(adapter, receipt) ==
  adapter \in {"FileDrop", "Aixm", "Smtp"} /\ receipt.status \in {"sent", "acknowledged"}

\* A ValueError, of a text that AFTN cannot transmit or of a document over the
\* limit of the store, is no receipt: the reference stays.
Answers_WithoutValidation(adapter, c, old) == Receipts(adapter)
Answers(adapter, c, old) ==
  IF c = "AFTN" /\ ~Ita2 THEN {Receipt("failed", old.ref)}
  ELSE Receipts(adapter) \cup {Receipt("failed", old.ref) : a \in {adapter} \cap {"Aixm"}}

\* The delivery after dispatch_delivery.
Dispatched_IfNotFailed(adapter, receipt, old) ==
  [status |-> IF adapter \notin RequiresAcknowledgement THEN "acknowledged" ELSE receipt.status,
   ref    |-> receipt.ref]
Dispatched_KeepingReference(adapter, receipt, old) ==
  [status |-> receipt.status, ref |-> IF receipt.ref = "none" THEN old.ref ELSE receipt.ref]
Dispatched_Unchecked(adapter, receipt, old) ==
  [status |-> receipt.status, ref |-> IF adapter = "PullQueue" THEN "unset" ELSE receipt.ref]
Dispatched(adapter, receipt, old) ==
  [status |-> CASE receipt.status = "failed" -> "failed"
                [] receipt.status = "acknowledged" -> "acknowledged"
                [] receipt.status = "sent" ->
                     IF adapter \in RequiresAcknowledgement THEN "sent" ELSE "acknowledged",
   ref    |-> receipt.ref]

\* Sending on channel c, simulated or not, in the place of delivery `old`.
Send(c, sim, old, receipt) ==
  LET adapter == BuildAdapter(settings, c, sim) IN
  /\ receipt \in Answers(adapter, c, old)
  /\ reached' = IF Leaves(adapter, receipt) THEN reached \cup {c} ELSE reached \ {c}
  /\ simulated' = IF adapter = "Simulated" THEN simulated \cup {c} ELSE simulated \ {c}

-----------------------------------------------------------------------------
New == [status |-> "queued", ref |-> "none"]
NotPublished == [c \in Channel |-> [status |-> "absent", ref |-> "none"]]

InitWith(deployed) ==
  /\ settings \in deployed
  /\ next = 0
  /\ pending = NotPublished /\ delivery = NotPublished
  /\ reached = {} /\ confirmed = {} /\ simulated = {}
  /\ allowed = MaySimulate(settings)
Init == InitWith(Deployments)

\* POST /requests/{id}/publish, until its deliveries are flushed.
Publish ==
  /\ next = 0 /\ delivery = NotPublished
  /\ next' = 1
  /\ pending' = [c \in Channel |-> New]
  /\ UNCHANGED <<settings, delivery, reached, confirmed, simulated, allowed>>

\* One turn of its loop.
DispatchNext ==
  /\ next \in DOMAIN CHANNELS
  /\ LET c == CHANNELS[next]
         sim == Simulated(settings, c)
     IN \E receipt \in Answers(BuildAdapter(settings, c, sim), c, New) :
          /\ receipt.status # "raise"
          /\ Send(c, sim, New, receipt)
          /\ pending' = [pending EXCEPT ![c] = Dispatched(BuildAdapter(settings, c, sim), receipt, New)]
  /\ next' = next + 1
  /\ UNCHANGED <<settings, delivery, confirmed, allowed>>

Commit ==
  /\ next = Len(CHANNELS) + 1
  /\ delivery' = pending
  /\ next' = 0
  /\ UNCHANGED <<settings, pending, reached, confirmed, simulated, allowed>>

\* An adapter raises, or the commit fails.
RollBack ==
  /\ \/ next = Len(CHANNELS) + 1
     \/ /\ next \in DOMAIN CHANNELS
        /\ LET c == CHANNELS[next]
           IN Receipt("raise", "none") \in
                Answers(BuildAdapter(settings, c, Simulated(settings, c)), c, New)
  /\ next' = 0 /\ pending' = NotPublished
  /\ UNCHANGED <<settings, delivery, reached, confirmed, simulated, allowed>>

\* One delivery is dispatched again and committed.
Redispatch(c, sim) ==
  /\ delivery[c].status # "absent"
  /\ \E receipt \in Answers(BuildAdapter(settings, c, sim), c, delivery[c]) :
       /\ receipt.status # "raise"
       /\ Send(c, sim, delivery[c], receipt)
       /\ delivery' = [delivery EXCEPT ![c] = Dispatched(BuildAdapter(settings, c, sim), receipt, @)]
  /\ confirmed' = confirmed \ {c}
  /\ UNCHANGED <<settings, next, pending, allowed>>

\* POST /deliveries/{id}/retry
Retry(c) == Redispatch(c, Simulated(settings, c))

\* worker.publish_delivery
WorkerRetry(c) == Worker /\ Redispatch(c, settings.publication = "simulated_sync")

Acknowledge(c, ref) ==
  /\ delivery' = [delivery EXCEPT ![c] = [status |-> "acknowledged", ref |-> ref]]
  /\ confirmed' = confirmed \cup {c}
  /\ UNCHANGED <<settings, next, pending, reached, simulated, allowed>>

\* POST /deliveries/{id}/acknowledge keeps the reference.
OfficerAcknowledges(c) == delivery[c].status # "absent" /\ Acknowledge(c, delivery[c].ref)

\* The bridge lists the outbox, writes the envelope and acknowledges it.
Listed(c) == c = "AFTN" /\ delivery[c] = [status |-> "sent", ref |-> "none"]
BridgeAcknowledges == settings.key /\ Listed("AFTN") /\ Acknowledge("AFTN", "bridge")

Redeploy ==
  /\ settings' \in Deployments
  /\ next' = 0 /\ pending' = NotPublished
  /\ allowed' = allowed \cup MaySimulate(settings')
  /\ UNCHANGED <<delivery, reached, confirmed, simulated>>

Next ==
  \/ Publish \/ DispatchNext \/ Commit \/ RollBack \/ BridgeAcknowledges \/ Redeploy
  \/ \E c \in Channel : Retry(c) \/ WorkerRetry(c) \/ OfficerAcknowledges(c)

Spec == Init /\ [][Next]_vars

-----------------------------------------------------------------------------
Delivery(ds) == \A c \in Channel :
  ds[c] \in [status : {"absent", "queued", "sent", "acknowledged", "failed"},
             ref : {"none", "file", "key", "id", "bridge"}]

TypeOK ==
  /\ settings \in Deployments
  /\ next \in 0 .. Len(CHANNELS) + 1
  /\ Delivery(pending) /\ Delivery(delivery)
  /\ UNION {reached, confirmed, simulated, allowed} \subseteq Channel

\* What is published is on the way, done or failed, never just queued, and it
\* counts as acknowledged only if it was simulated, did leave, or was
\* confirmed (ARCHITECTURE.md, decision 6; dispatch_delivery).
AcknowledgedIsEarned == \A c \in Channel :
  /\ delivery[c].status # "queued"
  /\ delivery[c].status = "acknowledged" => c \in reached \cup confirmed \cup simulated

\* Whatever the deployments before, a sent delivery is one of AFTN that the
\* outbox lists or that has a file for the terminal (aftn_outbox).
SentIsInReach == \A c \in Channel :
  delivery[c].status = "sent" => Listed(c) \/ (delivery[c].ref = "file" /\ c \in reached)

\* A channel that no deployment simulates is never simulated, whatever the
\* mode of the others is (Settings.mode_for_channel).
ModesAreIndependent == simulated \subseteq allowed

\* The outcomes of a dispatch are those of NotamLifecycle.
Lifecycle == INSTANCE NotamLifecycle WITH
  Requests <- {"r"}, Users <- {"u"}, RoleOf <- [u \in {"u"} |-> "AIS_OFFICER"],
  Channels <- Channel, Series <- {"A"}, Bodies <- BOOLEAN, ITA2 <- {TRUE}, None <- "none",
  MaxYear <- 0, MaxTrail <- 0, year <- 0, status <- [r \in {"r"} |-> "publishing"],
  trail <- [r \in {"r"} |-> <<>>], notam <- [r \in {"r"} |-> [body |-> Ita2]],
  deliveries <- [r \in {"r"} |-> <<>>], preparers <- [r \in {"r"} |-> {}]

\* A committed delivery has an outcome that NotamLifecycle lets its channel
\* have, unless it was acknowledged (the adapters against Outcomes).
OutcomesOfLifecycle == \A c \in Channel :
  \/ delivery[c].status \in {"absent"} \cup Lifecycle!Outcomes("r", c)
  \/ c \in confirmed /\ delivery[c].status = "acknowledged"
=============================================================================
