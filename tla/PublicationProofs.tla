-------------------------- MODULE PublicationProofs --------------------------
(***************************************************************************)
(* What Publication guarantees for any deployments, any words on lines of  *)
(* any width, any rows of any NOTAMs and any length of time.               *)
(***************************************************************************)
EXTENDS Publication, TLAPS, WellFoundedInduction, NaturalsInduction, SequenceTheorems

-----------------------------------------------------------------------------
(***************************************************************************)
(* Channels.  Every dispatched delivery fits what is known of its channel: *)
(* whether it left, was confirmed or was simulated.  That holds of those   *)
(* that publish has dispatched so far as well.                             *)
(***************************************************************************)
Named == {"AFTN", "GCAA_WEB", "EMAIL", "AIXM"}
Outcome(ita2, c) == IF c # "AFTN" THEN {"acknowledged", "failed"}
                    ELSE IF ita2 THEN {"acknowledged", "sent"} ELSE {"failed"}

Kind == [status : {"absent", "queued", "sent", "acknowledged", "failed"},
         ref : {"none", "file", "key", "id", "bridge"}]

Fits(ita2, c, d, left, byHand, played) ==
  /\ d.status # "queued"
  /\ d.status = "acknowledged" => c \in left \cup byHand \cup played
  /\ d.status = "sent" => c = "AFTN" /\ (d.ref = "none" \/ (d.ref = "file" /\ c \in left))
  /\ \/ d.status \in {"absent"} \cup Outcome(ita2, c)
     \/ c \in byHand /\ d.status = "acknowledged"

Absent == [status |-> "absent", ref |-> "none"]

Earned(ita2, c, d) == Fits(ita2, c, d, reached, confirmed, simulated)

ChannelsType ==
  /\ settings \in Deployments
  /\ next \in 0 .. 5
  /\ pending \in [Named -> Kind] /\ delivery \in [Named -> Kind]
  /\ reached \subseteq Named /\ confirmed \subseteq Named
  /\ simulated \subseteq Named /\ allowed \subseteq Named

ChannelsInv(ita2) ==
  /\ ChannelsType
  /\ \A c \in Named : Earned(ita2, c, delivery[c])
  /\ next # 0 => \A c \in Named : delivery[c] = Absent
  /\ \A i \in 1 .. 4 : i < next =>
       Earned(ita2, Outgoing(ita2)!CHANNELS[i], pending[Outgoing(ita2)!CHANNELS[i]])
  /\ ~ Worker[ita2] => simulated \subseteq allowed
  /\ Outgoing(ita2)!MaySimulate(settings) \subseteq allowed

LEMMA ChannelPlaces ==
  ASSUME NEW ita2 \in BOOLEAN
  PROVE  /\ DOMAIN Outgoing(ita2)!CHANNELS = 1 .. 4 /\ Len(Outgoing(ita2)!CHANNELS) = 4
         /\ Outgoing(ita2)!Channel = Named
         /\ \A i \in 1 .. 4 : Outgoing(ita2)!CHANNELS[i] \in Named
         /\ \A i, j \in 1 .. 4 : Outgoing(ita2)!CHANNELS[i] = Outgoing(ita2)!CHANNELS[j] => i = j
         /\ \A c \in Named : \E i \in 1 .. 4 : c = Outgoing(ita2)!CHANNELS[i]
<1> DEFINE C == Outgoing(ita2)!CHANNELS
<1>1. /\ DOMAIN C = 1 .. 4 /\ Len(C) = 4
      /\ C[1] = "AFTN" /\ C[2] = "GCAA_WEB" /\ C[3] = "EMAIL" /\ C[4] = "AIXM"
  BY DEF Outgoing!CHANNELS
<1>2. Outgoing(ita2)!Channel = {C[i] : i \in DOMAIN C}  BY DEF Outgoing!Channel
<1> HIDE DEF C
<1>3. 1 .. 4 = {1, 2, 3, 4}  OBVIOUS
<1>4. Outgoing(ita2)!Channel = Named  BY <1>1, <1>2, <1>3 DEF Named
<1>5. \A i \in 1 .. 4 : C[i] \in Named  BY <1>1, <1>3 DEF Named
<1>6. \A i, j \in 1 .. 4 : C[i] = C[j] => i = j  BY <1>1, <1>3
<1>7. \A c \in Named : \E i \in 1 .. 4 : c = C[i]  BY <1>1, <1>3 DEF Named
<1> QED  BY <1>1, <1>4, <1>5, <1>6, <1>7 DEF C

LEMMA ChannelsAre ==
  ASSUME NEW ita2 \in BOOLEAN
  PROVE  Outgoing(ita2)!Channel = Named /\ Len(Outgoing(ita2)!CHANNELS) + 1 = 5
<1>1. Outgoing(ita2)!Channel = Named  BY ChannelPlaces
<1>2. Len(Outgoing(ita2)!CHANNELS) = 4  BY ChannelPlaces
<1> QED  BY <1>1, <1>2

LEMMA TypeIs ==
  ASSUME NEW ita2 \in BOOLEAN
  PROVE  ChannelsType => Outgoing(ita2)!TypeOK
<1>1. Outgoing(ita2)!Channel = Named /\ Len(Outgoing(ita2)!CHANNELS) + 1 = 5
  BY ChannelsAre
<1>2. \A N : UNION {reached, confirmed, simulated, allowed} \subseteq N <=>
             /\ reached \subseteq N /\ confirmed \subseteq N
             /\ simulated \subseteq N /\ allowed \subseteq N
  OBVIOUS
<1>3. Outgoing(ita2)!TypeOK <=>
        /\ settings \in Deployments
        /\ next \in 0 .. 5
        /\ \A c \in Named : pending[c] \in Kind
        /\ \A c \in Named : delivery[c] \in Kind
        /\ UNION {reached, confirmed, simulated, allowed} \subseteq Named
  BY <1>1 DEF Outgoing!TypeOK, Outgoing!Delivery, Kind
<1> QED  BY <1>2, <1>3 DEF ChannelsType
\* What each adapter reports.
LEMMA ReceiptsAre ==
  ASSUME NEW ita2 \in BOOLEAN, NEW adapter, NEW receipt \in Outgoing(ita2)!Receipts(adapter)
  PROVE  /\ adapter = "Simulated" => receipt = [status |-> "acknowledged", ref |-> "id"]
         /\ adapter = "PullQueue" => receipt = [status |-> "sent", ref |-> "none"]
         /\ adapter = "FileDrop" => \/ receipt = [status |-> "sent", ref |-> "file"]
                                    \/ receipt.status = "raise"
         /\ adapter = "Unconfigured" => receipt.status = "failed"
         /\ adapter = "Smtp" => receipt.status \in {"acknowledged", "failed"}
         /\ adapter = "Aixm" => receipt.status \in {"acknowledged", "failed", "raise"}
<1> USE DEF Outgoing!Receipts, Outgoing!Receipt
<1>1. adapter = "Simulated" => receipt = [status |-> "acknowledged", ref |-> "id"]
  BY DEF Outgoing!SimulatedReceipts
<1>2. adapter = "PullQueue" => receipt = [status |-> "sent", ref |-> "none"]
  BY DEF Outgoing!AftnReceipts
<1>3. adapter = "FileDrop" => \/ receipt = [status |-> "sent", ref |-> "file"]
                              \/ receipt.status = "raise"
  BY DEF Outgoing!AftnReceipts
<1>4. adapter = "Unconfigured" => receipt.status = "failed"
  BY DEF Outgoing!UnconfiguredReceipts
<1>5. adapter = "Smtp" => receipt.status \in {"acknowledged", "failed"}
  BY DEF Outgoing!SmtpReceipts
<1>6. adapter = "Aixm" => receipt.status \in {"acknowledged", "failed", "raise"}
  BY DEF Outgoing!AixmReceipts
<1> QED  BY <1>1, <1>2, <1>3, <1>4, <1>5, <1>6

\* What dispatch_delivery makes of a receipt fits its channel, whichever
\* adapter the settings chose.
LEMMA DispatchedFits ==
  ASSUME NEW ita2 \in BOOLEAN, settings \in Deployments, NEW c \in Named, NEW sim \in BOOLEAN,
         NEW old \in Kind,
         NEW receipt \in Outgoing(ita2)!Answers(Outgoing(ita2)!BuildAdapter(settings, c, sim), c, old),
         receipt.status # "raise",
         Outgoing(ita2)!Send(c, sim, old, receipt)
  PROVE  LET adapter == Outgoing(ita2)!BuildAdapter(settings, c, sim)
             d == Outgoing(ita2)!Dispatched(adapter, receipt, old)
         IN  /\ d \in Kind /\ d.status \in Outcome(ita2, c)
             /\ \A byHand : Fits(ita2, c, d, reached', byHand, simulated')
             /\ reached' \in {reached \cup {c}, reached \ {c}}
             /\ simulated' \in {simulated \cup {c}, simulated \ {c}}
             /\ c \in simulated' => sim /\ c # "AIXM"
<1> DEFINE adapter == Outgoing(ita2)!BuildAdapter(settings, c, sim)
           d == Outgoing(ita2)!Dispatched(adapter, receipt, old)
<1>1. /\ c = "AIXM" => adapter = "Aixm"
      /\ c # "AIXM" /\ sim => adapter = "Simulated"
      /\ c = "AFTN" /\ ~ sim => adapter \in {"PullQueue", "FileDrop"}
      /\ c = "EMAIL" /\ ~ sim => adapter \in {"Smtp", "Unconfigured"}
      /\ c = "GCAA_WEB" /\ ~ sim => adapter = "Unconfigured"
  BY DEF Outgoing!BuildAdapter, Named
<1>2. c \in {"AFTN", "GCAA_WEB", "EMAIL", "AIXM"}  BY DEF Named
<1>3. /\ reached' = IF Outgoing(ita2)!Leaves(adapter, receipt) THEN reached \cup {c} ELSE reached \ {c}
      /\ simulated' = IF adapter = "Simulated" THEN simulated \cup {c} ELSE simulated \ {c}
      /\ receipt \in Outgoing(ita2)!Answers(adapter, c, old)
  BY DEF Outgoing!Send
<1> HIDE DEF adapter
<1>4. old.ref \in {"none", "file", "key", "id", "bridge"}  BY DEF Kind
<1>5. receipt \in [status : {"sent", "acknowledged", "failed", "raise"},
                   ref : {"none", "file", "key", "id", "bridge"}]
  BY <1>1, <1>2, <1>3, <1>4 DEF Outgoing!Answers, Outgoing!Receipts, Outgoing!AftnReceipts,
     Outgoing!AixmReceipts, Outgoing!SimulatedReceipts, Outgoing!UnconfiguredReceipts,
     Outgoing!SmtpReceipts, Outgoing!Receipt
<1>6. /\ ~ ita2 /\ c = "AFTN" => receipt.status = "failed"
      /\ receipt.status = "sent" => \/ adapter = "PullQueue" /\ receipt.ref = "none"
                                    \/ adapter = "FileDrop" /\ receipt.ref = "file"
      /\ ita2 /\ c = "AFTN" => receipt.status \in {"sent", "acknowledged"}
      /\ receipt.status = "acknowledged" => adapter \in {"Simulated", "Smtp", "Aixm"}
  <2>1. CASE c = "AFTN" /\ ~ ita2
    BY <1>3, <2>1 DEF Outgoing!Answers, Outgoing!Receipt
  <2>2. CASE c = "AFTN" /\ ita2
    <3>1. receipt \in Outgoing(ita2)!Receipts(adapter) /\ adapter # "Aixm"
      BY <1>1, <1>3, <2>2 DEF Outgoing!Answers
    <3>2. adapter \in {"Simulated", "PullQueue", "FileDrop"}  BY <1>1, <2>2
    <3>3. /\ adapter = "Simulated" => receipt = [status |-> "acknowledged", ref |-> "id"]
          /\ adapter = "PullQueue" => receipt = [status |-> "sent", ref |-> "none"]
          /\ adapter = "FileDrop" => receipt = [status |-> "sent", ref |-> "file"]
      BY <3>1, ReceiptsAre
    <3> QED  BY <2>2, <3>2, <3>3
  <2>3. CASE c # "AFTN"
    <3>1. receipt \in Outgoing(ita2)!Receipts(adapter) \/ receipt.status = "failed"
      BY <1>3, <2>3 DEF Outgoing!Answers, Outgoing!Receipt
    <3> QED  BY <1>1, <1>2, <2>3, <3>1, ReceiptsAre
  <2> QED  BY <2>1, <2>2, <2>3
<1>7. d = [status |-> receipt.status, ref |-> receipt.ref]
  BY <1>5, <1>6 DEF Outgoing!Dispatched, Outgoing!RequiresAcknowledgement
<1> HIDE DEF d
<1>8. d \in Kind  BY <1>5, <1>7 DEF Kind
<1>9. d.status \in Outcome(ita2, c)
  BY <1>1, <1>2, <1>5, <1>6, <1>7 DEF Outcome
<1>10. ASSUME NEW byHand  PROVE Fits(ita2, c, d, reached', byHand, simulated')
  BY <1>1, <1>2, <1>3, <1>5, <1>6, <1>7, <1>9 DEF Fits, Outgoing!Leaves
<1>11. c \in simulated' => sim /\ c # "AIXM"  BY <1>1, <1>2, <1>3
<1> QED  BY <1>3, <1>8, <1>9, <1>10, <1>11 DEF d, adapter

-----------------------------------------------------------------------------
LEMMA ChannelsInit ==
  ASSUME NEW ita2 \in BOOLEAN, NEW deployed \in SUBSET Deployments, Outgoing(ita2)!InitWith(deployed)
  PROVE  ChannelsInv(ita2)
<1>1. /\ settings \in Deployments /\ next = 0
      /\ pending = [c \in Named |-> Absent] /\ delivery = [c \in Named |-> Absent]
      /\ reached = {} /\ confirmed = {} /\ simulated = {}
      /\ allowed = Outgoing(ita2)!MaySimulate(settings)
  BY ChannelsAre DEF Outgoing!InitWith, Outgoing!NotPublished, Absent
<1>2. allowed \subseteq Named  BY <1>1, ChannelsAre DEF Outgoing!MaySimulate
<1>3. ChannelsType  BY <1>1, <1>2 DEF ChannelsType, Kind, Absent
<1>4. \A c \in Named : Earned(ita2, c, delivery[c])  BY <1>1 DEF Earned, Fits, Absent
<1> QED  BY <1>1, <1>3, <1>4 DEF ChannelsInv

LEMMA StillEarned ==
  ASSUME NEW ita2 \in BOOLEAN, ChannelsInv(ita2),
         UNCHANGED <<delivery, reached, confirmed, simulated>>,
         settings' \in Deployments,
         allowed' = allowed \cup Outgoing(ita2)!MaySimulate(settings'),
         \/ /\ next' = 0
            /\ pending' = [c \in Named |-> Absent]
         \/ UNCHANGED <<next, pending>>
  PROVE  ChannelsInv(ita2)'
<1>1. Outgoing(ita2)!MaySimulate(settings)' \subseteq allowed' /\ allowed \subseteq allowed'
      /\ Outgoing(ita2)!MaySimulate(settings') \subseteq Named
  BY ChannelsAre DEF Outgoing!MaySimulate
<1>2. \A c \in Named : Earned(ita2, c, delivery[c])'  BY DEF ChannelsInv, Earned
<1>3. ChannelsType'  BY <1>1 DEF ChannelsInv, ChannelsType, Kind, Absent
<1>4. \A i \in 1 .. 4 : i < next' =>
        Earned(ita2, Outgoing(ita2)!CHANNELS[i], pending[Outgoing(ita2)!CHANNELS[i]])'
  BY DEF ChannelsInv, Earned, Outgoing!CHANNELS
<1>5. ~ Worker[ita2] => simulated' \subseteq allowed'  BY <1>1 DEF ChannelsInv
<1>6. next' # 0 => \A c \in Named : delivery'[c] = Absent
  BY DEF ChannelsInv
<1> QED  BY <1>1, <1>2, <1>3, <1>4, <1>5, <1>6 DEF ChannelsInv

\* One delivery gets a new outcome, or is acknowledged.
LEMMA OneSettled ==
  ASSUME NEW ita2 \in BOOLEAN, ChannelsInv(ita2), NEW c \in Named, NEW d \in Kind,
         delivery[c].status # "absent", delivery' = [delivery EXCEPT ![c] = d],
         UNCHANGED <<settings, next, pending, allowed>>,
         reached' \in {reached, reached \cup {c}, reached \ {c}},
         confirmed' \in {confirmed, confirmed \cup {c}, confirmed \ {c}},
         simulated' \in {simulated, simulated \cup {c}, simulated \ {c}},
         Fits(ita2, c, d, reached', confirmed', simulated'),
         ~ Worker[ita2] /\ c \in simulated' => c \in allowed
  PROVE  ChannelsInv(ita2)'
<1>1. /\ \A e \in Named \ {c} : delivery'[e] = delivery[e]
      /\ delivery'[c] = d /\ delivery' \in [Named -> Kind]
  BY DEF ChannelsInv, ChannelsType
<1>2. next = 0  BY DEF ChannelsInv, Absent
<1>3. \A e \in Named : Fits(ita2, e, delivery'[e], reached', confirmed', simulated')
  <2> TAKE e \in Named
  <2>1. CASE e = c  BY <1>1, <2>1
  <2>2. CASE e # c
    <3>1. Fits(ita2, e, delivery'[e], reached, confirmed, simulated)
      BY <1>1, <2>2 DEF ChannelsInv, Earned
    <3>2. /\ e \in reached <=> e \in reached'
          /\ e \in confirmed <=> e \in confirmed'
          /\ e \in simulated <=> e \in simulated'
      BY <2>2
    <3> QED  BY <3>1, <3>2 DEF Fits
  <2> QED  BY <2>1, <2>2
<1>4. \A e \in Named : Earned(ita2, e, delivery[e])'  BY <1>3 DEF Earned
<1>5. ChannelsType'  BY <1>1 DEF ChannelsInv, ChannelsType
<1>6. \A i \in 1 .. 4 : ~ (i < next')  BY <1>2
<1>7. ~ Worker[ita2] => simulated' \subseteq allowed'  BY DEF ChannelsInv
<1>8. Outgoing(ita2)!MaySimulate(settings)' \subseteq allowed'
  BY DEF ChannelsInv, Outgoing!MaySimulate
<1> QED  BY <1>2, <1>4, <1>5, <1>6, <1>7, <1>8 DEF ChannelsInv
\* publish dispatches its next delivery.
LEMMA OneDispatched ==
  ASSUME NEW ita2 \in BOOLEAN, ChannelsInv(ita2), Outgoing(ita2)!DispatchNext
  PROVE  ChannelsInv(ita2)'
<1> DEFINE C == Outgoing(ita2)!CHANNELS
           c == C[next]
           sim == Outgoing(ita2)!Simulated(settings, c)
           adapter == Outgoing(ita2)!BuildAdapter(settings, c, sim)
           new == Outgoing(ita2)!New
<1>1. next \in 1 .. 4 /\ next' = next + 1 /\ UNCHANGED <<settings, delivery, confirmed, allowed>>
  BY ChannelPlaces DEF Outgoing!DispatchNext
<1>2. PICK receipt \in Outgoing(ita2)!Answers(adapter, c, new) :
        /\ receipt.status # "raise" /\ Outgoing(ita2)!Send(c, sim, new, receipt)
        /\ pending' = [pending EXCEPT ![c] = Outgoing(ita2)!Dispatched(adapter, receipt, new)]
  BY DEF Outgoing!DispatchNext
<1> DEFINE d == Outgoing(ita2)!Dispatched(adapter, receipt, new)
<1>3. c \in Named  BY <1>1, ChannelPlaces
<1>4. /\ sim \in BOOLEAN /\ new \in Kind /\ settings \in Deployments
  BY DEF Outgoing!Simulated, Outgoing!New, Kind, ChannelsInv, ChannelsType
<1>5. /\ d \in Kind
      /\ \A byHand : Fits(ita2, c, d, reached', byHand, simulated')
      /\ reached' \in {reached \cup {c}, reached \ {c}}
      /\ simulated' \in {simulated \cup {c}, simulated \ {c}}
      /\ c \in simulated' => sim /\ c # "AIXM"
  BY <1>2, <1>3, <1>4, DispatchedFits
<1>6. c \in simulated' => c \in allowed
  BY <1>3, <1>5, ChannelsAre DEF ChannelsInv, Outgoing!MaySimulate
<1>7. pending' = [pending EXCEPT ![c] = d]  BY <1>2
<1>8. \A i, j \in 1 .. 4 : C[i] = C[j] => i = j  BY ChannelPlaces
<1>9. \A i \in 1 .. 4 : C[i] \in Named  BY ChannelPlaces
<1>10. C' = C  BY DEF Outgoing!CHANNELS
<1> DEFINE place == c
<1> HIDE DEF C, sim, adapter, new, d
<1>11. ChannelsType'
  BY <1>1, <1>3, <1>5, <1>7 DEF ChannelsInv, ChannelsType
<1>12. \A e \in Named : delivery'[e] = Absent /\ Fits(ita2, e, delivery'[e], reached', confirmed', simulated')
  BY <1>1 DEF ChannelsInv, Absent, Fits
<1>13. \A i \in 1 .. 4 : i < next' => Fits(ita2, C[i], pending'[C[i]], reached', confirmed', simulated')
  <2> SUFFICES ASSUME NEW i \in 1 .. 4, i < next'
               PROVE  Fits(ita2, C[i], pending'[C[i]], reached', confirmed', simulated')
    OBVIOUS
  <2>1. CASE i = next
    <3>1. pending'[C[i]] = d
      BY <1>3, <1>7, <2>1 DEF ChannelsInv, ChannelsType
    <3> QED  BY <1>5, <2>1, <3>1
  <2>2. CASE i # next
    <3>1. i < next /\ C[i] # c /\ C[i] \in Named  BY <1>1, <1>8, <1>9, <2>2
    <3>2. Fits(ita2, C[i], pending[C[i]], reached, confirmed, simulated)
      BY <3>1 DEF ChannelsInv, Earned, C
    <3>3. pending'[C[i]] = pending[C[i]]
      BY <1>7, <3>1 DEF ChannelsInv, ChannelsType
    <3>4. /\ C[i] \in reached <=> C[i] \in reached'
          /\ C[i] \in confirmed <=> C[i] \in confirmed'
          /\ C[i] \in simulated <=> C[i] \in simulated'
      BY <1>1, <1>5, <3>1
    <3> QED  BY <3>2, <3>3, <3>4 DEF Fits
  <2> QED  BY <2>1, <2>2
<1>14. ~ Worker[ita2] => simulated' \subseteq allowed'
  BY <1>1, <1>5, <1>6 DEF ChannelsInv
<1>15. Outgoing(ita2)!MaySimulate(settings)' \subseteq allowed'
  BY <1>1 DEF ChannelsInv, Outgoing!MaySimulate
<1>16. \A e \in Named : Earned(ita2, e, delivery[e])'  BY <1>12 DEF Earned
<1>17. (\A i \in 1 .. 4 : i < next =>
          Earned(ita2, Outgoing(ita2)!CHANNELS[i], pending[Outgoing(ita2)!CHANNELS[i]]))'
  BY <1>10, <1>13 DEF Earned, C
<1> QED  BY <1>11, <1>12, <1>14, <1>15, <1>16, <1>17 DEF ChannelsInv

\* A delivery is dispatched again, by an officer or by the worker.
LEMMA OneRedispatched ==
  ASSUME NEW ita2 \in BOOLEAN, ChannelsInv(ita2), NEW c \in Named,
         Outgoing(ita2)!Retry(c) \/ Outgoing(ita2)!WorkerRetry(c)
  PROVE  ChannelsInv(ita2)'
<1>1. PICK sim \in BOOLEAN :
        /\ Outgoing(ita2)!Redispatch(c, sim)
        /\ ~ Worker[ita2] => sim = Outgoing(ita2)!Simulated(settings, c)
  BY DEF Outgoing!Retry, Outgoing!WorkerRetry, Outgoing!Simulated
<1> DEFINE adapter == Outgoing(ita2)!BuildAdapter(settings, c, sim)
           old == delivery[c]
<1>2. PICK receipt \in Outgoing(ita2)!Answers(adapter, c, old) :
        /\ receipt.status # "raise" /\ Outgoing(ita2)!Send(c, sim, old, receipt)
        /\ delivery' = [delivery EXCEPT ![c] = Outgoing(ita2)!Dispatched(adapter, receipt, delivery[c])]
  BY <1>1 DEF Outgoing!Redispatch
<1>3. /\ confirmed' = confirmed \ {c} /\ delivery[c].status # "absent"
      /\ UNCHANGED <<settings, next, pending, allowed>>
  BY <1>1 DEF Outgoing!Redispatch
<1> DEFINE d == Outgoing(ita2)!Dispatched(adapter, receipt, old)
<1>4. old \in Kind /\ settings \in Deployments  BY DEF ChannelsInv, ChannelsType
<1>5. /\ d \in Kind
      /\ \A byHand : Fits(ita2, c, d, reached', byHand, simulated')
      /\ reached' \in {reached \cup {c}, reached \ {c}}
      /\ simulated' \in {simulated \cup {c}, simulated \ {c}}
      /\ c \in simulated' => sim /\ c # "AIXM"
  BY <1>2, <1>4, DispatchedFits
<1>6. ~ Worker[ita2] /\ c \in simulated' => c \in allowed
  BY <1>1, <1>5, ChannelsAre DEF ChannelsInv, Outgoing!MaySimulate
<1>7. delivery' = [delivery EXCEPT ![c] = d]  BY <1>2
<1> HIDE DEF d, adapter
<1> QED  BY <1>3, <1>5, <1>6, <1>7, OneSettled

LEMMA ChannelsStep ==
  ASSUME NEW ita2 \in BOOLEAN, ChannelsInv(ita2), [Outgoing(ita2)!Next]_channelsVars
  PROVE  ChannelsInv(ita2)'
<1>1. CASE Outgoing(ita2)!Publish
  <2> DEFINE new == [status |-> "queued", ref |-> "none"]
  <2>1. /\ next' = 1 /\ pending' = [c \in Named |-> new] /\ delivery = [c \in Named |-> Absent]
        /\ UNCHANGED <<settings, delivery, reached, confirmed, simulated, allowed>>
    BY <1>1, ChannelsAre DEF Outgoing!Publish, Outgoing!NotPublished, Outgoing!New, Absent
  <2>2. ChannelsType'  BY <2>1 DEF ChannelsInv, ChannelsType, Kind
  <2>3. \A c \in Named : Earned(ita2, c, delivery[c])'  BY <2>1 DEF ChannelsInv, Earned
  <2>4. \A i \in 1 .. 4 : ~ (i < next')  BY <2>1
  <2>5. Outgoing(ita2)!MaySimulate(settings)' \subseteq allowed'
    BY <2>1 DEF ChannelsInv, Outgoing!MaySimulate
  <2> QED  BY <2>1, <2>2, <2>3, <2>4, <2>5 DEF ChannelsInv
<1>2. CASE Outgoing(ita2)!DispatchNext  BY <1>2, OneDispatched
<1>3. CASE Outgoing(ita2)!Commit
  <2>1. /\ next = 5 /\ next' = 0 /\ delivery' = pending
        /\ UNCHANGED <<settings, pending, reached, confirmed, simulated, allowed>>
    BY <1>3, ChannelsAre DEF Outgoing!Commit
  <2>2. \A c \in Named : Earned(ita2, c, pending[c])
    BY <2>1, ChannelPlaces DEF ChannelsInv
  <2>3. ChannelsType'  BY <2>1 DEF ChannelsInv, ChannelsType
  <2>4. \A c \in Named : Earned(ita2, c, delivery[c])'  BY <2>1, <2>2 DEF Earned
  <2>5. Outgoing(ita2)!MaySimulate(settings)' \subseteq allowed'
    BY <2>1 DEF ChannelsInv, Outgoing!MaySimulate
  <2>6. \A i \in 1 .. 4 : ~ (i < next')  BY <2>1
  <2> QED  BY <2>1, <2>3, <2>4, <2>5, <2>6 DEF ChannelsInv
<1>4. CASE Outgoing(ita2)!RollBack \/ Outgoing(ita2)!Redeploy
  <2>1. /\ next' = 0 /\ pending' = [c \in Named |-> Absent]
        /\ UNCHANGED <<delivery, reached, confirmed, simulated>>
        /\ \/ UNCHANGED <<settings, allowed>>
           \/ /\ settings' \in Deployments
              /\ allowed' = allowed \cup Outgoing(ita2)!MaySimulate(settings')
    BY <1>4, ChannelsAre DEF Outgoing!RollBack, Outgoing!Redeploy, Outgoing!NotPublished, Absent
  <2>2. /\ settings' \in Deployments
        /\ allowed' = allowed \cup Outgoing(ita2)!MaySimulate(settings')
    BY <2>1 DEF ChannelsInv, ChannelsType
  <2> QED  BY <2>1, <2>2, StillEarned
<1>5. ASSUME NEW c \in Named, Outgoing(ita2)!Retry(c) \/ Outgoing(ita2)!WorkerRetry(c)
      PROVE  ChannelsInv(ita2)'
  BY <1>5, OneRedispatched
<1>6. ASSUME NEW c \in Named,
             \/ Outgoing(ita2)!OfficerAcknowledges(c)
             \/ Outgoing(ita2)!BridgeAcknowledges /\ c = "AFTN"
      PROVE  ChannelsInv(ita2)'
  <2>1. PICK ref : ref \in {delivery[c].ref, "bridge"} /\ Outgoing(ita2)!Acknowledge(c, ref)
    BY <1>6 DEF Outgoing!OfficerAcknowledges, Outgoing!BridgeAcknowledges
  <2> DEFINE d == [status |-> "acknowledged", ref |-> ref]
  <2>2. /\ delivery' = [delivery EXCEPT ![c] = d] /\ confirmed' = confirmed \cup {c}
        /\ UNCHANGED <<settings, next, pending, reached, simulated, allowed>>
    BY <2>1 DEF Outgoing!Acknowledge
  <2>3. delivery[c].status # "absent"
    BY <1>6 DEF Outgoing!OfficerAcknowledges, Outgoing!BridgeAcknowledges, Outgoing!Listed
  <2>4. d \in Kind  BY <2>1 DEF ChannelsInv, ChannelsType, Kind
  <2>5. Fits(ita2, c, d, reached', confirmed', simulated')  BY <2>2 DEF Fits
  <2>6. ~ Worker[ita2] /\ c \in simulated' => c \in allowed  BY <2>2 DEF ChannelsInv
  <2> HIDE DEF d
  <2> QED  BY <2>2, <2>3, <2>4, <2>5, <2>6, OneSettled
<1>7. CASE UNCHANGED channelsVars
  <2>1. allowed' = allowed \cup Outgoing(ita2)!MaySimulate(settings') /\ settings' \in Deployments
    BY <1>7 DEF ChannelsInv, ChannelsType, channelsVars
  <2> QED  BY <1>7, <2>1, StillEarned DEF channelsVars
<1>8. "AFTN" \in Named  BY DEF Named
<1> QED
  BY <1>1, <1>2, <1>3, <1>4, <1>5, <1>6, <1>7, <1>8, ChannelsAre DEF Outgoing!Next

\* What the channels promise.
LEMMA ChannelsPromises ==
  ASSUME NEW ita2 \in BOOLEAN, ChannelsInv(ita2)
  PROVE  /\ Outgoing(ita2)!TypeOK
         /\ Outgoing(Sendable)!AcknowledgedIsEarned /\ Outgoing(Sendable)!SentIsInReach
         /\ ~ Worker[ita2] => Outgoing(Sendable)!ModesAreIndependent
         /\ Outgoing(ita2)!OutcomesOfLifecycle
<1>1. Outgoing(ita2)!TypeOK  BY TypeIs DEF ChannelsInv
<1>2. Outgoing(Sendable)!Channel = Named  BY ChannelsAre DEF Sendable
<1>3. Outgoing(Sendable)!AcknowledgedIsEarned
  BY <1>2 DEF ChannelsInv, Earned, Fits, Outgoing!AcknowledgedIsEarned
<1>4. Outgoing(Sendable)!SentIsInReach
  <2>1. delivery \in [Named -> Kind]  BY DEF ChannelsInv, ChannelsType
  <2> QED
    BY <1>2, <2>1 DEF ChannelsInv, Earned, Fits, Kind, Outgoing!SentIsInReach, Outgoing!Listed
<1>5. ~ Worker[ita2] => Outgoing(Sendable)!ModesAreIndependent
  BY DEF ChannelsInv, Outgoing!ModesAreIndependent
<1>6. ASSUME NEW c \in Named
      PROVE  Outcome(ita2, c) \subseteq Outgoing(ita2)!Lifecycle!Outcomes("r", c)
  BY DEF Outcome, Outgoing!Lifecycle!Outcomes
<1>7. Outgoing(ita2)!OutcomesOfLifecycle
  BY <1>6, ChannelsAre DEF ChannelsInv, Earned, Fits, Outgoing!OutcomesOfLifecycle
<1> QED  BY <1>1, <1>3, <1>4, <1>5, <1>7

-----------------------------------------------------------------------------
(***************************************************************************)
(* The registry.  Publishing appends, so that the first NOTAM to supersede *)
(* another keeps its place at the end of the descending list.              *)
(***************************************************************************)
Found(n) == {i \in DOMAIN published : /\ row[published[i]].ref = n
                                        /\ row[published[i]].kind \in {"NOTAMR", "NOTAMC"}}
First(n, i) == i \in Found(n) /\ \A j \in Found(n) : i <= j

RegistryInv ==
  /\ row \in Registry!Contents
  /\ now \in Nat /\ now <= MaxNow
  /\ published \in Seq(Notams)
  /\ at \in [Notams -> Int]
  /\ \A n \in Notams : at[n] # -1 => 0 <= at[n] /\ at[n] <= now
  /\ \A i \in DOMAIN published : at[published[i]] # -1
  /\ \A i, j \in DOMAIN published : published[i] = published[j] => i = j
  /\ \A n \in Notams : at[n] # -1 => n \in {published[i] : i \in DOMAIN published}
  /\ \A n \in Notams : Found(n) # {} => \E i \in DOMAIN published : First(n, i)

Over(n) == row[n].qualifier # "PERM" /\ row[n].until # -1 /\ row[n].until < now

RowsAre ==
  \A n \in Notams : row[n].until \in Int /\ (row[n].qualifier = "EST" => row[n].until # -1)
SupersededByFirst ==
  \A n \in Notams :
    /\ Found(n) = {} => Registry!Superseding("none", n) = "none"
    /\ \A i \in DOMAIN published : First(n, i) => Registry!Superseding("none", n) = published[i]
ActiveUnless ==
  \A n \in Notams : at[n] # -1 =>
    (Registry!IsActive("none", n) <=> Found(n) = {} /\ row[n].kind # "NOTAMC" /\ ~ Over(n))

LEMMA ContentsAre == RegistryInv => RowsAre
<1> SUFFICES ASSUME RegistryInv, NEW n \in Notams
             PROVE  row[n].until \in Int /\ (row[n].qualifier = "EST" => row[n].until # -1)
  BY DEF RowsAre
<1>1. row[n] \in Rows[n]  BY DEF RegistryInv, Registry!Contents
<1> QED  BY <1>1, RegistryAssumption DEF Registry!RowsAssumption, Registry!Never

LEMMA FirstSupersedes == RegistryInv => SupersededByFirst
<1> SUFFICES ASSUME RegistryInv, NEW n \in Notams
             PROVE  /\ Found(n) = {} => Registry!Superseding("none", n) = "none"
                    /\ \A i \in DOMAIN published :
                         First(n, i) => Registry!Superseding("none", n) = published[i]
  BY DEF SupersededByFirst
<1>1. Registry!Supersedes("none", n) = Found(n)
  BY DEF Registry!Supersedes, Registry!Listed, Registry!None, Found
<1>2. Found(n) = {} => Registry!Superseding("none", n) = "none"
  BY <1>1 DEF Registry!Superseding, Registry!None
<1>3. ASSUME NEW i \in DOMAIN published, First(n, i)
      PROVE  Registry!Superseding("none", n) = published[i]
  <2>1. Found(n) \subseteq Int  BY DEF RegistryInv, Found
  <2>2. \A j \in Found(n) \ {i} : j > i  BY <1>3, <2>1 DEF First
  <2>3. \A k \in Found(n) : (\A j \in Found(n) \ {k} : j > k) => k = i
    BY <1>3, <2>1 DEF First
  <2>4. Registry!LastOf(Found(n)) = i
    BY <1>3, <2>2, <2>3 DEF Registry!LastOf, Registry!Before, First
  <2>5. Found(n) # {}  BY <1>3 DEF First
  <2> QED  BY <1>1, <2>4, <2>5 DEF Registry!Superseding, Registry!None
<1> QED  BY <1>2, <1>3

LEMMA SupersederIs ==
  ASSUME RegistryInv, NEW n \in Notams, Found(n) # {}
  PROVE  \E i \in Found(n) : First(n, i) /\ Registry!Superseding("none", n) = published[i]
<1>1. PICK i \in DOMAIN published : First(n, i)  BY DEF RegistryInv
<1> QED  BY <1>1, FirstSupersedes DEF SupersededByFirst, First

LEMMA ActiveWhile == RegistryInv => ActiveUnless
<1> SUFFICES ASSUME RegistryInv, NEW n \in Notams, at[n] # -1
             PROVE  Registry!IsActive("none", n)
                      <=> Found(n) = {} /\ row[n].kind # "NOTAMC" /\ ~ Over(n)
  BY DEF ActiveUnless
<1>1. row[n].until \in Int /\ (row[n].qualifier = "EST" => row[n].until # -1)
  BY ContentsAre DEF RowsAre
<1>2. CASE Found(n) # {}
  <2>1. PICK i \in Found(n) : Registry!Superseding("none", n) = published[i]
    BY <1>2, SupersederIs
  <2>2. published[i] \in Notams  BY DEF RegistryInv, Found
  <2>3. Registry!Superseding("none", n) # "none"
    BY <2>1, <2>2, RegistryAssumption DEF Registry!RowsAssumption, Registry!None
  <2>4. Registry!Lifecycle("none", n) \in {"REPLACED", "CANCELLED"}
    BY <2>3 DEF Registry!Lifecycle, Registry!None
  <2> QED  BY <1>2, <2>4 DEF Registry!IsActive, Registry!InForce
<1>3. CASE Found(n) = {}
  <2>1. Registry!Superseding("none", n) = "none"
    BY <1>3, FirstSupersedes DEF SupersededByFirst
  <2>2. Registry!Lifecycle("none", n) = IF row[n].kind = "NOTAMC" THEN "CANCELLATION_NOTICE"
                                        ELSE Registry!Validity(n)
    BY <2>1 DEF Registry!Lifecycle, Registry!None, Registry!Never
  <2>3. Registry!Validity(n) \in Registry!InForce <=> ~ Over(n)
    <3>1. CASE row[n].qualifier = "PERM"
      BY <3>1 DEF Registry!Validity, Registry!InForce, Over
    <3>2. CASE row[n].qualifier = "EST"
      <4>1. row[n].until # Registry!Never  BY <1>1, <3>2 DEF Registry!Never
      <4>2. Registry!Validity(n) = IF Registry!Left(n) < 0 THEN "EST_EXPIRED"
                                   ELSE IF Registry!Left(n) < Soon THEN "EST_EXPIRING_SOON"
                                   ELSE "EST_ACTIVE"
        BY <3>2, <4>1 DEF Registry!Validity
      <4>3. Registry!Left(n) < 0 <=> row[n].until < now
        BY <1>1 DEF Registry!Left, RegistryInv
      <4> QED  BY <3>2, <4>1, <4>2, <4>3 DEF Registry!InForce, Over, Registry!Never
    <3>3. CASE row[n].qualifier \notin {"PERM", "EST"}
      BY <1>1, <3>3, RegistryAssumption
      DEF Registry!Validity, Registry!InForce, Over, Registry!Left, RegistryInv,
          Registry!TimesAssumption, Registry!Never
    <3> QED  BY <3>1, <3>2, <3>3
  <2> QED  BY <1>3, <2>2, <2>3 DEF Registry!IsActive, Registry!InForce
<1> QED  BY <1>2, <1>3
LEMMA RegistryInit ==
  ASSUME Registry!InitWith(Registry!Contents)
  PROVE  RegistryInv
BY RegistryAssumption
DEF Registry!InitWith, RegistryInv, Registry!Never, Registry!TimesAssumption, Found, First

\* The rows stay, time goes on, what is published stays published, and who was
\* the first to supersede a NOTAM stays the first.
FirstsStay ==
  \A n \in Notams : \A i \in DOMAIN published :
    First(n, i) => i \in DOMAIN published' /\ First(n, i)' /\ published'[i] = published[i]
LaterOn ==
  /\ row' = row
  /\ now' \in Nat /\ now <= now'
  /\ \A n \in Notams : at[n] # -1 => at'[n] # -1
  /\ \A n \in Notams : Found(n) # {} => Found(n)' # {}
  /\ FirstsStay

LEMMA PublishKeeps ==
  ASSUME RegistryInv, NEW m \in Notams, Registry!Publish(m)
  PROVE  RegistryInv' /\ LaterOn
<1> DEFINE last == Len(published) + 1
<1>1. /\ published' = Append(published, m) /\ at' = [at EXCEPT ![m] = now]
      /\ now' = now /\ row' = row /\ at[m] = -1 /\ now \in Nat
  BY DEF Registry!Publish, Registry!Never, RegistryInv
<1>2. /\ DOMAIN published = 1 .. Len(published) /\ Len(published) \in Nat
      /\ DOMAIN published' = 1 .. last
      /\ published' \in Seq(Notams) /\ published'[last] = m
      /\ \A i \in DOMAIN published : published'[i] = published[i]
  BY <1>1 DEF RegistryInv
<1>3. ASSUME NEW n \in Notams
      PROVE  /\ Found(n) \subseteq Found(n)'
             /\ \A i \in Found(n)' : i \in Found(n) \/ i = last
             /\ \A i \in Found(n) : i \in 1 .. Len(published)
  BY <1>1, <1>2 DEF Found
<1>4. ASSUME NEW n \in Notams, NEW i \in DOMAIN published, First(n, i)
      PROVE  i \in DOMAIN published' /\ First(n, i)' /\ published'[i] = published[i]
  <2>1. i \in Found(n)' /\ i \in DOMAIN published' /\ i \in Int /\ i <= last
    BY <1>2, <1>3, <1>4 DEF First
  <2>2. \A j \in Found(n)' : i <= j  BY <1>3, <1>4, <2>1 DEF First
  <2> QED  BY <1>2, <2>1, <2>2 DEF First
<1>5. ASSUME NEW n \in Notams, Found(n)' # {}
      PROVE  \E i \in DOMAIN published' : First(n, i)'
  <2>1. CASE Found(n) # {}
    <3>1. PICK i \in DOMAIN published : First(n, i)  BY <2>1 DEF RegistryInv
    <3> QED  BY <1>4, <3>1
  <2>2. CASE Found(n) = {}
    <3>1. Found(n)' = {last}  BY <1>3, <1>5, <2>2
    <3>2. last \in DOMAIN published' /\ last <= last  BY <1>2
    <3> QED  BY <3>1, <3>2 DEF First
  <2> QED  BY <2>1, <2>2
<1>6. \A i \in DOMAIN published' : at'[published'[i]] # -1
  <2> SUFFICES ASSUME NEW i \in DOMAIN published' PROVE at'[published'[i]] # -1  OBVIOUS
  <2>1. CASE i = last  BY <1>1, <1>2, <2>1 DEF RegistryInv
  <2>2. CASE i # last
    <3>1. i \in DOMAIN published  BY <1>2, <2>2
    <3>2. published[i] \in Notams /\ at[published[i]] # -1  BY <3>1 DEF RegistryInv
    <3> QED  BY <1>1, <1>2, <3>1, <3>2 DEF RegistryInv
  <2> QED  BY <2>1, <2>2
<1>7. ASSUME NEW n \in Notams, at'[n] # -1
      PROVE  n \in {published'[i] : i \in DOMAIN published'}
  <2>1. CASE n = m
    <3>1. last \in DOMAIN published'  BY <1>2
    <3> QED  BY <1>2, <2>1, <3>1
  <2>2. CASE n # m
    <3>1. at[n] # -1  BY <1>1, <1>7, <2>2 DEF RegistryInv
    <3>2. PICK i \in DOMAIN published : published[i] = n  BY <3>1 DEF RegistryInv
    <3>3. i \in DOMAIN published' /\ published'[i] = n  BY <1>2, <3>2
    <3> QED  BY <3>3
  <2> QED  BY <2>1, <2>2
<1>8. row' \in Registry!Contents /\ now' \in Nat /\ at' \in [Notams -> Int]
  BY <1>1 DEF RegistryInv
<1>9. RegistryInv'
  <2>1. (row \in Registry!Contents)'  BY <1>1, <1>8 DEF Registry!Contents
  <2>2. \A n \in Notams : at'[n] # -1 => 0 <= at'[n] /\ at'[n] <= now'
    BY <1>1 DEF RegistryInv
  <2>3. ASSUME NEW i \in DOMAIN published', NEW j \in DOMAIN published', published'[i] = published'[j]
        PROVE  i = j
    <3>1. ASSUME NEW k \in DOMAIN published PROVE published[k] # m
      BY <1>1, <3>1 DEF RegistryInv
    <3>2. \A k \in DOMAIN published' : k \in DOMAIN published \/ k = last  BY <1>2
    <3> QED  BY <1>2, <2>3, <3>1, <3>2 DEF RegistryInv
  <2>4. now' <= MaxNow  BY <1>1 DEF RegistryInv
  <2> QED  BY <1>2, <1>5, <1>6, <1>7, <1>8, <2>1, <2>2, <2>3, <2>4 DEF RegistryInv
<1>10. \A n \in Notams : at[n] # -1 => at'[n] # -1  BY <1>1 DEF RegistryInv
<1>11. \A n \in Notams : Found(n) # {} => Found(n)' # {}  BY <1>3
<1>12. FirstsStay  BY <1>4 DEF FirstsStay
<1> QED  BY <1>1, <1>9, <1>10, <1>11, <1>12 DEF LaterOn

LEMMA RegistryStep ==
  ASSUME RegistryInv, [Registry!Next]_registryVars
  PROVE  RegistryInv' /\ LaterOn
<1>1. CASE UNCHANGED <<row, published, at>> /\ now' \in Nat /\ now <= now' /\ now' <= MaxNow
  <2>1. \A n : Found(n)' = Found(n)  BY <1>1 DEF Found
  <2>2. \A n, i : First(n, i)' <=> First(n, i)  BY <1>1, <2>1 DEF First
  <2>3. \A n \in Notams : at'[n] # -1 => 0 <= at'[n] /\ at'[n] <= now'  BY <1>1 DEF RegistryInv
  <2>4. LaterOn  BY <1>1, <2>1, <2>2 DEF RegistryInv, LaterOn, FirstsStay
  <2> QED  BY <1>1, <2>1, <2>2, <2>3, <2>4 DEF RegistryInv, Registry!Contents
<1>2. CASE Registry!Tick
  <2>1. now' \in Nat /\ now <= now' /\ now' <= MaxNow
    BY <1>2, RegistryAssumption DEF Registry!Tick, RegistryInv, Registry!TimesAssumption
  <2> QED  BY <1>1, <1>2, <2>1 DEF Registry!Tick
<1>3. CASE \E m \in Notams : Registry!Publish(m)  BY <1>3, PublishKeeps
<1>4. CASE UNCHANGED registryVars  BY <1>1, <1>4 DEF RegistryInv, registryVars
<1> QED  BY <1>2, <1>3, <1>4 DEF Registry!Next
Published == Registry!ToSet(published)

LEMMA PublishedAre ==
  ASSUME RegistryInv
  PROVE  Published \subseteq {n \in Notams : at[n] # -1}
BY DEF RegistryInv, Published, Registry!ToSet

\* Once out of force, always out of force.
LEMMA StaysOut ==
  RegistryInv /\ RegistryInv' /\ LaterOn =>
    \A n \in Published : ~ Registry!IsActive("none", n) => ~ Registry!IsActive("none", n)'
<1>1. (RegistryInv => ActiveUnless)'  BY ActiveWhile, PTL
<1> SUFFICES ASSUME RegistryInv, RegistryInv', LaterOn, NEW n \in Published,
                    ~ Registry!IsActive("none", n)
             PROVE  ~ Registry!IsActive("none", n)'
  OBVIOUS
<1>2. n \in Notams /\ at[n] # -1 /\ at'[n] # -1  BY PublishedAre DEF LaterOn
<1>3. Found(n) # {} \/ row[n].kind = "NOTAMC" \/ Over(n)
  BY <1>2, ActiveWhile DEF ActiveUnless
<1>4. Over(n) => Over(n)'
  <2>1. row[n].until \in Int /\ now \in Nat /\ now' \in Nat /\ now <= now' /\ row' = row
    BY <1>2, ContentsAre DEF LaterOn, RowsAre, RegistryInv
  <2> QED  BY <2>1 DEF Over
<1>5. ~ (Found(n)' = {} /\ row'[n].kind # "NOTAMC" /\ ~ Over(n)')
  BY <1>2, <1>3, <1>4 DEF LaterOn
<1> QED  BY <1>1, <1>2, <1>5 DEF ActiveUnless

\* Once superseded, superseded by the same one.
LEMMA SupersederStays ==
  RegistryInv /\ RegistryInv' /\ LaterOn =>
    \A n \in Notams : \/ Registry!Superseding("none", n)' \in {Registry!Superseding("none", n), "none"}
                      \/ Registry!Superseding("none", n) = "none"
<1>1. (RegistryInv => SupersededByFirst)'  BY FirstSupersedes, PTL
<1> SUFFICES ASSUME RegistryInv, RegistryInv', LaterOn, NEW n \in Notams,
                    Registry!Superseding("none", n) # "none"
             PROVE  Registry!Superseding("none", n)' = Registry!Superseding("none", n)
  OBVIOUS
<1>2. Found(n) # {}  BY FirstSupersedes DEF SupersededByFirst
<1>3. PICK i \in Found(n) : First(n, i) /\ Registry!Superseding("none", n) = published[i]
  BY <1>2, SupersederIs
<1>4. i \in DOMAIN published' /\ First(n, i)' /\ published'[i] = published[i]
  BY <1>3 DEF LaterOn, FirstsStay, Found
<1> QED  BY <1>1, <1>3, <1>4 DEF SupersededByFirst

\* Whoever supersedes is published, and the filters agree.
LEMMA RegistryPromises ==
  RegistryInv => Registry!OnlyPublishedSupersedes /\ Registry!FiltersAgree
<1> SUFFICES ASSUME RegistryInv
             PROVE  Registry!OnlyPublishedSupersedes /\ Registry!FiltersAgree
  OBVIOUS
<1>1. ASSUME NEW n \in Notams, Registry!Superseding("none", n) # "none"
      PROVE  at[Registry!Superseding("none", n)] # -1
  <2>1. Found(n) # {}  BY <1>1, FirstSupersedes DEF SupersededByFirst
  <2>2. PICK i \in Found(n) : Registry!Superseding("none", n) = published[i]
    BY <2>1, SupersederIs
  <2> QED  BY <2>2 DEF RegistryInv, Found
<1>2. ASSUME NEW n \in Published
      PROVE  /\ Registry!Wants("EXPIRING", n) => Registry!Wants("ACTIVE", n)
             /\ ~ Registry!Wants("ACTIVE", n) /\ ~ Registry!Wants("REPLACED_CANCELLED", n) =>
                  row[n].until # -1 /\ row[n].until < now
             /\ Registry!Wants("PERM", n) => Registry!Shown("PERM", n)
             /\ Registry!Shown("EST_REVIEW", n) =>
                  Registry!Superseding("none", n) = "none" /\ Registry!Left(n) < Soon
  <2> DEFINE cycle == Registry!Lifecycle("none", n)
  <2>1. n \in Notams /\ at[n] # -1  BY PublishedAre
  <2>2. row[n].until \in Int /\ (row[n].qualifier = "EST" => row[n].until # -1)
    BY <2>1, ContentsAre DEF RowsAre
  <2>3. Registry!Wants("EXPIRING", n) => Registry!Wants("ACTIVE", n)
    BY DEF Registry!Wants, Registry!Wanted, Registry!InForce
  <2>4. CASE Registry!Superseding("none", n) # "none"
    <3>1. cycle \in {"REPLACED", "CANCELLED"}
      BY <2>4 DEF Registry!Lifecycle, Registry!None
    <3> QED  BY <2>3, <3>1 DEF Registry!Wants, Registry!Wanted, Registry!Shown, Registry!None
  <2>5. CASE Registry!Superseding("none", n) = "none" /\ row[n].kind = "NOTAMC"
    <3>1. cycle = "CANCELLATION_NOTICE"
      BY <2>5 DEF Registry!Lifecycle, Registry!None
    <3> QED  BY <2>3, <3>1 DEF Registry!Wants, Registry!Wanted, Registry!Shown, Registry!None
  <2>6. CASE Registry!Superseding("none", n) = "none" /\ row[n].kind # "NOTAMC"
    <3>1. cycle = Registry!Validity(n)
      BY <2>1, <2>6 DEF Registry!Lifecycle, Registry!None, Registry!Never
    <3>2. CASE row[n].qualifier = "PERM"
      <4>1. cycle = "PERM"  BY <3>1, <3>2 DEF Registry!Validity
      <4> QED  BY <2>3, <3>2, <4>1
               DEF Registry!Wants, Registry!Wanted, Registry!Shown, Registry!None, Registry!InForce
    <3>3. CASE row[n].qualifier # "PERM" /\ row[n].until = -1
      <4>1. cycle = "ACTIVE"  BY <2>2, <3>1, <3>3 DEF Registry!Validity, Registry!Never
      <4> QED  BY <2>3, <4>1
               DEF Registry!Wants, Registry!Wanted, Registry!Shown, Registry!None, Registry!InForce
    <3>4. CASE row[n].qualifier # "PERM" /\ row[n].until # -1
      <4>1. Registry!Left(n) < 0 <=> row[n].until < now
        BY <2>2 DEF Registry!Left, RegistryInv
      <4>2. /\ cycle \in {"EST_EXPIRED", "EXPIRED"} => Registry!Left(n) < 0
            /\ cycle \in {"EST_EXPIRING_SOON", "EXPIRING_SOON"} => Registry!Left(n) < Soon
            /\ cycle \in {"EST_EXPIRED", "EXPIRED", "EST_EXPIRING_SOON", "EXPIRING_SOON",
                          "EST_ACTIVE", "ACTIVE"}
        BY <3>1, <3>4 DEF Registry!Validity, Registry!Never
      <4>3. Registry!Left(n) < 0 => Registry!Left(n) < Soon
        BY <2>2, RegistryAssumption DEF Registry!Left, RegistryInv, Registry!TimesAssumption
      <4> QED  BY <2>3, <2>6, <3>4, <4>1, <4>2, <4>3
               DEF Registry!Wants, Registry!Wanted, Registry!Shown, Registry!None, Registry!InForce
    <3> QED  BY <3>2, <3>3, <3>4
  <2> QED  BY <2>4, <2>5, <2>6
<1> QED  BY <1>1, <1>2 DEF Registry!OnlyPublishedSupersedes, Registry!FiltersAgree, Published,
              Registry!None, Registry!Never
-----------------------------------------------------------------------------
(***************************************************************************)
(* Text.  Its loops are folds, so the proofs are by induction: on a set of *)
(* naturals, which follows from their being well-founded.                  *)
(***************************************************************************)
LEMMA Smallest ==
  ASSUME NEW T \in SUBSET Nat, T # {}
  PROVE  \E n \in T : \A m \in T : n <= m
<1> DEFINE R == {p \in Nat \X Nat : p[1] < p[2]}
<1>1. IsWellFoundedOn(R, Nat)  BY NatLessThanWellFounded DEF OpToRel
<1>2. \A x, y \in Nat : y < x => <<y, x>> \in R  OBVIOUS
<1> HIDE DEF R
<1>3. \E x \in T : \A y \in T : ~ (<<y, x>> \in R)  BY <1>1, WFMin
<1>4. PICK n \in T : \A y \in T : ~ (<<y, n>> \in R)  BY <1>3
<1>5. ASSUME NEW m \in T PROVE n <= m
  <2>1. n \in Nat /\ m \in Nat  OBVIOUS
  <2>2. ~ (m < n)  BY <1>2, <1>4, <2>1
  <2> QED  BY <2>1, <2>2
<1> QED  BY <1>4, <1>5

LEMMA Induct ==
  ASSUME NEW S \in SUBSET Nat, 0 \in S, \A n \in S : n + 1 \in S
  PROVE  S = Nat
<1> SUFFICES ASSUME Nat \ S # {} PROVE FALSE  OBVIOUS
<1>1. PICK n \in Nat \ S : \A m \in Nat \ S : n <= m  BY Smallest
<1>2. n # 0  OBVIOUS
<1>3. n - 1 \in Nat  BY <1>2
<1>4. n - 1 \notin Nat \ S  BY <1>1, <1>3
<1>5. (n - 1) + 1 = n  BY <1>2
<1> QED  BY <1>1, <1>3, <1>4, <1>5

-----------------------------------------------------------------------------
(***************************************************************************)
(* FoldLeft of the community modules is a recursive function on the subsets*)
(* of the places of a sequence.  Run is what such a loop has after the whole*)
(* sequence, and obeys the two laws one expects of it.                     *)
(***************************************************************************)
\* One turn of either loop: over pieces that are put together into words, or
\* over words that are put into lines.
SPELL == -1
Put(done, p) == IF done.open = 0
                THEN [words |-> Append(done.words, p.word), open |-> p.word.len - p.len]
                ELSE [done EXCEPT !.open = @ - p.len]
Turn(loop, done, p) == IF loop = SPELL THEN Put(done, p) ELSE Text!AddWord(loop, done, p)

Turns(loop, base, ps, S, it) ==
  it = [s \in SUBSET S |-> IF s = {} THEN base
                           ELSE Turn(loop, it[s \ {Text!Max(s)}], ps[Text!Max(s)])]
Run(loop, base, ps) == (CHOOSE it : Turns(loop, base, ps, DOMAIN ps, it))[DOMAIN ps]

LEMMA MaxOf ==
  ASSUME NEW n \in Nat, NEW s \in SUBSET (1 .. n + 1), n + 1 \in s
  PROVE  Text!Max(s) = n + 1
<1>1. \A y \in s : n + 1 >= y  OBVIOUS
<1>2. \A x \in s : (\A y \in s : x >= y) => x = n + 1
  <2> SUFFICES ASSUME NEW x \in s, \A y \in s : x >= y PROVE x = n + 1  OBVIOUS
  <2>1. x >= n + 1 /\ x \in 1 .. n + 1  OBVIOUS
  <2> QED  BY <2>1
<1>3. \E x \in s : \A y \in s : x >= y  BY <1>1
<1> DEFINE m == CHOOSE x \in s : \A y \in s : x >= y
<1>4. m \in s /\ \A y \in s : m >= y  BY <1>3
<1> HIDE DEF m
<1>5. m = n + 1  BY <1>2, <1>4
<1> QED  BY <1>5 DEF Text!Max, m

LEMMA MaxIn ==
  ASSUME NEW n \in Nat, NEW s \in SUBSET (1 .. n), s # {}
  PROVE  Text!Max(s) \in s
<1> DEFINE T == {n - i : i \in s}
<1>1. T \in SUBSET Nat /\ T # {}
  <2>1. \A i \in s : i \in 1 .. n  OBVIOUS
  <2>2. \A i \in s : n - i \in Nat  BY <2>1
  <2> QED  BY <2>2
<1>2. PICK m \in T : \A k \in T : m <= k  BY <1>1, Smallest
<1>3. PICK i \in s : m = n - i  BY <1>2
<1>4. ASSUME NEW j \in s PROVE i >= j
  <2>1. n - j \in T  OBVIOUS
  <2>2. n - i <= n - j  BY <2>1, <1>2, <1>3
  <2> QED  BY <2>2
<1>5. \E x \in s : \A y \in s : x >= y  BY <1>4
<1> QED  BY <1>5 DEF Text!Max

LEMMA TurnsExist ==
  ASSUME NEW loop, NEW base, NEW ps, NEW n \in Nat
  PROVE  \E it : Turns(loop, base, ps, 1 .. n, it)
<1> DEFINE S == {m \in Nat : \E it : Turns(loop, base, ps, 1 .. m, it)}
<1>1. 0 \in S
  <2>1. SUBSET (1 .. 0) = {{}}  OBVIOUS
  <2>2. Turns(loop, base, ps, 1 .. 0, [s \in {{}} |-> base])  BY <2>1 DEF Turns
  <2> QED  BY <2>2
<1>2. ASSUME NEW m \in S PROVE m + 1 \in S
  <2>1. PICK it : Turns(loop, base, ps, 1 .. m, it)  OBVIOUS
  <2> DEFINE now1 == [s \in SUBSET (1 .. m + 1) |->
                      IF m + 1 \in s THEN Turn(loop, it[s \ {m + 1}], ps[m + 1]) ELSE it[s]]
  <2>2. m \in Nat  OBVIOUS
  <2>3. ASSUME NEW s \in SUBSET (1 .. m + 1)
        PROVE  now1[s] = IF s = {} THEN base
                         ELSE Turn(loop, now1[s \ {Text!Max(s)}], ps[Text!Max(s)])
    <3>1. CASE m + 1 \in s
      <4>1. Text!Max(s) = m + 1  BY <2>2, <3>1, MaxOf
      <4>2. s \ {m + 1} \in SUBSET (1 .. m + 1)  OBVIOUS
      <4>3. now1[s \ {m + 1}] = it[s \ {m + 1}]  BY <4>2
      <4> HIDE DEF S
      <4> QED  BY <3>1, <4>1, <4>3
    <3>2. CASE m + 1 \notin s /\ s = {}
      <4>1. now1[s] = it[s]  BY <3>2
      <4>2. s \in SUBSET (1 .. m)  BY <3>2
      <4> QED  BY <2>1, <3>2, <4>1, <4>2 DEF Turns
    <3>3. CASE m + 1 \notin s /\ s # {}
      <4>1. s \in SUBSET (1 .. m)  BY <2>2, <3>3
      <4>2. Text!Max(s) \in s  BY <2>2, <3>3, <4>1, MaxIn
      <4>3. s \ {Text!Max(s)} \in SUBSET (1 .. m + 1) /\ m + 1 \notin s \ {Text!Max(s)}
        BY <3>3
      <4>4. now1[s \ {Text!Max(s)}] = it[s \ {Text!Max(s)}]  BY <4>3
      <4>5. now1[s] = it[s]  BY <3>3
      <4>6. it[s] = Turn(loop, it[s \ {Text!Max(s)}], ps[Text!Max(s)])
        BY <2>1, <3>3, <4>1 DEF Turns
      <4> HIDE DEF now1, S
      <4> QED  BY <3>3, <4>4, <4>5, <4>6
    <3> QED  BY <3>1, <3>2, <3>3
  <2>4. Turns(loop, base, ps, 1 .. m + 1, now1)
    <3> DEFINE next1 == [s \in SUBSET (1 .. m + 1) |->
                 IF s = {} THEN base ELSE Turn(loop, now1[s \ {Text!Max(s)}], ps[Text!Max(s)])]
    <3>1. DOMAIN now1 = SUBSET (1 .. m + 1)  OBVIOUS
    <3>2. now1 = [s \in SUBSET (1 .. m + 1) |-> now1[s]]  OBVIOUS
    <3> HIDE DEF now1, S
    <3>3. now1 = next1  BY <2>3, <3>1, <3>2
    <3> QED  BY <3>3 DEF Turns
  <2> QED  BY <2>2, <2>4
<1> HIDE DEF S
<1>3. S = Nat  BY <1>1, <1>2, Induct DEF S
<1> QED  BY <1>3 DEF S
LEMMA TurnsAgree ==
  ASSUME NEW loop, NEW base, NEW ps, NEW qs, NEW it, NEW jt, NEW n \in Nat, NEW m \in Nat, m <= n,
         Turns(loop, base, ps, 1 .. n, it), Turns(loop, base, qs, 1 .. m, jt),
         \A i \in 1 .. m : ps[i] = qs[i]
  PROVE  it[1 .. m] = jt[1 .. m]
<1> DEFINE S == {k \in Nat : k <= m => it[1 .. k] = jt[1 .. k]}
<1>1. \A k \in Nat : k <= m => 1 .. k \in SUBSET (1 .. n) /\ 1 .. k \in SUBSET (1 .. m)  OBVIOUS
<1>2. 0 \in S
  <2>1. 1 .. 0 = {}  OBVIOUS
  <2>2. it[1 .. 0] = base /\ jt[1 .. 0] = base  BY <1>1, <2>1 DEF Turns
  <2> QED  BY <2>2
<1>3. ASSUME NEW k \in S PROVE k + 1 \in S
  <2> SUFFICES ASSUME k + 1 <= m PROVE it[1 .. k + 1] = jt[1 .. k + 1]  OBVIOUS
  <2>1. k \in Nat /\ k + 1 \in Nat /\ k + 1 \in 1 .. m /\ k <= m  OBVIOUS
  <2>2. it[1 .. k] = jt[1 .. k]  BY <2>1
  <2>3. 1 .. k + 1 # {} /\ (1 .. k + 1) \ {k + 1} = 1 .. k  BY <2>1
  <2>4. Text!Max(1 .. k + 1) = k + 1
    <3>1. k + 1 \in 1 .. k + 1  BY <2>1
    <3> QED  BY <2>1, <3>1, MaxOf
  <2>5. 1 .. k + 1 \in SUBSET (1 .. n) /\ 1 .. k + 1 \in SUBSET (1 .. m)  BY <1>1, <2>1
  <2> HIDE DEF S
  <2>6. it[1 .. k + 1] = Turn(loop, it[1 .. k], ps[k + 1])
    <3> DEFINE s == 1 .. k + 1
    <3>1. s \in SUBSET (1 .. n) /\ s # {} /\ s \ {k + 1} = 1 .. k /\ Text!Max(s) = k + 1
      BY <2>3, <2>4, <2>5
    <3> HIDE DEF s
    <3>2. it[s] = Turn(loop, it[s \ {Text!Max(s)}], ps[Text!Max(s)])  BY <3>1 DEF Turns
    <3> QED  BY <3>1, <3>2 DEF s
  <2>7. jt[1 .. k + 1] = Turn(loop, jt[1 .. k], qs[k + 1])
    <3> DEFINE s == 1 .. k + 1
    <3>1. s \in SUBSET (1 .. m) /\ s # {} /\ s \ {k + 1} = 1 .. k /\ Text!Max(s) = k + 1
      BY <2>3, <2>4, <2>5
    <3> HIDE DEF s
    <3>2. jt[s] = Turn(loop, jt[s \ {Text!Max(s)}], qs[Text!Max(s)])  BY <3>1 DEF Turns
    <3> QED  BY <3>1, <3>2 DEF s
  <2>8. ps[k + 1] = qs[k + 1]  BY <2>1
  <2> QED  BY <2>2, <2>6, <2>7, <2>8
<1> HIDE DEF S
<1>4. S = Nat  BY <1>2, <1>3, Induct DEF S
<1> QED  BY <1>4 DEF S

LEMMA RunIs ==
  ASSUME NEW loop, NEW base, NEW ps, NEW n \in Nat, DOMAIN ps = 1 .. n
  PROVE  \E it : Turns(loop, base, ps, 1 .. n, it) /\ Run(loop, base, ps) = it[1 .. n]
<1> DEFINE it == CHOOSE i : Turns(loop, base, ps, 1 .. n, i)
<1>1. Turns(loop, base, ps, 1 .. n, it)  BY TurnsExist
<1>2. Run(loop, base, ps) = it[1 .. n]  BY DEF Run
<1> QED  BY <1>1, <1>2

LEMMA RunNil ==
  ASSUME NEW loop, NEW base
  PROVE  Run(loop, base, <<>>) = base
<1>1. DOMAIN <<>> = 1 .. 0  OBVIOUS
<1>2. PICK it : Turns(loop, base, <<>>, 1 .. 0, it) /\ Run(loop, base, <<>>) = it[1 .. 0]
  BY <1>1, RunIs
<1>3. 1 .. 0 = {}  OBVIOUS
<1> QED  BY <1>2, <1>3 DEF Turns

LEMMA RunNext ==
  ASSUME NEW loop, NEW base, NEW S, NEW ps \in Seq(S), NEW p \in S
  PROVE  Run(loop, base, Append(ps, p)) = Turn(loop, Run(loop, base, ps), p)
<1> DEFINE n == Len(ps)
           qs == Append(ps, p)
<1>1. /\ n \in Nat /\ DOMAIN ps = 1 .. n /\ DOMAIN qs = 1 .. n + 1 /\ qs[n + 1] = p
      /\ \A i \in 1 .. n : qs[i] = ps[i]
  OBVIOUS
<1>9. n \in Nat  OBVIOUS
<1> HIDE DEF n, qs
<1>2. PICK jt : Turns(loop, base, ps, 1 .. n, jt) /\ Run(loop, base, ps) = jt[1 .. n]
  BY <1>1, RunIs
<1>3. n + 1 \in Nat  BY <1>1
<1>4. PICK it : Turns(loop, base, qs, 1 .. n + 1, it) /\ Run(loop, base, qs) = it[1 .. n + 1]
  BY <1>1, <1>3, RunIs
<1>5. it[1 .. n] = jt[1 .. n]  BY <1>1, <1>2, <1>3, <1>4, TurnsAgree
<1>6. 1 .. n + 1 # {} /\ (1 .. n + 1) \ {n + 1} = 1 .. n  BY <1>9
<1>7. Text!Max(1 .. n + 1) = n + 1
  <2>1. n + 1 \in 1 .. n + 1  BY <1>1
  <2> QED  BY <1>1, <2>1, MaxOf
<1>8. it[1 .. n + 1] = Turn(loop, it[1 .. n], qs[n + 1])
  BY <1>4, <1>6, <1>7 DEF Turns
<1> QED  BY <1>1, <1>2, <1>4, <1>5, <1>8 DEF qs

\* The two folds of the model are such loops.
LEMMA WrapRuns ==
  ASSUME NEW label \in Nat, NEW ps
  PROVE  LET end == Run(label, [lines |-> <<>>, line |-> [pieces |-> <<>>, len |-> label]], ps)
         IN  Text!Wrap(label, ps) = IF end.line.len = 0 \/ Text!IsLabel(end.line, label)
                                    THEN end.lines ELSE Append(end.lines, end.line)
<1>1. label # SPELL  BY DEF SPELL
<1>2. \A d, p : Turn(label, d, p) = Text!AddWord(label, d, p)  BY <1>1 DEF Turn
<1> DEFINE base == [lines |-> <<>>, line |-> [pieces |-> <<>>, len |-> label]]
           step(it) == [s \in SUBSET DOMAIN ps |-> IF s = {} THEN base
                        ELSE Text!AddWord(label, it[s \ {Text!Max(s)}], ps[Text!Max(s)])]
           end == (CHOOSE it : it = step(it))[DOMAIN ps]
<1>3. \A it : Turns(label, base, ps, DOMAIN ps, it) <=> it = step(it)
  <2> HIDE DEF base
  <2> QED  BY <1>2 DEF Turns
<1>4. Run(label, base, ps) = end
  <2> HIDE DEF base, step
  <2> QED  BY <1>3 DEF Run
<1>5. Text!Wrap(label, ps) = IF end.line.len = 0 \/ Text!IsLabel(end.line, label)
                             THEN end.lines ELSE Append(end.lines, end.line)
  BY DEF Text!Wrap, Text!FoldLeft, Text!MapThenFoldSet
<1> HIDE DEF end
<1> QED  BY <1>4, <1>5

Ink(lines) == Text!FlattenSeq([l \in DOMAIN lines |-> lines[l].pieces])

LEMMA SpeltRuns ==
  ASSUME NEW lines
  PROVE  Text!Spelt(lines) = Run(SPELL, Text!Whole(<<>>), Ink(lines))
<1> DEFINE base == Text!Whole(<<>>)
           ps == Ink(lines)
           put(d, p) == IF d.open = 0
                        THEN [words |-> Append(d.words, p.word), open |-> p.word.len - p.len]
                        ELSE [d EXCEPT !.open = @ - p.len]
           step(it) == [s \in SUBSET DOMAIN ps |-> IF s = {} THEN base
                        ELSE put(it[s \ {Text!Max(s)}], ps[Text!Max(s)])]
           end == (CHOOSE it : it = step(it))[DOMAIN ps]
<1>1. \A d, p : Turn(SPELL, d, p) = put(d, p)  BY DEF Turn, Put
<1>2. \A it : Turns(SPELL, base, ps, DOMAIN ps, it) <=> it = step(it)
  <2> HIDE DEF base, ps, put
  <2> QED  BY <1>1 DEF Turns
<1>3. Run(SPELL, base, ps) = end
  <2> HIDE DEF base, ps, step
  <2> QED  BY <1>2 DEF Run
<1>4. Text!Spelt(lines) = end
  BY DEF Text!Spelt, Text!FoldLeft, Text!MapThenFoldSet, Ink
<1> HIDE DEF end
<1> QED  BY <1>3, <1>4
\* FlattenSeq, by the same argument: f[i] is the first i sequences joined.
Joins(ss, n, f) == f = [i \in 1 .. n |-> IF i = 1 THEN ss[i] ELSE f[i - 1] \o ss[i]]

LEMMA JoinsExist ==
  ASSUME NEW ss, NEW n \in Nat
  PROVE  \E f : Joins(ss, n, f)
<1> DEFINE S == {m \in Nat : \E f : Joins(ss, m, f)}
<1>1. 0 \in S
  <2>1. Joins(ss, 0, [i \in 1 .. 0 |-> ss])  BY DEF Joins
  <2> QED  BY <2>1
<1>2. ASSUME NEW m \in S PROVE m + 1 \in S
  <2>1. PICK f : Joins(ss, m, f)  OBVIOUS
  <2>2. m \in Nat  OBVIOUS
  <2> DEFINE g == [i \in 1 .. m + 1 |->
                     IF i <= m THEN f[i] ELSE IF i = 1 THEN ss[i] ELSE f[i - 1] \o ss[i]]
  <2> HIDE DEF S
  <2>3. ASSUME NEW i \in 1 .. m + 1
        PROVE  g[i] = IF i = 1 THEN ss[i] ELSE g[i - 1] \o ss[i]
    <3>1. CASE i = 1
      <4>1. 1 <= m => f[1] = ss[1]  BY <2>1, <2>2 DEF Joins
      <4> QED  BY <2>2, <3>1, <4>1
    <3>2. CASE i # 1
      <4>1. i - 1 \in 1 .. m /\ i - 1 <= m /\ i - 1 \in 1 .. m + 1  BY <2>2, <3>2
      <4>2. g[i - 1] = f[i - 1]  BY <4>1
      <4>3. ASSUME i <= m PROVE f[i] = f[i - 1] \o ss[i]
        <5>1. i \in 1 .. m  BY <2>2, <4>3
        <5> HIDE DEF g
        <5> QED  BY <2>1, <3>2, <5>1 DEF Joins
      <4>4. g[i] = f[i - 1] \o ss[i]  BY <3>2, <4>3
      <4> QED  BY <3>2, <4>2, <4>4
    <3> QED  BY <3>1, <3>2
  <2>4. Joins(ss, m + 1, g)
    <3>1. g = [i \in 1 .. m + 1 |-> g[i]]  OBVIOUS
    <3> HIDE DEF g
    <3> QED  BY <2>3, <3>1 DEF Joins
  <2>5. m + 1 \in Nat  BY <2>2
  <2> QED  BY <2>4, <2>5 DEF S
<1> HIDE DEF S
<1>3. S = Nat  BY <1>1, <1>2, Induct DEF S
<1> QED  BY <1>3 DEF S

LEMMA FlatIs ==
  ASSUME NEW P, NEW ss \in Seq(P), NEW n \in Nat, n = Len(ss), n # 0
  PROVE  \E f : Joins(ss, n, f) /\ Text!FlattenSeq(ss) = f[n]
<1> DEFINE f == CHOOSE g : Joins(ss, n, g)
<1>1. Joins(ss, n, f)  BY JoinsExist
<1>2. Text!FlattenSeq(ss) = f[n]
  <2>1. Text!FlattenSeq(ss) = (CHOOSE g : g = [i \in 1 .. Len(ss) |->
            IF i = 1 THEN ss[i] ELSE g[i - 1] \o ss[i]])[Len(ss)]
    BY DEF Text!FlattenSeq
  <2> QED  BY <2>1 DEF Joins
<1> QED  BY <1>1, <1>2

LEMMA FlatNil == Text!FlattenSeq(<<>>) = <<>>
BY DEF Text!FlattenSeq

LEMMA FlatOne ==
  ASSUME NEW P, NEW s \in Seq(P)
  PROVE  Text!FlattenSeq(<<s>>) = s
<1> DEFINE ss == <<s>>
           n == 1
<1>1. ss \in Seq(Seq(P)) /\ n = Len(ss) /\ n \in Nat /\ n # 0  OBVIOUS
<1> HIDE DEF ss, n
<1>2. PICK f : Joins(ss, n, f) /\ Text!FlattenSeq(ss) = f[n]  BY <1>1, FlatIs
<1>3. f[n] = ss[1]  BY <1>2 DEF Joins, n
<1> QED  BY <1>2, <1>3 DEF ss

LEMMA FlatNext ==
  ASSUME NEW P, NEW ss \in Seq(Seq(P)), NEW s \in Seq(P)
  PROVE  Text!FlattenSeq(Append(ss, s)) = Text!FlattenSeq(ss) \o s
<1> DEFINE n == Len(ss)
           tt == Append(ss, s)
<1>1. /\ n \in Nat /\ tt \in Seq(Seq(P)) /\ Len(tt) = n + 1 /\ tt[n + 1] = s
      /\ \A i \in 1 .. n : tt[i] = ss[i]
  OBVIOUS
<1>2. CASE n = 0
  <2>1. ss = <<>> /\ tt = <<s>>  BY <1>2
  <2> QED  BY <2>1, FlatNil, FlatOne
<1>3. CASE n # 0
  <2> HIDE DEF tt
  <2>1. PICK f : Joins(ss, n, f) /\ Text!FlattenSeq(ss) = f[n]  BY <1>3, FlatIs
  <2> HIDE DEF n
  <2>2. n + 1 \in Nat /\ n + 1 # 0  BY <1>1
  <2>3. PICK g : Joins(tt, n + 1, g) /\ Text!FlattenSeq(tt) = g[n + 1]  BY <1>1, <2>2, FlatIs
  <2> DEFINE S == {k \in Nat : k + 1 <= n => g[k + 1] = f[k + 1]}
  <2>4. 0 \in S  BY <1>1, <2>1, <2>3 DEF Joins
  <2>5. ASSUME NEW k \in S PROVE k + 1 \in S
    <3> SUFFICES ASSUME k + 1 + 1 <= n PROVE g[k + 1 + 1] = f[k + 1 + 1]  OBVIOUS
    <3>1. k \in Nat /\ k + 1 + 1 \in 1 .. n /\ k + 1 + 1 # 1 /\ (k + 1 + 1) - 1 = k + 1  BY <1>1
    <3>2. g[k + 1] = f[k + 1]  BY <1>1, <3>1
    <3> DEFINE i == k + 1 + 1
    <3>3. i \in 1 .. n /\ i \in 1 .. n + 1 /\ i # 1 /\ i - 1 = k + 1  BY <1>1, <3>1
    <3> HIDE DEF i, S
    <3>4. g[i] = g[i - 1] \o tt[i] /\ f[i] = f[i - 1] \o ss[i]  BY <2>1, <2>3, <3>3 DEF Joins
    <3> QED  BY <1>1, <3>2, <3>3, <3>4 DEF i
  <2> HIDE DEF S
  <2>6. S = Nat  BY <2>4, <2>5, Induct DEF S
  <2>7. g[n] = f[n]
    <3>1. n - 1 \in S /\ (n - 1) + 1 = n  BY <1>1, <1>3, <2>6
    <3> QED  BY <1>1, <3>1 DEF S
  <2>8. g[n + 1] = g[n] \o s
    <3> DEFINE i == n + 1
    <3>1. i \in 1 .. n + 1 /\ i # 1 /\ i - 1 = n  BY <1>1, <1>3
    <3> HIDE DEF i
    <3>2. g[i] = g[i - 1] \o tt[i]  BY <2>3, <3>1 DEF Joins
    <3> QED  BY <1>1, <3>1, <3>2 DEF i
  <2> QED  BY <2>1, <2>3, <2>7, <2>8 DEF tt
<1> QED  BY <1>2, <1>3

LEMMA Popped ==
  ASSUME NEW P, NEW m \in Nat, NEW s \in Seq(P), Len(s) = m + 1
  PROVE  \E u \in Seq(P) : \E x \in P : s = Append(u, x) /\ Len(u) = m
<1> DEFINE u == [i \in 1 .. m |-> s[i]]
<1>1. \A i \in 1 .. m + 1 : s[i] \in P  OBVIOUS
<1>2. u \in Seq(P) /\ Len(u) = m /\ \A i \in 1 .. m : u[i] = s[i]  BY <1>1
<1>3. s[m + 1] \in P  BY <1>1
<1> HIDE DEF u
<1>4. Append(u, s[m + 1]) \in Seq(P) /\ Len(Append(u, s[m + 1])) = m + 1  BY <1>2, <1>3
<1>5. \A i \in 1 .. m + 1 : Append(u, s[m + 1])[i] = s[i]  BY <1>2, <1>3
<1>6. s = Append(u, s[m + 1])  BY <1>4, <1>5
<1> QED  BY <1>2, <1>3, <1>6

LEMMA JoinAppend ==
  ASSUME NEW P, NEW a \in Seq(P), NEW b \in Seq(P), NEW y \in P
  PROVE  a \o Append(b, y) = Append(a \o b, y)
OBVIOUS

LEMMA Associates ==
  ASSUME NEW P, NEW a \in Seq(P), NEW b \in Seq(P), NEW c \in Seq(P)
  PROVE  (a \o b) \o c = a \o (b \o c)
<1> DEFINE l == (a \o b) \o c
           r == a \o (b \o c)
           n == Len(a) + Len(b) + Len(c)
<1>1. /\ l \in Seq(P) /\ Len(l) = n /\ r \in Seq(P) /\ Len(r) = n /\ n \in Nat
      /\ a \o b \in Seq(P) /\ b \o c \in Seq(P)
  OBVIOUS
<1>2. ASSUME NEW i \in 1 .. n PROVE l[i] = r[i]
  <2>1. CASE i <= Len(a)  BY <2>1
  <2>2. CASE i > Len(a) /\ i <= Len(a) + Len(b)  BY <2>2
  <2>3. CASE i > Len(a) + Len(b)  BY <2>3
  <2> QED  BY <2>1, <2>2, <2>3
<1>3. l = [i \in 1 .. n |-> l[i]] /\ r = [i \in 1 .. n |-> r[i]]
  <2> HIDE DEF l, r
  <2> QED  BY <1>1
<1> HIDE DEF l, r
<1>4. l = r  BY <1>2, <1>3
<1> QED  BY <1>4 DEF l, r

LEMMA FlatType ==
  ASSUME NEW P, NEW ss \in Seq(Seq(P))
  PROVE  Text!FlattenSeq(ss) \in Seq(P)
<1> DEFINE S == {m \in Nat : \A tt \in Seq(Seq(P)) : Len(tt) = m => Text!FlattenSeq(tt) \in Seq(P)}
<1>1. 0 \in S
  <2>1. \A tt \in Seq(Seq(P)) : Len(tt) = 0 => tt = <<>>  OBVIOUS
  <2> QED  BY <2>1, FlatNil
<1>2. ASSUME NEW m \in S PROVE m + 1 \in S
  <2> SUFFICES ASSUME NEW tt \in Seq(Seq(P)), Len(tt) = m + 1
               PROVE  Text!FlattenSeq(tt) \in Seq(P)
    OBVIOUS
  <2>m. m \in Nat  OBVIOUS
  <2>1. PICK u \in Seq(Seq(P)) : \E x \in Seq(P) : tt = Append(u, x) /\ Len(u) = m
    <3> HIDE DEF S
    <3> QED  BY <2>m, Popped
  <2>p. PICK x \in Seq(P) : tt = Append(u, x) /\ Len(u) = m  BY <2>1
  <2>2. Text!FlattenSeq(u) \in Seq(P)  BY <2>p
  <2>3. Text!FlattenSeq(Append(u, x)) = Text!FlattenSeq(u) \o x  BY FlatNext, Zenon
  <2>4. Text!FlattenSeq(u) \o x \in Seq(P)  BY <2>2
  <2> QED  BY <2>p, <2>3, <2>4
<1> HIDE DEF S
<1>3. S = Nat  BY <1>1, <1>2, Induct DEF S
<1> QED  BY <1>3 DEF S

LEMMA FlatJoin ==
  ASSUME NEW P, NEW ss \in Seq(Seq(P)), NEW rest \in Seq(Seq(P))
  PROVE  Text!FlattenSeq(ss \o rest) = Text!FlattenSeq(ss) \o Text!FlattenSeq(rest)
<1> DEFINE S == {m \in Nat : \A tt \in Seq(Seq(P)) : Len(tt) = m =>
                   Text!FlattenSeq(ss \o tt) = Text!FlattenSeq(ss) \o Text!FlattenSeq(tt)}
<1>a. Text!FlattenSeq(ss) \in Seq(P)  BY FlatType
<1>b. \A p, q, r \in Seq(P) : (p \o q) \o r = p \o (q \o r)  BY Associates
<1>1. 0 \in S
  <2>1. \A tt \in Seq(Seq(P)) : Len(tt) = 0 => tt = <<>>  OBVIOUS
  <2>2. ss \o <<>> = ss /\ Text!FlattenSeq(ss) \o <<>> = Text!FlattenSeq(ss)  BY <1>a
  <2> QED  BY <2>1, <2>2, FlatNil
<1>2. ASSUME NEW m \in S PROVE m + 1 \in S
  <2> SUFFICES ASSUME NEW tt \in Seq(Seq(P)), Len(tt) = m + 1
               PROVE  Text!FlattenSeq(ss \o tt) = Text!FlattenSeq(ss) \o Text!FlattenSeq(tt)
    OBVIOUS
  <2>m. m \in Nat  OBVIOUS
  <2>1. PICK u \in Seq(Seq(P)) : \E x \in Seq(P) : tt = Append(u, x) /\ Len(u) = m
    <3> HIDE DEF S
    <3> QED  BY <2>m, Popped
  <2>p. PICK x \in Seq(P) : tt = Append(u, x) /\ Len(u) = m  BY <2>1
  <2>2. Text!FlattenSeq(ss \o u) = Text!FlattenSeq(ss) \o Text!FlattenSeq(u)  BY <2>p
  <2>3. ss \o tt = Append(ss \o u, x) /\ ss \o u \in Seq(Seq(P))  BY <2>p
  <2>4. Text!FlattenSeq(u) \in Seq(P)  BY FlatType
  <2> HIDE DEF S
  <2>5. Text!FlattenSeq(ss \o tt) = (Text!FlattenSeq(ss) \o Text!FlattenSeq(u)) \o x
    BY <2>2, <2>3, FlatNext
  <2>6. Text!FlattenSeq(tt) = Text!FlattenSeq(u) \o x  BY <2>p, FlatNext
  <2> DEFINE a == Text!FlattenSeq(ss)
             b == Text!FlattenSeq(u)
  <2>8. (a \o b) \o x = a \o (b \o x)
    <3>1. a \in Seq(P) /\ b \in Seq(P)  BY <1>a, <2>4
    <3> HIDE DEF a, b
    <3> QED  BY <3>1, <1>b
  <2> QED  BY <2>5, <2>6, <2>8
<1> HIDE DEF S
<1>3. S = Nat  BY <1>1, <1>2, Induct DEF S
<1> QED  BY <1>3 DEF S

LEMMA RunJoin ==
  ASSUME NEW loop, NEW base, NEW P, NEW ps \in Seq(P), NEW rest \in Seq(P)
  PROVE  Run(loop, base, ps \o rest) = Run(loop, Run(loop, base, ps), rest)
<1> DEFINE S == {m \in Nat : \A qs \in Seq(P) : Len(qs) = m =>
                   Run(loop, base, ps \o qs) = Run(loop, Run(loop, base, ps), qs)}
<1>1. 0 \in S
  <2>1. \A qs \in Seq(P) : Len(qs) = 0 => qs = <<>>  OBVIOUS
  <2>2. ps \o <<>> = ps  OBVIOUS
  <2> QED  BY <2>1, <2>2, RunNil
<1>2. ASSUME NEW m \in S PROVE m + 1 \in S
  <2> SUFFICES ASSUME NEW qs \in Seq(P), Len(qs) = m + 1
               PROVE  Run(loop, base, ps \o qs) = Run(loop, Run(loop, base, ps), qs)
    OBVIOUS
  <2>m. m \in Nat  OBVIOUS
  <2>1. PICK u \in Seq(P) : \E x \in P : qs = Append(u, x) /\ Len(u) = m
    <3> HIDE DEF S
    <3> QED  BY <2>m, Popped
  <2>p. PICK x \in P : qs = Append(u, x) /\ Len(u) = m  BY <2>1
  <2>2. Run(loop, base, ps \o u) = Run(loop, Run(loop, base, ps), u)  BY <2>p
  <2>3. ps \o qs = Append(ps \o u, x) /\ ps \o u \in Seq(P)  BY <2>p
  <2> HIDE DEF S
  <2>4. Run(loop, base, ps \o qs) = Turn(loop, Run(loop, base, ps \o u), x)
    <3> DEFINE v == ps \o u
    <3>1. Run(loop, base, Append(v, x)) = Turn(loop, Run(loop, base, v), x)
      <4>1. v \in Seq(P)  BY <2>3
      <4> HIDE DEF v
      <4> QED  BY <4>1, RunNext
    <3> QED  BY <2>3, <3>1
  <2>5. Run(loop, Run(loop, base, ps), qs) = Turn(loop, Run(loop, Run(loop, base, ps), u), x)
    BY <2>p, RunNext
  <2> QED  BY <2>2, <2>4, <2>5
<1> HIDE DEF S
<1>3. S = Nat  BY <1>1, <1>2, Induct DEF S
<1> QED  BY <1>3 DEF S

-----------------------------------------------------------------------------
\* A piece of a word, and a line of pieces; a wide line is one word alone.
Pieces == [word : Words, len : Nat]
Lines == [pieces : Seq(Pieces), len : Nat]

Spell(u, lines) == Run(SPELL, Text!Whole(u), Ink(lines))

LEMMA Measures ==
  /\ Width \in Nat /\ MaxWords \in Nat /\ Label \in Nat /\ 1 <= Label /\ Label < Width
  /\ \A w \in Words : w.len \in Nat /\ w.len >= 1 /\ (w.label => w.len = Label /\ w.ita2)
<1>1. /\ Width \in Nat /\ MaxWords \in Nat /\ Label \in 1 .. Width - 1
      /\ Words \subseteq [len : Nat \ {0}, label : BOOLEAN, ita2 : BOOLEAN]
      /\ \A w \in Words : w.label => w.len = Label /\ w.ita2
  BY TextAssumption DEF Text!WidthAssumption
<1>2. \A w \in Words : w.len \in Nat \ {0}  BY <1>1
<1> QED  BY <1>1, <1>2

LEMMA SameSeq ==
  ASSUME NEW P, NEW a \in Seq(P), NEW b \in Seq(P), Len(a) = Len(b),
         \A i \in 1 .. Len(a) : a[i] = b[i]
  PROVE  a = b
OBVIOUS

LEMMA JoinIs ==
  ASSUME NEW P, NEW a \in Seq(P), NEW b \in Seq(P)
  PROVE  /\ a \o b \in Seq(P) /\ Len(a) \in Nat /\ Len(b) \in Nat
         /\ Len(a \o b) = Len(a) + Len(b)
         /\ \A l \in 1 .. Len(a) : (a \o b)[l] = a[l]
         /\ \A l \in 1 .. Len(b) : (a \o b)[Len(a) + l] = b[l]
OBVIOUS

In(lines) == [l \in DOMAIN lines |-> lines[l].pieces]

LEMMA InFacts ==
  ASSUME NEW lines \in Seq(Lines)
  PROVE  /\ In(lines) \in Seq(Seq(Pieces)) /\ Len(In(lines)) = Len(lines)
         /\ \A l \in 1 .. Len(lines) : In(lines)[l] = lines[l].pieces
<1>1. \A x \in Lines : x.pieces \in Seq(Pieces)  BY DEF Lines
<1>2. \A l \in 1 .. Len(lines) : lines[l] \in Lines  OBVIOUS
<1>3. \A l \in 1 .. Len(lines) : lines[l].pieces \in Seq(Pieces)  BY <1>1, <1>2
<1>4. In(lines) = [l \in 1 .. Len(lines) |-> lines[l].pieces]  BY DEF In
<1>5. Len(lines) \in Nat  OBVIOUS
<1> QED  BY <1>3, <1>4, <1>5

LEMMA InkFacts ==
  /\ Ink(<<>>) = <<>>
  /\ \A lines \in Seq(Lines) :
       /\ Ink(lines) \in Seq(Pieces)
       /\ \A x \in Lines : Ink(Append(lines, x)) = Ink(lines) \o x.pieces
       /\ \A more \in Seq(Lines) : Ink(lines \o more) = Ink(lines) \o Ink(more)
<1>1. \A lines : Ink(lines) = Text!FlattenSeq(In(lines))  BY DEF Ink, In
<1>2. In(<<>>) = <<>>  BY DEF In
<1>3. ASSUME NEW lines \in Seq(Lines), NEW x \in Lines
      PROVE  In(Append(lines, x)) = Append(In(lines), x.pieces) /\ x.pieces \in Seq(Pieces)
  <2>1. x.pieces \in Seq(Pieces)  BY DEF Lines
  <2> DEFINE l2 == Append(lines, x)
             a == In(l2)
             b == Append(In(lines), x.pieces)
  <2>2. /\ l2 \in Seq(Lines) /\ Len(l2) = Len(lines) + 1 /\ l2[Len(lines) + 1] = x
        /\ \A l \in 1 .. Len(lines) : l2[l] = lines[l]
    OBVIOUS
  <2> HIDE DEF l2
  <2>3. /\ a \in Seq(Seq(Pieces)) /\ Len(a) = Len(lines) + 1
        /\ \A l \in 1 .. Len(lines) + 1 : a[l] = l2[l].pieces
    BY <2>2, InFacts
  <2>4. /\ In(lines) \in Seq(Seq(Pieces)) /\ Len(In(lines)) = Len(lines)
        /\ \A l \in 1 .. Len(lines) : In(lines)[l] = lines[l].pieces
    BY InFacts
  <2>5. /\ b \in Seq(Seq(Pieces)) /\ Len(b) = Len(lines) + 1
        /\ b[Len(lines) + 1] = x.pieces
        /\ \A l \in 1 .. Len(lines) : b[l] = In(lines)[l]
    BY <2>1, <2>4
  <2> HIDE DEF a, b
  <2>6. ASSUME NEW l \in 1 .. Len(lines) + 1 PROVE a[l] = b[l]
    <3>1. l \in 1 .. Len(lines) \/ l = Len(lines) + 1  OBVIOUS
    <3>2. CASE l \in 1 .. Len(lines)
      <4>1. a[l] = l2[l].pieces /\ l2[l] = lines[l] /\ In(lines)[l] = lines[l].pieces
        BY <2>2, <2>3, <2>4, <3>2
      <4> QED  BY <2>5, <3>2, <4>1
    <3>3. CASE l = Len(lines) + 1  BY <2>2, <2>3, <2>5, <3>3
    <3> QED  BY <3>1, <3>2, <3>3
  <2>7. a = b  BY <2>3, <2>5, <2>6, SameSeq
  <2> QED  BY <2>1, <2>7 DEF a, b, l2
<1>4. ASSUME NEW lines \in Seq(Lines), NEW more \in Seq(Lines)
      PROVE  In(lines \o more) = In(lines) \o In(more)
  <2> DEFINE l2 == lines \o more
             m == Len(lines)
             n == Len(more)
             a == In(l2)
             b == In(lines) \o In(more)
  <2>2. /\ l2 \in Seq(Lines) /\ Len(l2) = m + n /\ m \in Nat /\ n \in Nat
        /\ \A l \in 1 .. m : l2[l] = lines[l]
        /\ \A l \in 1 .. n : l2[m + l] = more[l]
    BY JoinIs
  <2> HIDE DEF l2
  <2>3. /\ a \in Seq(Seq(Pieces)) /\ Len(a) = m + n
        /\ \A l \in 1 .. m + n : a[l] = l2[l].pieces
    BY <2>2, InFacts
  <2> DEFINE c == In(lines)
             d == In(more)
  <2>4. /\ c \in Seq(Seq(Pieces)) /\ Len(c) = m
        /\ \A l \in 1 .. m : c[l] = lines[l].pieces
        /\ d \in Seq(Seq(Pieces)) /\ Len(d) = n
        /\ \A l \in 1 .. n : d[l] = more[l].pieces
    BY InFacts
  <2> HIDE DEF m, n, c, d
  <2>5. /\ b \in Seq(Seq(Pieces)) /\ Len(b) = m + n
        /\ \A l \in 1 .. m : b[l] = c[l]
        /\ \A l \in 1 .. n : b[m + l] = d[l]
    <3>1. b = c \o d  BY DEF c, d
    <3> HIDE DEF b
    <3>2. c \in Seq(Seq(Pieces)) /\ d \in Seq(Seq(Pieces))  BY <2>4
    <3>3. /\ b \in Seq(Seq(Pieces)) /\ Len(b) = Len(c) + Len(d)
          /\ \A l \in 1 .. Len(c) : b[l] = c[l]
          /\ \A l \in 1 .. Len(d) : b[Len(c) + l] = d[l]
      BY <3>1, <3>2
    <3> QED  BY <2>4, <3>3
  <2> HIDE DEF a, b
  <2>6. ASSUME NEW l \in 1 .. m + n PROVE a[l] = b[l]
    <3>1. CASE l \in 1 .. m
      <4>1. a[l] = l2[l].pieces  BY <2>3
      <4>2. l2[l] = lines[l]  BY <2>2, <3>1
      <4>3. c[l] = lines[l].pieces /\ b[l] = c[l]  BY <2>4, <2>5, <3>1
      <4> QED  BY <4>1, <4>2, <4>3
    <3>2. CASE l \notin 1 .. m
      <4>1. l - m \in 1 .. n /\ m + (l - m) = l  BY <2>2, <3>2
      <4>2. l2[m + (l - m)] = more[l - m] /\ b[m + (l - m)] = d[l - m]  BY <2>2, <2>5, <4>1
      <4> QED  BY <2>3, <2>4, <4>1, <4>2
    <3> QED  BY <3>1, <3>2
  <2>7. a = b  BY <2>3, <2>5, <2>6, SameSeq
  <2> QED  BY <2>7 DEF a, b, l2
<1>6. ASSUME NEW lines \in Seq(Lines)
      PROVE  /\ Ink(lines) \in Seq(Pieces)
             /\ \A x \in Lines : Ink(Append(lines, x)) = Ink(lines) \o x.pieces
             /\ \A more \in Seq(Lines) : Ink(lines \o more) = Ink(lines) \o Ink(more)
  <2>1. In(lines) \in Seq(Seq(Pieces))  BY InFacts
  <2>2. Ink(lines) \in Seq(Pieces)  BY <1>1, <2>1, FlatType
  <2>3. ASSUME NEW x \in Lines PROVE Ink(Append(lines, x)) = Ink(lines) \o x.pieces
    <3>1. In(Append(lines, x)) = Append(In(lines), x.pieces) /\ x.pieces \in Seq(Pieces)
      BY <1>3
    <3>2. Text!FlattenSeq(Append(In(lines), x.pieces)) = Text!FlattenSeq(In(lines)) \o x.pieces
      BY <2>1, <3>1, FlatNext
    <3> QED  BY <1>1, <3>1, <3>2
  <2>4. ASSUME NEW more \in Seq(Lines) PROVE Ink(lines \o more) = Ink(lines) \o Ink(more)
    <3>1. In(lines \o more) = In(lines) \o In(more) /\ In(more) \in Seq(Seq(Pieces))
      BY <1>4, InFacts
    <3>2. Text!FlattenSeq(In(lines) \o In(more)) = Text!FlattenSeq(In(lines)) \o Text!FlattenSeq(In(more))
      BY <2>1, <3>1, FlatJoin
    <3> QED  BY <1>1, <3>1, <3>2
  <2> QED  BY <2>2, <2>3, <2>4
<1>7. Ink(<<>>) = <<>>  BY <1>1, <1>2, FlatNil
<1> QED  BY <1>6, <1>7

-----------------------------------------------------------------------------
(***************************************************************************)
(* What is true of lines in the making: they spell the words so far, of    *)
(* the last of which `open` letters are still to come; a line begins with  *)
(* a whole word only where a word ended; and none could have taken what    *)
(* the next one begins with.                                               *)
(***************************************************************************)
Among(words, w) == \E i \in 1 .. Len(words) : words[i] = w
StartsWhole(line) == line.pieces # <<>> /\ line.pieces[1].len = line.pieces[1].word.len
FirstLen(line) == IF line.pieces = <<>> THEN 0 ELSE line.pieces[1].len
Wide(line) == Len(line.pieces) = 1 /\ StartsWhole(line) /\ line.len = line.pieces[1].len
Sound(line, words) ==
  /\ \A j \in 1 .. Len(line.pieces) : /\ line.pieces[j].len \in 1 .. line.pieces[j].word.len
                                      /\ Among(words, line.pieces[j].word)
  /\ line.len <= Width \/ Wide(line)
  /\ line.len = 0 => line.pieces = <<>>

Upto(lines, k) == [i \in 1 .. k |-> lines[i]]
EndsWord(lines) == \A u \in Seq(Words) : Spell(u, lines).open = 0

Lined(lines, words) ==
  /\ \A l \in 1 .. Len(lines) :
       /\ Sound(lines[l], words)
       /\ lines[l].len = 0 => l = Len(lines)
       /\ StartsWhole(lines[l]) => EndsWord(Upto(lines, l - 1))
  /\ \A l \in 2 .. Len(lines) : lines[l - 1].len + 1 + FirstLen(lines[l]) > Width

Spells(lines, words, open) ==
  \A u \in Seq(Words) : Spell(u, lines) = [words |-> u \o words, open |-> open]

Good(lines, words, open) ==
  /\ lines \in Seq(Lines) /\ words \in Seq(Words) /\ open \in Nat
  /\ Lined(lines, words) /\ Spells(lines, words, open)

LEMMA AppendLine ==
  ASSUME NEW lines \in Seq(Lines), NEW x \in Lines
  PROVE  /\ Append(lines, x) \in Seq(Lines) /\ Len(lines) \in Nat
         /\ Len(Append(lines, x)) = Len(lines) + 1 /\ Append(lines, x)[Len(lines) + 1] = x
         /\ \A l \in 1 .. Len(lines) : Append(lines, x)[l] = lines[l] /\ lines[l] \in Lines
         /\ Upto(Append(lines, x), Len(lines)) = lines
         /\ \A k \in 0 .. Len(lines) : Upto(Append(lines, x), k) = Upto(lines, k)
<1>1. /\ Append(lines, x) \in Seq(Lines) /\ Len(lines) \in Nat
      /\ Len(Append(lines, x)) = Len(lines) + 1 /\ Append(lines, x)[Len(lines) + 1] = x
      /\ \A l \in 1 .. Len(lines) : Append(lines, x)[l] = lines[l] /\ lines[l] \in Lines
  OBVIOUS
<1> DEFINE m == Append(lines, x)
<1> HIDE DEF m
<1>2. lines = [i \in 1 .. Len(lines) |-> lines[i]]  OBVIOUS
<1>3. Upto(m, Len(lines)) = lines  BY <1>1, <1>2 DEF Upto, m
<1>4. ASSUME NEW k \in 0 .. Len(lines) PROVE Upto(m, k) = Upto(lines, k)
  <2>1. \A i \in 1 .. k : i \in 1 .. Len(lines)  BY <1>1
  <2>2. \A i \in 1 .. k : m[i] = lines[i]  BY <1>1, <2>1 DEF m
  <2> QED  BY <2>2 DEF Upto
<1> QED  BY <1>1, <1>3, <1>4 DEF m

LEMMA AppendWord ==
  ASSUME NEW words \in Seq(Words), NEW w \in Words
  PROVE  /\ Append(words, w) \in Seq(Words) /\ Among(Append(words, w), w)
         /\ \A v : Among(words, v) => Among(Append(words, w), v)
         /\ \A u \in Seq(Words) : u \o Append(words, w) = Append(u \o words, w)
<1>1. /\ Append(words, w) \in Seq(Words) /\ Len(words) \in Nat
      /\ Len(Append(words, w)) = Len(words) + 1 /\ Append(words, w)[Len(words) + 1] = w
      /\ \A l \in 1 .. Len(words) : Append(words, w)[l] = words[l]
  OBVIOUS
<1>2. Among(Append(words, w), w)
  <2>1. Len(words) + 1 \in 1 .. Len(Append(words, w))  BY <1>1
  <2> QED  BY <1>1, <2>1 DEF Among
<1>3. ASSUME NEW v, Among(words, v) PROVE Among(Append(words, w), v)
  <2>1. PICK i \in 1 .. Len(words) : words[i] = v  BY <1>3 DEF Among
  <2>2. i \in 1 .. Len(Append(words, w))  BY <1>1
  <2> QED  BY <1>1, <2>1, <2>2 DEF Among
<1>4. \A u \in Seq(Words) : u \o Append(words, w) = Append(u \o words, w)  OBVIOUS
<1> QED  BY <1>1, <1>2, <1>3, <1>4

LEMMA SpellPiece ==
  ASSUME NEW words \in Seq(Words), NEW open \in Nat, NEW u \in Seq(Words),
         NEW ps \in Seq(Pieces), NEW p \in Pieces,
         Run(SPELL, Text!Whole(u), ps) = [words |-> u \o words, open |-> open]
  PROVE  Run(SPELL, Text!Whole(u), Append(ps, p)) =
           IF open = 0 THEN [words |-> u \o Append(words, p.word), open |-> p.word.len - p.len]
                       ELSE [words |-> u \o words, open |-> open - p.len]
<1>1. Run(SPELL, Text!Whole(u), Append(ps, p)) = Put([words |-> u \o words, open |-> open], p)
  <2> DEFINE base == Text!Whole(u)
  <2> HIDE DEF base
  <2>1. Run(SPELL, base, Append(ps, p)) = Turn(SPELL, Run(SPELL, base, ps), p)  BY RunNext
  <2> QED  BY <2>1 DEF Turn, base
<1>2. p.word \in Words  BY DEF Pieces
<1>3. u \o Append(words, p.word) = Append(u \o words, p.word)  BY <1>2, AppendWord
<1> QED  BY <1>1, <1>3 DEF Put

Firm(lines, words) == Lined(lines, words) /\ \A l \in 1 .. Len(lines) : lines[l].len # 0

LEMMA FirmLines ==
  ASSUME NEW lines \in Seq(Lines), NEW x \in Lines, NEW words, Lined(Append(lines, x), words)
  PROVE  /\ Firm(lines, words) /\ Sound(x, words)
         /\ StartsWhole(x) => EndsWord(lines)
         /\ lines # <<>> => lines[Len(lines)].len + 1 + FirstLen(x) > Width
<1> DEFINE all == Append(lines, x)
           n == Len(lines)
<1>1. /\ n \in Nat /\ Len(all) = n + 1 /\ all[n + 1] = x
      /\ \A l \in 1 .. n : all[l] = lines[l]
      /\ Upto(all, n) = lines
      /\ \A k \in 0 .. n : Upto(all, k) = Upto(lines, k)
  BY AppendLine
<1>2. lines # <<>> => n # 0  OBVIOUS
<1>3. Lined(all, words)  OBVIOUS
<1> HIDE DEF all, n
<1>4. ASSUME NEW l \in 1 .. n
      PROVE  /\ Sound(lines[l], words) /\ lines[l].len # 0
             /\ StartsWhole(lines[l]) => EndsWord(Upto(lines, l - 1))
  <2>1. l \in 1 .. Len(all) /\ l # Len(all) /\ l - 1 \in 0 .. n  BY <1>1
  <2> QED  BY <1>1, <1>3, <2>1 DEF Lined
<1>5. ASSUME NEW l \in 2 .. n PROVE lines[l - 1].len + 1 + FirstLen(lines[l]) > Width
  <2>1. l \in 2 .. Len(all) /\ l \in 1 .. n /\ l - 1 \in 1 .. n  BY <1>1
  <2>2. all[l - 1] = lines[l - 1] /\ all[l] = lines[l]  BY <1>1, <2>1
  <2>3. all[l - 1].len + 1 + FirstLen(all[l]) > Width  BY <1>3, <2>1 DEF Lined
  <2> QED  BY <2>2, <2>3
<1>6. Firm(lines, words)  BY <1>4, <1>5 DEF Firm, Lined, n
<1>7. Sound(x, words) /\ (StartsWhole(x) => EndsWord(lines))
  <2>1. n + 1 \in 1 .. Len(all) /\ (n + 1) - 1 = n  BY <1>1
  <2> QED  BY <1>1, <1>3, <2>1 DEF Lined
<1>8. ASSUME lines # <<>> PROVE lines[n].len + 1 + FirstLen(x) > Width
  <2>1. n + 1 \in 2 .. Len(all) /\ (n + 1) - 1 = n /\ n \in 1 .. n  BY <1>1, <1>2, <1>8
  <2>2. all[(n + 1) - 1].len + 1 + FirstLen(all[n + 1]) > Width  BY <1>3, <2>1 DEF Lined
  <2> QED  BY <1>1, <2>1, <2>2
<1> QED  BY <1>6, <1>7, <1>8 DEF n

LEMMA LinedAppend ==
  ASSUME NEW lines \in Seq(Lines), NEW y \in Lines, NEW words, NEW more,
         Firm(lines, words), \A v : Among(words, v) => Among(more, v), Sound(y, more),
         StartsWhole(y) => EndsWord(lines),
         lines # <<>> => lines[Len(lines)].len + 1 + FirstLen(y) > Width
  PROVE  Lined(Append(lines, y), more)
<1> DEFINE all == Append(lines, y)
           n == Len(lines)
<1>1. /\ n \in Nat /\ Len(all) = n + 1 /\ all[n + 1] = y
      /\ \A l \in 1 .. n : all[l] = lines[l]
      /\ Upto(all, n) = lines
      /\ \A k \in 0 .. n : Upto(all, k) = Upto(lines, k)
  BY AppendLine
<1>2. n # 0 => lines # <<>>  OBVIOUS
<1>3. n # 0 => lines[n].len + 1 + FirstLen(y) > Width  BY <1>2
<1> HIDE DEF all
<1>4. ASSUME NEW l \in 1 .. n + 1
      PROVE  /\ Sound(all[l], more) /\ (all[l].len = 0 => l = n + 1)
             /\ StartsWhole(all[l]) => EndsWord(Upto(all, l - 1))
  <2>1. CASE l \in 1 .. n
    <3>1. Sound(lines[l], words) /\ lines[l].len # 0
          /\ (StartsWhole(lines[l]) => EndsWord(Upto(lines, l - 1)))
      BY <2>1 DEF Firm, Lined
    <3>2. Sound(lines[l], more)  BY <3>1 DEF Sound
    <3>3. l - 1 \in 0 .. n  BY <1>1, <2>1
    <3> HIDE DEF n
    <3> QED  BY <1>1, <2>1, <3>1, <3>2, <3>3
  <2>2. CASE l = n + 1
    <3> HIDE DEF n
    <3>1. l - 1 = n  BY <1>1, <2>2
    <3> QED  BY <1>1, <2>2, <3>1
  <2> HIDE DEF n
  <2> QED  BY <1>1, <2>1, <2>2
<1>5. ASSUME NEW l \in 2 .. n + 1 PROVE all[l - 1].len + 1 + FirstLen(all[l]) > Width
  <2>1. CASE l \in 2 .. n
    <3>1. lines[l - 1].len + 1 + FirstLen(lines[l]) > Width  BY <2>1 DEF Firm, Lined
    <3>2. l \in 1 .. n /\ l - 1 \in 1 .. n  BY <1>1, <2>1
    <3> HIDE DEF n
    <3>3. all[l - 1] = lines[l - 1] /\ all[l] = lines[l]  BY <1>1, <3>2
    <3> QED  BY <3>1, <3>3
  <2>2. CASE l = n + 1
    <3> HIDE DEF n
    <3>1. l - 1 = n /\ n \in 1 .. n /\ n # 0  BY <1>1, <2>2
    <3> QED  BY <1>1, <1>3, <2>2, <3>1
  <2> HIDE DEF n
  <2> QED  BY <1>1, <2>1, <2>2
<1> HIDE DEF n
<1> QED  BY <1>1, <1>4, <1>5 DEF Lined, all

LEMMA Blank ==
  ASSUME NEW lines \in Seq(Lines), NEW x \in Lines, x.pieces = <<>>
  PROVE  \A u : Spell(u, Append(lines, x)) = Spell(u, lines)
<1>1. Ink(Append(lines, x)) = Ink(lines) \o <<>> /\ Ink(lines) \in Seq(Pieces)  BY InkFacts
<1>2. Ink(lines) \o <<>> = Ink(lines)  BY <1>1
<1> QED  BY <1>1, <1>2 DEF Spell

LEMMA AppendPiece ==
  ASSUME NEW ps \in Seq(Pieces), NEW p \in Pieces
  PROVE  /\ Append(ps, p) \in Seq(Pieces) /\ Len(ps) \in Nat
         /\ Len(Append(ps, p)) = Len(ps) + 1 /\ Append(ps, p)[Len(ps) + 1] = p
         /\ \A j \in 1 .. Len(ps) : Append(ps, p)[j] = ps[j]
         /\ Append(ps, p) # <<>>
         /\ ps # <<>> => Append(ps, p)[1] = ps[1]
         /\ ps = <<>> => Append(ps, p)[1] = p
<1>1. /\ Append(ps, p) \in Seq(Pieces) /\ Len(ps) \in Nat
      /\ Len(Append(ps, p)) = Len(ps) + 1 /\ Append(ps, p)[Len(ps) + 1] = p
      /\ \A j \in 1 .. Len(ps) : Append(ps, p)[j] = ps[j]
  OBVIOUS
<1>2. Append(ps, p) # <<>>  BY <1>1
<1>3. ps # <<>> => 1 \in 1 .. Len(ps)  BY <1>1
<1>4. ps = <<>> => Append(ps, p)[1] = p  OBVIOUS
<1> QED  BY <1>1, <1>2, <1>3, <1>4

\* A word, or the part of it that fits, is put at the end of the last line.
LEMMA Extend ==
  ASSUME NEW lines \in Seq(Lines), NEW x \in Lines, NEW words, Good(Append(lines, x), words, 0),
         NEW p \in Pieces, p.len \in 1 .. p.word.len,
         NEW y \in Lines, y.pieces = Append(x.pieces, p), y.len \in 1 .. Width
  PROVE  Good(Append(lines, y), Append(words, p.word), p.word.len - p.len)
<1> DEFINE all == Append(lines, x)
           more == Append(words, p.word)
<1>1. /\ all \in Seq(Lines) /\ words \in Seq(Words) /\ Lined(all, words) /\ Spells(all, words, 0)
  BY DEF Good
<1>2. p.word \in Words /\ p.word.len \in Nat  BY Measures DEF Pieces
<1>3. /\ more \in Seq(Words) /\ Among(more, p.word)
      /\ \A v : Among(words, v) => Among(more, v)
      /\ \A u \in Seq(Words) : u \o more = Append(u \o words, p.word)
  BY <1>1, <1>2, AppendWord
<1>4. /\ Firm(lines, words) /\ Sound(x, words)
      /\ StartsWhole(x) => EndsWord(lines)
      /\ lines # <<>> => lines[Len(lines)].len + 1 + FirstLen(x) > Width
  BY <1>1, FirmLines
<1>5. /\ x.pieces \in Seq(Pieces) /\ y.pieces \in Seq(Pieces) /\ Len(x.pieces) \in Nat
      /\ Len(y.pieces) = Len(x.pieces) + 1 /\ y.pieces[Len(x.pieces) + 1] = p
      /\ \A j \in 1 .. Len(x.pieces) : y.pieces[j] = x.pieces[j]
      /\ y.pieces # <<>>
      /\ x.pieces # <<>> => y.pieces[1] = x.pieces[1]
      /\ x.pieces = <<>> => y.pieces[1] = p
  <2>1. x.pieces \in Seq(Pieces)  BY DEF Lines
  <2> QED  BY <2>1, AppendPiece
<1>6. Sound(y, more)
  <2>1. ASSUME NEW j \in 1 .. Len(y.pieces)
        PROVE  y.pieces[j].len \in 1 .. y.pieces[j].word.len /\ Among(more, y.pieces[j].word)
    <3>1. CASE j \in 1 .. Len(x.pieces)
      <4>1. x.pieces[j].len \in 1 .. x.pieces[j].word.len /\ Among(words, x.pieces[j].word)
        BY <1>4, <3>1 DEF Sound
      <4> HIDE DEF more
      <4> QED  BY <1>3, <1>5, <3>1, <4>1
    <3>2. CASE j = Len(x.pieces) + 1
      <4> HIDE DEF more
      <4> QED  BY <1>3, <1>5, <3>2
    <3> QED  BY <1>5, <3>1, <3>2
  <2> HIDE DEF more
  <2> QED  BY <2>1, Measures DEF Sound
<1>7. ASSUME StartsWhole(y) PROVE EndsWord(lines)
  <2>1. CASE x.pieces = <<>>
    <3>1. \A u \in Seq(Words) : Spell(u, lines) = [words |-> u \o words, open |-> 0]
      BY <1>1, <2>1, Blank DEF Spells
    <3> QED  BY <3>1 DEF EndsWord
  <2>2. CASE x.pieces # <<>>
    <3>1. StartsWhole(x)  BY <1>5, <1>7, <2>2 DEF StartsWhole
    <3> QED  BY <1>4, <3>1
  <2> QED  BY <2>1, <2>2
<1>8. ASSUME lines # <<>> PROVE lines[Len(lines)].len + 1 + FirstLen(y) > Width
  <2>1. lines[Len(lines)].len \in Nat
    <3>1. lines[Len(lines)] \in Lines  BY <1>8
    <3> QED  BY <3>1 DEF Lines
  <2>2. CASE x.pieces = <<>>
    <3>1. FirstLen(x) = 0 /\ FirstLen(y) = p.len  BY <1>5, <2>2 DEF FirstLen
    <3> QED  BY <1>2, <1>4, <1>8, <2>1, <3>1, Measures
  <2>3. CASE x.pieces # <<>>
    <3>1. FirstLen(x) = FirstLen(y)  BY <1>5, <2>3 DEF FirstLen
    <3> QED  BY <1>4, <1>8, <3>1
  <2> QED  BY <2>2, <2>3
<1>9. Lined(Append(lines, y), more)
  <2> HIDE DEF more
  <2> QED  BY <1>3, <1>4, <1>6, <1>7, <1>8, LinedAppend
<1>10. Spells(Append(lines, y), more, p.word.len - p.len)
  <2>1. /\ Ink(all) = Ink(lines) \o x.pieces /\ Ink(lines) \in Seq(Pieces)
        /\ Ink(Append(lines, y)) = Ink(lines) \o y.pieces
        /\ Ink(all) \in Seq(Pieces)
    BY <1>1, InkFacts
  <2>2. Ink(Append(lines, y)) = Append(Ink(all), p)
    <3> DEFINE a == Ink(lines)
               b == x.pieces
    <3>1. a \in Seq(Pieces) /\ b \in Seq(Pieces)  BY <2>1 DEF Lines
    <3> HIDE DEF a, b
    <3>2. a \o Append(b, p) = Append(a \o b, p)  BY <3>1, JoinAppend
    <3> QED  BY <1>5, <2>1, <3>2 DEF a, b
  <2> SUFFICES ASSUME NEW u \in Seq(Words)
               PROVE  Spell(u, Append(lines, y)) =
                        [words |-> u \o more, open |-> p.word.len - p.len]
    BY DEF Spells
  <2>3. Run(SPELL, Text!Whole(u), Ink(all)) = [words |-> u \o words, open |-> 0]
    BY <1>1 DEF Spells, Spell
  <2> HIDE DEF all
  <2>4. Run(SPELL, Text!Whole(u), Append(Ink(all), p)) =
          [words |-> u \o Append(words, p.word), open |-> p.word.len - p.len]
    BY <1>1, <2>1, <2>3, SpellPiece
  <2> QED  BY <2>2, <2>4 DEF Spell
<1> QED
  <2>1. Append(lines, y) \in Seq(Lines)  BY AppendLine
  <2>2. p.word.len - p.len \in Nat  BY <1>2
  <2> HIDE DEF more
  <2>3. Good(Append(lines, y), more, p.word.len - p.len)
    BY <1>3, <1>9, <1>10, <2>1, <2>2 DEF Good
  <2> QED  BY <2>3 DEF more

\* A word, or the rest of a word, begins a line of its own.
LEMMA NewLine ==
  ASSUME NEW lines \in Seq(Lines), NEW words, NEW open, Good(lines, words, open),
         lines # <<>>, lines[Len(lines)].len # 0,
         NEW p \in Pieces, p.len \in 1 .. p.word.len,
         lines[Len(lines)].len + 1 + p.len > Width,
         p.len <= Width \/ p.len = p.word.len,
         open # 0 => p.len <= open /\ p.len < p.word.len /\ Among(words, p.word)
  PROVE  IF open = 0 THEN Good(Append(lines, Text!Alone(p)), Append(words, p.word), p.word.len - p.len)
                     ELSE Good(Append(lines, Text!Alone(p)), words, open - p.len)
<1> DEFINE y == Text!Alone(p)
           all == Append(lines, y)
           more == IF open = 0 THEN Append(words, p.word) ELSE words
           left == IF open = 0 THEN p.word.len - p.len ELSE open - p.len
<1>1. /\ words \in Seq(Words) /\ open \in Nat /\ Lined(lines, words) /\ Spells(lines, words, open)
  BY DEF Good
<1>2. p.word \in Words /\ p.word.len \in Nat /\ p.len \in Nat  BY Measures DEF Pieces
<1>3. y \in Lines /\ y.pieces = <<p>> /\ y.len = p.len  BY <1>2 DEF Lines, Text!Alone
<1>4. more \in Seq(Words) /\ Among(more, p.word) /\ \A v : Among(words, v) => Among(more, v)
  BY <1>1, <1>2, AppendWord
<1>5. left \in Nat  BY <1>1, <1>2
<1>6. Firm(lines, words)
  <2>1. \A l \in 1 .. Len(lines) : lines[l].len = 0 => l = Len(lines)  BY <1>1 DEF Lined
  <2> QED  BY <1>1, <2>1 DEF Firm
<1> HIDE DEF y
<1>7. FirstLen(y) = p.len /\ y.pieces # <<>> /\ Len(y.pieces) = 1 /\ y.pieces[1] = p
  BY <1>3 DEF FirstLen
<1>8. Sound(y, more)
  <2>1. \A j \in 1 .. Len(y.pieces) : j = 1  BY <1>7
  <2>2. y.len <= Width \/ Wide(y)  BY <1>3, <1>7 DEF Wide, StartsWhole
  <2> HIDE DEF more
  <2> QED  BY <1>2, <1>3, <1>4, <1>7, <2>1, <2>2 DEF Sound
<1>9. ASSUME StartsWhole(y) PROVE EndsWord(lines)
  <2>1. p.len = p.word.len  BY <1>7, <1>9 DEF StartsWhole
  <2>2. open = 0  BY <1>2, <2>1
  <2> QED  BY <1>1, <2>2 DEF Spells, EndsWord
<1>10. Lined(all, more)
  <2> HIDE DEF more
  <2> QED  BY <1>3, <1>4, <1>6, <1>7, <1>8, <1>9, LinedAppend
<1>11. Spells(all, more, left)
  <2>1. /\ Ink(lines) \in Seq(Pieces) /\ Ink(all) = Ink(lines) \o <<p>>
    BY <1>3, InkFacts
  <2>2. Ink(all) = Append(Ink(lines), p)  BY <2>1
  <2> SUFFICES ASSUME NEW u \in Seq(Words)
               PROVE  Spell(u, all) = [words |-> u \o more, open |-> left]
    BY DEF Spells
  <2>3. Run(SPELL, Text!Whole(u), Ink(lines)) = [words |-> u \o words, open |-> open]
    BY <1>1 DEF Spells, Spell
  <2>4. Run(SPELL, Text!Whole(u), Append(Ink(lines), p)) =
          IF open = 0 THEN [words |-> u \o Append(words, p.word), open |-> p.word.len - p.len]
                      ELSE [words |-> u \o words, open |-> open - p.len]
    BY <1>1, <2>1, <2>3, SpellPiece
  <2> HIDE DEF all
  <2> QED  BY <2>2, <2>4 DEF Spell
<1>12. Good(all, more, left)
  <2>1. all \in Seq(Lines)  BY <1>3, AppendLine
  <2> HIDE DEF all, more, left
  <2> QED  BY <1>4, <1>5, <1>10, <1>11, <2>1 DEF Good
<1> QED  BY <1>12 DEF y

LEMMA Continued ==
  ASSUME NEW lines \in Seq(Lines), NEW words, NEW open, Good(lines, words, open),
         lines # <<>>, lines[Len(lines)].len # 0,
         NEW p \in Pieces, p.len \in 1 .. p.word.len, p.len <= Width,
         lines[Len(lines)].len + 1 + p.len > Width,
         open # 0, p.len <= open, p.len < p.word.len, Among(words, p.word)
  PROVE  Good(Append(lines, Text!Alone(p)), words, open - p.len)
BY NewLine

\* Nothing is left of a word that filled a line: the next one is still empty.
LEMMA EmptyLine ==
  ASSUME NEW lines \in Seq(Lines), NEW words, Good(lines, words, 0),
         lines # <<>>, lines[Len(lines)].len = Width
  PROVE  Good(Append(lines, [pieces |-> <<>>, len |-> 0]), words, 0)
<1> DEFINE y == [pieces |-> <<>>, len |-> 0]
<1>1. /\ words \in Seq(Words) /\ Lined(lines, words) /\ Spells(lines, words, 0)
  BY DEF Good
<1>2. y \in Lines /\ y.pieces = <<>> /\ y.len = 0
  <2>1. <<>> \in Seq(Pieces)  OBVIOUS
  <2> QED  BY <2>1 DEF Lines
<1> HIDE DEF y
<1>3. Firm(lines, words)
  <2>1. \A l \in 1 .. Len(lines) : lines[l].len = 0 => l = Len(lines)  BY <1>1 DEF Lined
  <2> QED  BY <1>1, <2>1, Measures DEF Firm
<1>4. FirstLen(y) = 0 /\ ~ StartsWhole(y)  BY <1>2 DEF FirstLen, StartsWhole
<1>5. Sound(y, words)  BY <1>2, Measures DEF Sound
<1>6. lines[Len(lines)].len + 1 + FirstLen(y) > Width  BY <1>4, Measures
<1>7. Lined(Append(lines, y), words)  BY <1>2, <1>3, <1>4, <1>5, <1>6, LinedAppend
<1>8. Spells(Append(lines, y), words, 0)  BY <1>1, <1>2, Blank DEF Spells
<1>9. Append(lines, y) \in Seq(Lines)  BY <1>2, AppendLine
<1>10. Good(Append(lines, y), words, 0)  BY <1>1, <1>7, <1>8, <1>9 DEF Good
<1> QED  BY <1>10 DEF y

LEMMA Divided ==
  ASSUME NEW x \in Nat, x # 0, NEW w \in Nat \ {0}
  PROVE  /\ (x - 1) \div w \in Nat
         /\ x - ((x - 1) \div w) * w \in 1 .. w
<1> DEFINE q == (x - 1) \div w
<1>1. x - 1 \in Nat  OBVIOUS
<1>2. q \in Nat /\ q * w <= x - 1 /\ x - 1 < q * w + w /\ q * w \in Nat  BY <1>1
<1> HIDE DEF q
<1>3. x - q * w \in 1 .. w
  <2> DEFINE t == q * w
  <2>1. t \in Nat /\ t <= x - 1 /\ x - 1 < t + w  BY <1>2
  <2> HIDE DEF t
  <2>2. x - t \in 1 .. w  BY <2>1
  <2> QED  BY <2>2 DEF t
<1> QED  BY <1>2, <1>3 DEF q

LEMMA Times ==
  ASSUME NEW i \in Nat, NEW n \in Nat, NEW w \in Nat, i < n
  PROVE  (i + 1) * w = i * w + w /\ i * w \in Nat /\ i * w + w <= n * w /\ n * w \in Nat
<1>1. (i + 1) * w = i * w + w /\ i * w \in Nat /\ n * w \in Nat  OBVIOUS
<1>2. PICK d \in Nat : n = (i + 1) + d
  <2>1. n - (i + 1) \in Nat /\ n = (i + 1) + (n - (i + 1))  OBVIOUS
  <2> QED  BY <2>1
<1>3. n * w = (i + 1) * w + d * w /\ d * w \in Nat  BY <1>2
<1> QED  BY <1>1, <1>3

\* A word that is too long takes the rest of the line, then full lines, and
\* then the beginning of one.
LEMMA LongWord ==
  ASSUME NEW lines \in Seq(Lines), NEW x \in Lines, NEW words, Good(Append(lines, x), words, 0),
         NEW w \in Words, x.len < Width, Width - x.len <= w.len
  PROVE  LET room == Width - x.len
             p == Text!Piece(w, w.len)
             filled == Append(lines, Text!Cut(x, Text!Piece(w, room))) \o Text!Chopped(p, room)
             last == Text!Tail_(p, room)
         IN  /\ filled \in Seq(Lines) /\ last \in Lines
             /\ Good(Append(filled, last), Append(words, w), 0)
             /\ last.len <= Width /\ last.len < w.len
             /\ \A i \in 1 .. Len(last.pieces) : last.pieces[i].word = w
             /\ \A l \in Len(lines) + 1 .. Len(filled) : filled[l].len = Width
<1> DEFINE room == Width - x.len
           p == Text!Piece(w, w.len)
           first == Append(lines, Text!Cut(x, Text!Piece(w, room)))
           rest == w.len - room
           n == Text!Full(p, room)
           chop(k) == [i \in 1 .. k |-> Text!Alone(Text!Piece(w, Width))]
           more == Append(words, w)
           last == Text!Tail_(p, room)
<1>1. x.len \in Nat /\ x.pieces \in Seq(Pieces)  BY DEF Lines
<1>2. Width \in Nat /\ w.len \in Nat /\ w.len >= 1 /\ Width # 0  BY Measures
<1>3. /\ room \in 1 .. Width /\ room <= w.len /\ rest \in Nat /\ rest < w.len
      /\ x.len + room = Width
  <2> DEFINE a == x.len
             b == w.len
  <2>1. a \in Nat /\ b \in Nat /\ a < Width /\ Width - a <= b  BY <1>1, <1>2
  <2> HIDE DEF a, b
  <2>2. /\ Width - a \in 1 .. Width /\ Width - a <= b
        /\ b - (Width - a) \in Nat /\ b - (Width - a) < b /\ a + (Width - a) = Width
    BY <1>2, <2>1
  <2> QED  BY <2>2 DEF a, b
<1>4. /\ n \in Nat /\ n * Width \in Nat
      /\ rest = 0 => n = 0
      /\ rest # 0 => rest - n * Width \in 1 .. Width
      /\ rest = 0 => rest - n * Width = 0
  <2>1. n = IF w.len <= room THEN 0 ELSE (rest - 1) \div Width
    BY DEF Text!Full, Text!Piece
  <2>2. CASE rest = 0  BY <1>2, <1>3, <2>1, <2>2
  <2>3. CASE rest # 0
    <3>1. n = (rest - 1) \div Width
      <4>1. ~ (w.len <= room)  BY <1>2, <1>3, <2>3
      <4> QED  BY <2>1, <4>1
    <3> HIDE DEF n, rest
    <3>2. n \in Nat /\ rest - n * Width \in 1 .. Width  BY <1>2, <1>3, <2>3, <3>1, Divided
    <3> QED  BY <1>2, <2>3, <3>2
  <2> QED  BY <2>2, <2>3
<1>5. first \in Seq(Lines) /\ Len(first) = Len(lines) + 1 /\ Len(lines) \in Nat
      /\ first[Len(lines) + 1].len = Width /\ Good(first, more, rest)
  <2> DEFINE q == Text!Piece(w, room)
             y == Text!Cut(x, q)
  <2>1. q \in Pieces /\ q.len = room /\ q.word = w  BY <1>3 DEF Pieces, Text!Piece
  <2> HIDE DEF q
  <2>2. y.pieces = Append(x.pieces, q) /\ y.len = Width
    BY <1>3, <2>1 DEF Text!Cut
  <2>3. y \in Lines
    <3>1. Append(x.pieces, q) \in Seq(Pieces)  BY <1>1, <2>1
    <3>2. x.len + q.len \in Nat  BY <1>1, <1>3, <2>1
    <3> QED  BY <3>1, <3>2 DEF Lines, Text!Cut
  <2> HIDE DEF y
  <2>4. first = Append(lines, y)  BY DEF y, q
  <2>5. q.len \in 1 .. q.word.len  BY <1>2, <1>3, <2>1
  <2>6. y.len \in 1 .. Width  BY <1>2, <2>2
  <2>7. Good(Append(lines, y), Append(words, q.word), q.word.len - q.len)
    BY <2>1, <2>2, <2>3, <2>5, <2>6, Extend
  <2>8. Good(first, more, rest)  BY <2>1, <2>4, <2>7
  <2> HIDE DEF first
  <2> QED  BY <2>2, <2>3, <2>4, <2>8, AppendLine
<1> HIDE DEF first, n, rest, room, more, p
<1> DEFINE T(k, all) == /\ all \in Seq(Lines) /\ Len(all) = Len(first) + k
                        /\ \A l \in Len(lines) + 1 .. Len(first) + k : all[l].len = Width
                        /\ Good(all, more, rest - k * Width)
           S == {k \in Nat : k <= n => T(k, first \o chop(k))}
<1>6. 0 \in S
  <2>1. first \o chop(0) = first
    <3>1. chop(0) = <<>>  OBVIOUS
    <3>2. first \o <<>> = first  BY <1>5
    <3> QED  BY <3>1, <3>2
  <2>2. rest - 0 * Width = rest  BY <1>2, <1>3
  <2>3. T(0, first)
    <3>1. Len(first) = Len(first) + 0 /\ Len(first) + 0 = Len(lines) + 1  BY <1>5
    <3>2. \A l \in Len(lines) + 1 .. Len(first) + 0 : l = Len(lines) + 1  BY <1>5, <3>1
    <3> QED  BY <1>5, <2>2, <3>1, <3>2
  <2> HIDE DEF chop, T
  <2> QED  BY <2>1, <2>3
<1>q. Text!Piece(w, Width) \in Pieces /\ Text!Piece(w, Width).len = Width /\ Text!Piece(w, Width).word = w
  BY <1>2 DEF Text!Piece, Pieces
<1>y. /\ Text!Alone(Text!Piece(w, Width)) \in Lines
      /\ Text!Alone(Text!Piece(w, Width)).len = Width
  BY <1>q, <1>2 DEF Text!Alone, Lines
<1>7. ASSUME NEW k \in S PROVE k + 1 \in S
  <2> SUFFICES ASSUME k + 1 <= n PROVE T(k + 1, first \o chop(k + 1))
    <3> HIDE DEF T, chop
    <3> QED  OBVIOUS
  <2> DEFINE q == Text!Piece(w, Width)
             y == Text!Alone(q)
             old == first \o chop(k)
             open == rest - k * Width
  <2>1. k \in Nat /\ k + 1 \in Nat /\ k < n /\ k <= n  BY <1>4
  <2>t. T(k, old)
    <3> HIDE DEF T, chop
    <3> QED  BY <2>1
  <2> HIDE DEF S
  <2>2. /\ old \in Seq(Lines) /\ Len(old) = Len(first) + k
        /\ \A l \in Len(lines) + 1 .. Len(first) + k : old[l].len = Width
        /\ Good(old, more, open)
    BY <2>t
  <2>3. first \o chop(k + 1) = Append(old, y)
    <3>1. chop(k + 1) = Append(chop(k), y) /\ chop(k) \in Seq(Lines)
      <4>1. chop(k) \in Seq(Lines) /\ Len(chop(k)) = k  BY <1>y, <2>1
      <4>2. chop(k + 1) \in Seq(Lines) /\ Len(chop(k + 1)) = k + 1  BY <1>y, <2>1
      <4>3. \A i \in 1 .. k + 1 : chop(k + 1)[i] = y  OBVIOUS
      <4>4. \A i \in 1 .. k : chop(k)[i] = y  OBVIOUS
      <4> HIDE DEF chop
      <4>5. y \in Lines  BY <1>y
      <4> HIDE DEF y
      <4>6. /\ Append(chop(k), y) \in Seq(Lines) /\ Len(Append(chop(k), y)) = k + 1
            /\ \A i \in 1 .. k + 1 : Append(chop(k), y)[i] = y
        BY <2>1, <4>1, <4>4, <4>5
      <4>7. chop(k + 1) = Append(chop(k), y)  BY <4>2, <4>3, <4>6
      <4> QED  BY <4>1, <4>7
    <3> HIDE DEF chop
    <3>2. y \in Lines  BY <1>y
    <3> HIDE DEF y
    <3> DEFINE c == chop(k)
    <3>3. c \in Seq(Lines) /\ first \in Seq(Lines)  BY <1>5, <3>1
    <3> HIDE DEF c
    <3>4. first \o Append(c, y) = Append(first \o c, y)  BY <3>2, <3>3, JoinAppend
    <3> QED  BY <3>1, <3>4 DEF c
  <2>4. open - Width = rest - (k + 1) * Width /\ open \in Nat /\ Width < open
    <3>1. (k + 1) * Width = k * Width + Width /\ k * Width \in Nat
          /\ k * Width + Width <= n * Width
      BY <1>2, <1>4, <2>1, Times
    <3>2. n # 0 /\ rest # 0  BY <1>4, <2>1
    <3>3. rest - n * Width >= 1  BY <1>2, <1>4, <3>2
    <3> DEFINE a == k * Width
               b == n * Width
               c == (k + 1) * Width
    <3>4. a \in Nat /\ b \in Nat /\ c = a + Width /\ a + Width <= b /\ rest - b >= 1
      BY <1>4, <3>1, <3>3
    <3> HIDE DEF a, b, c
    <3>5. rest - a - Width = rest - c /\ rest - a \in Nat /\ Width < rest - a
      BY <1>2, <1>3, <3>4
    <3> QED  BY <3>5 DEF a, c
  <2>5. Among(more, w)
    <3>1. words \in Seq(Words)  BY DEF Good
    <3> QED  BY <3>1, AppendWord DEF more
  <2> HIDE DEF old, open, chop, T
  <2>6. Good(Append(old, y), more, open - Width)
    <3>1. old # <<>> /\ old[Len(old)].len = Width
      <4>1. Len(old) \in Len(lines) + 1 .. Len(first) + k  BY <1>5, <2>1, <2>2
      <4>2. Len(old) # 0  BY <1>5, <4>1
      <4> QED  BY <2>2, <4>1, <4>2
    <3> HIDE DEF q
    <3>2. q \in Pieces /\ q.len = Width /\ q.word = w  BY <1>q DEF q
    <3>3. open # 0  BY <1>2, <2>4
    <3>4. open <= rest
      <4>1. k * Width \in Nat  BY <1>2, <2>1
      <4> QED  BY <1>3, <4>1 DEF open
    <3>5. q.len \in 1 .. q.word.len /\ q.len <= open /\ q.len < q.word.len
      BY <1>2, <1>3, <2>4, <3>2, <3>4
    <3>6. old[Len(old)].len + 1 + q.len > Width  BY <1>2, <3>1, <3>2
    <3>7. Good(Append(old, Text!Alone(q)), more, open - q.len)
      <4>1. /\ old \in Seq(Lines) /\ Good(old, more, open) /\ Among(more, q.word)
            /\ q.len <= Width /\ old[Len(old)].len # 0
        BY <1>2, <2>2, <2>5, <3>1, <3>2
      <4> QED  BY <3>1, <3>2, <3>3, <3>5, <3>6, <4>1, Continued
    <3> QED  BY <3>2, <3>7 DEF y
  <2>7. y \in Lines /\ y.len = Width  BY <1>y
  <2> HIDE DEF y
  <2>8. /\ Append(old, y) \in Seq(Lines) /\ Len(Append(old, y)) = Len(first) + (k + 1)
        /\ \A l \in Len(lines) + 1 .. Len(first) + (k + 1) : Append(old, y)[l].len = Width
    <3>1. /\ Append(old, y) \in Seq(Lines) /\ Len(old) \in Nat
          /\ Len(Append(old, y)) = Len(old) + 1 /\ Append(old, y)[Len(old) + 1] = y
          /\ \A l \in 1 .. Len(old) : Append(old, y)[l] = old[l]
      BY <2>2, <2>7, AppendLine
    <3>2. Len(old) + 1 = Len(first) + (k + 1) /\ Len(old) = Len(first) + k  BY <1>5, <2>1, <2>2
    <3>3. ASSUME NEW l \in Len(lines) + 1 .. Len(old) + 1 PROVE Append(old, y)[l].len = Width
      <4>1. CASE l = Len(old) + 1  BY <2>7, <3>1, <4>1
      <4>2. CASE l # Len(old) + 1
        <5>1. l \in Len(lines) + 1 .. Len(old) /\ l \in 1 .. Len(old)  BY <1>5, <3>1, <4>2
        <5>2. old[l].len = Width  BY <2>2, <3>2, <5>1
        <5> QED  BY <3>1, <5>1, <5>2
      <4> QED  BY <4>1, <4>2
    <3> QED  BY <3>1, <3>2, <3>3
  <2>9. T(k + 1, Append(old, y))  BY <2>4, <2>6, <2>8 DEF T
  <2> QED  BY <2>3, <2>9
<1> HIDE DEF S
<1>8. S = Nat  BY <1>6, <1>7, Induct DEF S
<1> DEFINE filled == first \o chop(n)
<1>t. T(n, filled)
  <2> HIDE DEF T, chop
  <2> QED  BY <1>4, <1>8 DEF S
<1>9. /\ filled \in Seq(Lines)
      /\ Len(filled) = Len(first) + n
      /\ \A l \in Len(lines) + 1 .. Len(first) + n : filled[l].len = Width
      /\ Good(filled, more, rest - n * Width)
  BY <1>t
<1>10. filled = first \o Text!Chopped(p, room)
  <2>1. p.word = w  BY DEF p, Text!Piece
  <2> QED  BY <2>1 DEF Text!Chopped, n
<1> HIDE DEF filled, chop
<1>11. filled # <<>> /\ filled[Len(filled)].len = Width
  <2>1. Len(filled) \in Len(lines) + 1 .. Len(first) + n  BY <1>4, <1>5, <1>9
  <2>2. Len(filled) # 0  BY <1>5, <2>1
  <2> QED  BY <1>9, <2>1, <2>2
<1>12. last = IF rest - n * Width > 0 THEN Text!Alone(Text!Piece(w, rest - n * Width))
              ELSE [pieces |-> <<>>, len |-> 0]
  BY DEF last, Text!Tail_, Text!Piece, p, n, rest
<1>13. /\ last \in Lines /\ Good(Append(filled, last), more, 0)
       /\ last.len <= Width /\ last.len < w.len
       /\ \A i \in 1 .. Len(last.pieces) : last.pieces[i].word = w
  <2>1. CASE rest = 0
    <3>1. last = [pieces |-> <<>>, len |-> 0]  BY <1>4, <1>12, <2>1
    <3>2. Good(Append(filled, last), more, 0)
      BY <1>4, <1>9, <1>11, <2>1, <3>1, EmptyLine
    <3>3. last \in Lines
      <4>1. <<>> \in Seq(Pieces)  OBVIOUS
      <4> QED  BY <3>1, <4>1 DEF Lines
    <3> QED  BY <1>2, <3>1, <3>2, <3>3
  <2>2. CASE rest # 0
    <3> DEFINE open == rest - n * Width
               q == Text!Piece(w, open)
    <3>1. open \in 1 .. Width /\ open <= rest
      <4> DEFINE a == n * Width
      <4>1. a \in Nat /\ rest - a \in 1 .. Width  BY <1>4, <2>2
      <4> HIDE DEF a
      <4>2. rest - a <= rest  BY <1>3, <4>1
      <4> QED  BY <4>1, <4>2 DEF a
    <3> HIDE DEF open
    <3>2. q \in Pieces /\ q.len = open /\ q.word = w  BY <3>1 DEF Text!Piece, Pieces
    <3>3. last = Text!Alone(q)  BY <1>2, <1>12, <3>1 DEF open
    <3> HIDE DEF q, last
    <3>4. last \in Lines /\ last.len = open /\ last.pieces = <<q>>
      BY <1>2, <3>1, <3>2, <3>3 DEF Lines, Text!Alone
    <3>5. Among(more, w)
      <4>1. words \in Seq(Words)  BY DEF Good
      <4> QED  BY <4>1, AppendWord DEF more
    <3>6. Good(Append(filled, last), more, open - open)
      <4>1. Good(filled, more, open)  BY <1>9 DEF open
      <4>2. /\ q.len \in 1 .. q.word.len /\ q.len <= open /\ q.len < q.word.len /\ open # 0
            /\ q.len <= Width /\ filled[Len(filled)].len + 1 + q.len > Width
            /\ filled[Len(filled)].len # 0
        BY <1>2, <1>3, <1>11, <3>1, <3>2
      <4>3. Good(Append(filled, Text!Alone(q)), more, open - q.len)
        BY <1>9, <1>11, <3>2, <3>5, <4>1, <4>2, Continued
      <4> QED  BY <3>2, <3>3, <4>3
    <3>7. open - open = 0  BY <3>1
    <3>8. \A i \in 1 .. Len(last.pieces) : last.pieces[i].word = w  BY <3>2, <3>4
    <3>9. last.len <= Width /\ last.len < w.len  BY <1>2, <1>3, <3>1, <3>4
    <3> QED  BY <3>4, <3>6, <3>7, <3>8, <3>9
  <2> QED  BY <2>1, <2>2
<1> HIDE DEF last
<1>14. \A l \in Len(lines) + 1 .. Len(filled) : filled[l].len = Width  BY <1>9
<1> QED  BY <1>9, <1>10, <1>13, <1>14 DEF more, last, first, p, room

-----------------------------------------------------------------------------
(***************************************************************************)
(* The loop of wrap_notam_text over the words of an item, and the wrapping *)
(* of a line that is too wide.                                             *)
(***************************************************************************)
KeepsLabel(line) ==
  Text!IsLabel(line, Label) => line.pieces = <<>> \/ (Len(line.pieces) = 1 /\ StartsWhole(line))

Wrapping(done, words) ==
  /\ done \in [lines : Seq(Lines), line : Lines]
  /\ Good(Append(done.lines, done.line), words, 0)
  /\ KeepsLabel(done.line)

LEMMA Adds ==
  ASSUME NEW done, NEW words, Wrapping(done, words), NEW w \in Words
  PROVE  Wrapping(Text!AddWord(Label, done, Text!Piece(w, w.len)), Append(words, w))
<1> DEFINE lines == done.lines
           x == done.line
           p == Text!Piece(w, w.len)
           more == Append(words, w)
           y == Text!Joined(x, p)
<1>1. /\ lines \in Seq(Lines) /\ x \in Lines /\ Good(Append(lines, x), words, 0) /\ KeepsLabel(x)
      /\ done = [lines |-> lines, line |-> x]
  BY DEF Wrapping
<1>2. /\ Width \in Nat /\ w.len \in Nat /\ w.len >= 1 /\ Label \in Nat /\ 1 <= Label /\ Label < Width
      /\ w.label => w.len = Label
  BY Measures
<1>3. p \in Pieces /\ p.len = w.len /\ p.word = w  BY <1>2 DEF Text!Piece, Pieces
<1>4. x.len \in Nat /\ x.pieces \in Seq(Pieces)  BY <1>1 DEF Lines
<1> HIDE DEF lines, x, p
<1>5. y.pieces = Append(x.pieces, p) /\ y.len = x.len + (IF x.len = 0 THEN 0 ELSE 1) + w.len
  BY <1>3 DEF Text!Joined
<1>6. y \in Lines
  <2>1. Append(x.pieces, p) \in Seq(Pieces)  BY <1>3, <1>4
  <2>2. x.len + (IF x.len = 0 THEN 0 ELSE 1) + p.len \in Nat  BY <1>2, <1>3, <1>4
  <2> QED  BY <2>1, <2>2 DEF Text!Joined, Lines
<1> HIDE DEF y
<1>7. x.len = 0 => x.pieces = <<>>
  <2>1. Lined(Append(lines, x), words)  BY <1>1 DEF Good
  <2>2. Sound(x, words)  BY <1>1, <2>1, FirmLines
  <2> QED  BY <2>2 DEF Sound
<1>8. p.len \in 1 .. p.word.len /\ p.word.len - p.len = 0  BY <1>2, <1>3
<1>9. CASE y.len <= Width
  <2>1. Text!AddWord(Label, done, p) = [lines |-> lines, line |-> y]
    BY <1>1, <1>9 DEF Text!AddWord, y, x
  <2>2. y.len \in 1 .. Width  BY <1>2, <1>4, <1>5, <1>9
  <2>3. Good(Append(lines, y), Append(words, p.word), p.word.len - p.len)
    BY <1>1, <1>3, <1>5, <1>6, <1>8, <2>2, Extend
  <2>4. Good(Append(lines, y), more, 0)  BY <1>3, <1>8, <2>3
  <2>5. KeepsLabel(y)
    <3> SUFFICES ASSUME Text!IsLabel(y, Label) PROVE Len(y.pieces) = 1 /\ StartsWhole(y)
      BY DEF KeepsLabel
    <3>1. /\ Append(x.pieces, p) \in Seq(Pieces) /\ Len(x.pieces) \in Nat
          /\ Len(Append(x.pieces, p)) = Len(x.pieces) + 1
          /\ Append(x.pieces, p)[Len(x.pieces) + 1] = p
      BY <1>3, <1>4, AppendPiece
    <3>2. Len(x.pieces) + 1 \in DOMAIN y.pieces  BY <1>5, <3>1
    <3>3. w.label /\ y.len = Label
      <4>1. y.pieces[Len(x.pieces) + 1].word.label /\ y.len = Label
        BY <3>2 DEF Text!IsLabel
      <4> QED  BY <1>3, <1>5, <3>1, <4>1
    <3>4. x.len = 0  BY <1>2, <1>4, <1>5, <3>3
    <3>5. Len(y.pieces) = 1 /\ y.pieces[1] = p /\ y.pieces # <<>>
      <4>1. x.pieces = <<>> /\ Len(x.pieces) = 0  BY <1>7, <3>4
      <4> QED  BY <1>5, <3>1, <4>1
    <3> QED  BY <1>3, <3>5 DEF StartsWhole
  <2>6. [lines |-> lines, line |-> y] \in [lines : Seq(Lines), line : Lines]  BY <1>1, <1>6
  <2> QED  BY <2>1, <2>4, <2>5, <2>6 DEF Wrapping, p
<1>10. CASE ~ (y.len <= Width) /\ (x.len = 0 \/ Text!IsLabel(x, Label))
  <2> DEFINE room == Width - x.len
             filled == Append(lines, Text!Cut(x, Text!Piece(w, room))) \o Text!Chopped(p, room)
             last == Text!Tail_(p, room)
  <2>1. Text!AddWord(Label, done, p) = [lines |-> filled, line |-> last]
    BY <1>1, <1>3, <1>10 DEF Text!AddWord, y, x, lines
  <2>2. x.len < Width /\ Width - x.len <= w.len
    <3>1. x.len = 0 \/ x.len = Label  BY <1>10 DEF Text!IsLabel
    <3>2. CASE x.len = 0  BY <1>2, <1>5, <1>10, <3>2
    <3>3. CASE x.len = Label
      <4>1. y.len = Label + 1 + w.len  BY <1>2, <1>5, <3>3
      <4> QED  BY <1>2, <1>10, <3>3, <4>1
    <3> QED  BY <3>1, <3>2, <3>3
  <2>3. /\ filled \in Seq(Lines) /\ last \in Lines
        /\ Good(Append(filled, last), more, 0)
        /\ last.len <= Width /\ last.len < w.len
        /\ \A i \in 1 .. Len(last.pieces) : last.pieces[i].word = w
    BY <1>1, <2>2, LongWord DEF p
  <2> HIDE DEF filled, last
  <2>4. KeepsLabel(last)
    <3> SUFFICES ASSUME Text!IsLabel(last, Label), last.pieces # <<>> PROVE FALSE
      BY DEF KeepsLabel
    <3>1. last.pieces \in Seq(Pieces)  BY <2>3 DEF Lines
    <3>2. 1 \in 1 .. Len(last.pieces) /\ 1 \in DOMAIN last.pieces  BY <3>1
    <3>3. last.pieces[1].word = w /\ last.pieces[1].word.label /\ last.len = Label
      BY <2>3, <3>2 DEF Text!IsLabel
    <3> QED  BY <1>2, <2>3, <3>3
  <2>5. [lines |-> filled, line |-> last] \in [lines : Seq(Lines), line : Lines]  BY <2>3
  <2> QED  BY <2>1, <2>3, <2>4, <2>5 DEF Wrapping, p
<1>11. CASE ~ (y.len <= Width) /\ ~ (x.len = 0 \/ Text!IsLabel(x, Label))
  <2> DEFINE all == Append(lines, x)
             z == Text!Alone(p)
  <2>1. Text!AddWord(Label, done, p) = [lines |-> all, line |-> z]
    BY <1>1, <1>11 DEF Text!AddWord, y, x, lines
  <2>2. all \in Seq(Lines) /\ all # <<>> /\ all[Len(all)] = x
    <3>1. /\ all \in Seq(Lines) /\ Len(all) = Len(lines) + 1 /\ all[Len(lines) + 1] = x
          /\ Len(lines) \in Nat
      BY <1>1, AppendLine
    <3> QED  BY <3>1
  <2>3. z \in Lines /\ z.pieces = <<p>> /\ z.len = w.len  BY <1>2, <1>3 DEF Text!Alone, Lines
  <2>4. x.len # 0 /\ x.len + 1 + p.len > Width  BY <1>2, <1>3, <1>4, <1>5, <1>11
  <2>5. Good(Append(all, z), Append(words, p.word), p.word.len - p.len)
    <3>1. Good(all, words, 0)  BY <1>1
    <3>2. p.len = p.word.len  BY <1>3
    <3> HIDE DEF all
    <3> QED  BY <1>3, <1>8, <2>2, <2>4, <3>1, <3>2, NewLine
  <2>6. Good(Append(all, z), more, 0)  BY <1>3, <1>8, <2>5
  <2> HIDE DEF z
  <2>7. KeepsLabel(z)  BY <1>3, <2>3 DEF KeepsLabel, StartsWhole
  <2>8. [lines |-> all, line |-> z] \in [lines : Seq(Lines), line : Lines]  BY <2>2, <2>3
  <2> HIDE DEF all
  <2> QED  BY <2>1, <2>6, <2>7, <2>8 DEF Wrapping, p
<1> QED  BY <1>9, <1>10, <1>11

LEMMA SpellType ==
  ASSUME NEW u \in Seq(Words), NEW ps \in Seq(Pieces)
  PROVE  Run(SPELL, Text!Whole(u), ps) \in [words : Seq(Words), open : Int]
<1> DEFINE base == Text!Whole(u)
           R == [words : Seq(Words), open : Int]
           T(v) == Run(SPELL, base, v) \in R
           S == {m \in Nat : \A v \in Seq(Pieces) : Len(v) = m => T(v)}
<1>1. base \in R  BY DEF Text!Whole
<1> HIDE DEF base
<1>2. 0 \in S
  <2>1. \A v \in Seq(Pieces) : Len(v) = 0 => v = <<>>  OBVIOUS
  <2> QED  BY <1>1, <2>1, RunNil
<1>3. ASSUME NEW m \in S PROVE m + 1 \in S
  <2> SUFFICES ASSUME NEW v \in Seq(Pieces), Len(v) = m + 1 PROVE T(v)
    <3> HIDE DEF T
    <3> QED  OBVIOUS
  <2>1. m \in Nat  OBVIOUS
  <2> HIDE DEF T
  <2>2. \A q \in Seq(Pieces) : Len(q) = m => T(q)  OBVIOUS
  <2> HIDE DEF S
  <2>3. PICK q \in Seq(Pieces) : \E p \in Pieces : v = Append(q, p) /\ Len(q) = m
    BY <2>1, Popped
  <2>4. PICK p \in Pieces : v = Append(q, p) /\ Len(q) = m  BY <2>3
  <2>5. Run(SPELL, base, q) \in R  BY <2>2, <2>4 DEF T
  <2>6. Run(SPELL, base, v) = Put(Run(SPELL, base, q), p)
    <3>1. Run(SPELL, base, Append(q, p)) = Turn(SPELL, Run(SPELL, base, q), p)  BY RunNext
    <3> QED  BY <2>4, <3>1 DEF Turn
  <2>7. p.word \in Words /\ p.word.len \in Nat /\ p.len \in Nat  BY Measures DEF Pieces
  <2> DEFINE d == Run(SPELL, base, q)
  <2>8. d \in R  BY <2>5
  <2> HIDE DEF d
  <2>9. Put(d, p) \in R
    <3>1. d.words \in Seq(Words) /\ d.open \in Int  BY <2>8
    <3>2. Append(d.words, p.word) \in Seq(Words) /\ p.word.len - p.len \in Int /\ d.open - p.len \in Int
      <4>1. Append(d.words, p.word) \in Seq(Words)  BY <2>7, <3>1, AppendWord
      <4>2. p.word.len - p.len \in Int  BY <2>7
      <4>3. d.open - p.len \in Int  BY <2>7, <3>1
      <4> QED  BY <4>1, <4>2, <4>3
    <3>3. CASE d.open = 0
      <4>1. Put(d, p) = [words |-> Append(d.words, p.word), open |-> p.word.len - p.len]
        BY <3>3 DEF Put
      <4> QED  BY <3>2, <4>1
    <3>4. CASE d.open # 0
      <4>1. Put(d, p) = [words |-> d.words, open |-> d.open - p.len]  BY <2>8, <3>4 DEF Put
      <4> QED  BY <3>1, <3>2, <4>1
    <3> QED  BY <3>3, <3>4
  <2> QED  BY <2>6, <2>9 DEF T, d
<1> HIDE DEF S, T
<1>4. S = Nat  BY <1>2, <1>3, Induct DEF S
<1> QED  BY <1>4 DEF S, T, base

Typed(words) == [j \in DOMAIN words |-> Text!Piece(words[j], words[j].len)]

LEMMA TypedNext ==
  ASSUME NEW words \in Seq(Words), NEW w \in Words
  PROVE  /\ Typed(words) \in Seq(Pieces) /\ Text!Piece(w, w.len) \in Pieces
         /\ Typed(Append(words, w)) = Append(Typed(words), Text!Piece(w, w.len))
<1>1. \A v \in Words : Text!Piece(v, v.len) \in Pieces  BY Measures DEF Text!Piece, Pieces
<1>2. ASSUME NEW v \in Seq(Words)
      PROVE  /\ Typed(v) \in Seq(Pieces) /\ Len(Typed(v)) = Len(v) /\ Len(v) \in Nat
             /\ \A j \in 1 .. Len(v) : Typed(v)[j] = Text!Piece(v[j], v[j].len)
  <2>1. Typed(v) = [j \in 1 .. Len(v) |-> Text!Piece(v[j], v[j].len)] /\ Len(v) \in Nat
    BY DEF Typed
  <2>2. \A j \in 1 .. Len(v) : v[j] \in Words  OBVIOUS
  <2>3. \A j \in 1 .. Len(v) : Text!Piece(v[j], v[j].len) \in Pieces  BY <1>1, <2>2
  <2> QED  BY <2>1, <2>3
<1> DEFINE more == Append(words, w)
           p == Text!Piece(w, w.len)
           a == Typed(more)
           b == Append(Typed(words), p)
<1>3. /\ more \in Seq(Words) /\ Len(more) = Len(words) + 1 /\ more[Len(words) + 1] = w
      /\ \A j \in 1 .. Len(words) : more[j] = words[j]
  OBVIOUS
<1>4. p \in Pieces /\ Typed(words) \in Seq(Pieces) /\ Len(Typed(words)) = Len(words)
      /\ Len(words) \in Nat
  BY <1>1, <1>2
<1>5. /\ b \in Seq(Pieces) /\ Len(b) = Len(words) + 1 /\ b[Len(words) + 1] = p
      /\ \A j \in 1 .. Len(words) : b[j] = Typed(words)[j]
  <2> HIDE DEF p
  <2> QED  BY <1>4, AppendPiece
<1>6. /\ a \in Seq(Pieces) /\ Len(a) = Len(words) + 1
      /\ \A j \in 1 .. Len(words) + 1 : a[j] = Text!Piece(more[j], more[j].len)
  <2> HIDE DEF more
  <2> QED  BY <1>2, <1>3
<1> HIDE DEF a, b, more
<1>7. ASSUME NEW j \in 1 .. Len(words) + 1 PROVE a[j] = b[j]
  <2>1. CASE j \in 1 .. Len(words)
    <3>1. b[j] = Text!Piece(words[j], words[j].len)  BY <1>2, <1>5, <2>1
    <3> QED  BY <1>3, <1>6, <2>1, <3>1
  <2>2. CASE j = Len(words) + 1  BY <1>3, <1>5, <1>6, <2>2
  <2> QED  BY <1>4, <2>1, <2>2
<1>8. a = b  BY <1>5, <1>6, <1>7, SameSeq
<1> QED  BY <1>4, <1>8 DEF a, b, more

\* Before the first word there is a line, empty but for the label.
LEMMA FirstLine ==
  ASSUME NEW x \in Lines, x.pieces = <<>>, x.len <= Width
  PROVE  Good(Append(<<>>, x), <<>>, 0)
<1> DEFINE none == <<>>
<1>1. none \in Seq(Lines) /\ none \in Seq(Words) /\ none = <<>>  OBVIOUS
<1> HIDE DEF none
<1>2. Firm(none, none)  BY <1>1 DEF Firm, Lined
<1>3. Sound(x, none) /\ ~ StartsWhole(x)
  <2>1. Len(x.pieces) = 0  OBVIOUS
  <2> QED  BY <2>1 DEF Sound, StartsWhole
<1>4. Lined(Append(none, x), none)  BY <1>1, <1>2, <1>3, LinedAppend
<1>5. Spells(Append(none, x), none, 0)
  <2> SUFFICES ASSUME NEW u \in Seq(Words)
               PROVE  Spell(u, Append(none, x)) = [words |-> u \o none, open |-> 0]
    BY DEF Spells
  <2>1. Spell(u, Append(none, x)) = Spell(u, none)  BY <1>1, Blank
  <2>2. Spell(u, none) = Text!Whole(u)  BY <1>1, InkFacts, RunNil DEF Spell
  <2>3. u \o none = u  BY <1>1
  <2> QED  BY <2>1, <2>2, <2>3 DEF Text!Whole
<1>6. Append(none, x) \in Seq(Lines)  BY <1>1, AppendLine
<1> QED  BY <1>1, <1>4, <1>5, <1>6 DEF Good, none

Nothing == [lines |-> <<>>, line |-> [pieces |-> <<>>, len |-> Label]]

LEMMA WrapLoop ==
  ASSUME NEW item \in Seq(Words)
  PROVE  Wrapping(Run(Label, Nothing, Typed(item)), item)
<1> DEFINE T(v) == Wrapping(Run(Label, Nothing, Typed(v)), v)
           S == {m \in Nat : \A v \in Seq(Words) : Len(v) = m => T(v)}
<1>1. 0 \in S
  <2> DEFINE x == [pieces |-> <<>>, len |-> Label]
             none == <<>>
  <2>1. x \in Lines /\ x.pieces = <<>> /\ x.len <= Width
    <3>1. <<>> \in Seq(Pieces)  OBVIOUS
    <3> QED  BY <3>1, Measures DEF Lines
  <2>2. none \in Seq(Lines) /\ none \in Seq(Words) /\ Len(none) = 0 /\ none = <<>>  OBVIOUS
  <2> HIDE DEF x
  <2>7. Good(Append(none, x), none, 0)  BY <2>1, FirstLine
  <2> HIDE DEF none
  <2>8. Nothing.lines = none /\ Nothing.line = x /\ Nothing = [lines |-> none, line |-> x]
    BY <2>2 DEF Nothing, x
  <2>9. Wrapping(Nothing, none)
    <3>1. Nothing \in [lines : Seq(Lines), line : Lines]  BY <2>1, <2>2, <2>8
    <3> QED  BY <2>1, <2>7, <2>8, <3>1 DEF Wrapping, KeepsLabel
  <2>10. Typed(none) = <<>>  BY <2>2 DEF Typed
  <2>11. T(none)  BY <2>9, <2>10, RunNil
  <2>12. \A v \in Seq(Words) : Len(v) = 0 => v = none  BY <2>2
  <2> HIDE DEF T
  <2> QED  BY <2>11, <2>12
<1>2. ASSUME NEW m \in S PROVE m + 1 \in S
  <2> SUFFICES ASSUME NEW v \in Seq(Words), Len(v) = m + 1 PROVE T(v)
    <3> HIDE DEF T
    <3> QED  OBVIOUS
  <2>1. m \in Nat  OBVIOUS
  <2> HIDE DEF T
  <2>2. \A q \in Seq(Words) : Len(q) = m => T(q)  OBVIOUS
  <2> HIDE DEF S
  <2>3. PICK q \in Seq(Words) : \E w \in Words : v = Append(q, w) /\ Len(q) = m
    BY <2>1, Popped
  <2>4. PICK w \in Words : v = Append(q, w) /\ Len(q) = m  BY <2>3
  <2> DEFINE d == Run(Label, Nothing, Typed(q))
             p == Text!Piece(w, w.len)
  <2>5. Wrapping(d, q)  BY <2>2, <2>4 DEF T
  <2>6. Run(Label, Nothing, Typed(v)) = Text!AddWord(Label, d, p)
    <3>1. /\ Typed(q) \in Seq(Pieces) /\ p \in Pieces
          /\ Typed(v) = Append(Typed(q), p)
      BY <2>4, TypedNext
    <3> DEFINE ps == Typed(q)
    <3>2. ps \in Seq(Pieces) /\ p \in Pieces  BY <3>1
    <3> HIDE DEF ps, p
    <3>3. Run(Label, Nothing, Append(ps, p)) = Turn(Label, Run(Label, Nothing, ps), p)
      BY <3>2, RunNext
    <3>4. Label # SPELL  BY Measures DEF SPELL
    <3> QED  BY <3>1, <3>3, <3>4 DEF Turn, ps
  <2> HIDE DEF d
  <2>7. Wrapping(Text!AddWord(Label, d, p), Append(q, w))  BY <2>5, Adds
  <2> QED  BY <2>4, <2>6, <2>7 DEF T
<1> HIDE DEF S, T
<1>3. S = Nat  BY <1>1, <1>2, Induct DEF S
<1> QED  BY <1>3 DEF S, T

\* What is kept of an item: all of its words, or all but a label at its end.
Keeps(item, kept) ==
  /\ kept \in Seq(Words)
  /\ kept = item \/ (Text!Last(item).label /\ kept = Text!Front(item))

\* The label alone on the last line is dropped with its line.
LEMMA Dropped ==
  ASSUME NEW lines \in Seq(Lines), NEW x \in Lines, NEW item \in Seq(Words), item # <<>>,
         Good(Append(lines, x), item, 0), Len(x.pieces) = 1, StartsWhole(x),
         x.pieces[1].word.label
  PROVE  Text!Last(item).label /\ Text!Front(item) \in Seq(Words) /\ Spells(lines, Text!Front(item), 0)
<1> DEFINE p == x.pieces[1]
<1>1. /\ Lined(Append(lines, x), item) /\ Spells(Append(lines, x), item, 0)  BY DEF Good
<1>2. EndsWord(lines)  BY <1>1, FirmLines
<1>3. x.pieces = <<p>> /\ p \in Pieces /\ p.len = p.word.len /\ p.word \in Words
  <2>1. x.pieces \in Seq(Pieces)  BY DEF Lines
  <2>2. x.pieces = <<p>> /\ p \in Pieces  BY <2>1
  <2> HIDE DEF p
  <2>3. p.word \in Words  BY <2>2 DEF Pieces
  <2> QED  BY <2>2, <2>3 DEF StartsWhole, p
<1>4. PICK f \in Seq(Words) : \E w \in Words : item = Append(f, w)
  <2> DEFINE m == Len(item) - 1
  <2>1. m \in Nat /\ Len(item) = m + 1  OBVIOUS
  <2> HIDE DEF m
  <2>2. \E f \in Seq(Words) : \E w \in Words : item = Append(f, w) /\ Len(f) = m
    BY <2>1, Popped
  <2> QED  BY <2>2
<1>5. PICK w \in Words : item = Append(f, w)  BY <1>4
<1>6. Text!Last(item) = w /\ Text!Front(item) = f  BY <1>5 DEF Text!Last, Text!Front
<1> HIDE DEF p
<1>7. ASSUME NEW u \in Seq(Words)
      PROVE  p.word = w /\ Spell(u, lines) = [words |-> u \o f, open |-> 0]
  <2> DEFINE d == Spell(u, lines)
  <2>1. Ink(lines) \in Seq(Pieces) /\ Ink(Append(lines, x)) = Ink(lines) \o <<p>>
    BY <1>3, InkFacts
  <2>2. d \in [words : Seq(Words), open : Int]  BY <2>1, SpellType DEF Spell
  <2>3. d.open = 0  BY <1>2 DEF EndsWord
  <2>4. Ink(Append(lines, x)) = Append(Ink(lines), p)  BY <1>3, <2>1
  <2>5. Spell(u, Append(lines, x)) = Put(d, p)
    <3> DEFINE base == Text!Whole(u)
               ps == Ink(lines)
    <3>1. ps \in Seq(Pieces)  BY <2>1
    <3> HIDE DEF base, ps
    <3>2. Run(SPELL, base, Append(ps, p)) = Turn(SPELL, Run(SPELL, base, ps), p)
      BY <1>3, <3>1, RunNext
    <3> QED  BY <2>4, <3>2 DEF Spell, Turn, base, ps
  <2>6. Put(d, p) = [words |-> u \o item, open |-> 0]  BY <1>1, <2>5 DEF Spells
  <2> HIDE DEF d
  <2>7. Put(d, p) = [words |-> Append(d.words, p.word), open |-> p.word.len - p.len]
    BY <2>3 DEF Put
  <2>8. Append(d.words, p.word) = u \o item
    <3> DEFINE e == Put(d, p)
               a == Append(d.words, p.word)
               b == u \o item
               c == p.word.len - p.len
    <3>1. e = [words |-> a, open |-> c] /\ e = [words |-> b, open |-> 0]  BY <2>6, <2>7
    <3> HIDE DEF a, b, c, e
    <3>2. e.words = a /\ e.words = b  BY <3>1
    <3> QED  BY <3>2 DEF a, b
  <2>9. u \o item = Append(u \o f, w) /\ u \o f \in Seq(Words)  BY <1>5
  <2>10. d.words = u \o f /\ p.word = w
    <3> DEFINE a == d.words
               b == u \o f
    <3>1. a \in Seq(Words) /\ b \in Seq(Words) /\ Append(a, p.word) = Append(b, w)
      BY <2>2, <2>8, <2>9
    <3> HIDE DEF a, b
    <3>2. a = b /\ p.word = w  BY <1>3, <3>1, AppendInjective
    <3> QED  BY <3>2 DEF a, b
  <2> QED  BY <2>2, <2>3, <2>10 DEF d
<1>8. p.word = w
  <2>1. <<>> \in Seq(Words)  OBVIOUS
  <2> QED  BY <1>7, <2>1
<1> QED  BY <1>6, <1>7, <1>8 DEF Spells, p

LEMMA WrapItem ==
  ASSUME NEW item \in Seq(Words), item # <<>>
  PROVE  LET lines == Text!Wrap(Label, Typed(item)) IN
         /\ lines \in Seq(Lines) /\ Firm(lines, item)
         /\ \E kept : Keeps(item, kept) /\ Spells(lines, kept, 0)
<1> DEFINE end == Run(Label, Nothing, Typed(item))
           wrapped == Text!Wrap(Label, Typed(item))
           lines == end.lines
           x == end.line
<1>1. wrapped = IF x.len = 0 \/ Text!IsLabel(x, Label) THEN lines ELSE Append(lines, x)
  BY Measures, WrapRuns DEF Nothing
<1>2. Wrapping(end, item)  BY WrapLoop
<1> HIDE DEF end, wrapped
<1>3. /\ lines \in Seq(Lines) /\ x \in Lines /\ Good(Append(lines, x), item, 0) /\ KeepsLabel(x)
  BY <1>2 DEF Wrapping
<1>4. /\ Lined(Append(lines, x), item) /\ Spells(Append(lines, x), item, 0)
      /\ Append(lines, x) \in Seq(Lines)
  BY <1>3 DEF Good
<1> HIDE DEF lines, x
<1>5. Firm(lines, item) /\ Sound(x, item)  BY <1>3, <1>4, FirmLines
<1>6. Keeps(item, item)  BY DEF Keeps
<1>7. CASE x.len = 0 \/ Text!IsLabel(x, Label)
  <2>1. wrapped = lines  BY <1>1, <1>7
  <2>2. CASE x.pieces = <<>>
    <3>1. Spells(lines, item, 0)  BY <1>3, <1>4, <2>2, Blank DEF Spells
    <3> QED  BY <1>3, <1>5, <1>6, <2>1, <3>1 DEF wrapped
  <2>3. CASE x.pieces # <<>>
    <3>1. Text!IsLabel(x, Label)  BY <1>5, <1>7, <2>3 DEF Sound
    <3>2. Len(x.pieces) = 1 /\ StartsWhole(x)  BY <1>3, <2>3, <3>1 DEF KeepsLabel
    <3>3. x.pieces[1].word.label
      <4>1. x.pieces \in Seq(Pieces)  BY <1>3 DEF Lines
      <4>2. 1 \in DOMAIN x.pieces  BY <3>2, <4>1
      <4> QED  BY <3>1, <4>2 DEF Text!IsLabel
    <3>4. /\ Text!Last(item).label /\ Text!Front(item) \in Seq(Words)
          /\ Spells(lines, Text!Front(item), 0)
      BY <1>3, <3>2, <3>3, Dropped
    <3>5. Keeps(item, Text!Front(item))  BY <3>4 DEF Keeps
    <3> QED  BY <1>3, <1>5, <2>1, <3>4, <3>5 DEF wrapped
  <2> QED  BY <2>2, <2>3
<1>8. CASE ~ (x.len = 0 \/ Text!IsLabel(x, Label))
  <2> DEFINE all == Append(lines, x)
  <2>1. wrapped = all  BY <1>1, <1>8
  <2>2. Firm(all, item)
    <3>1. all[Len(all)] = x  BY <1>3, AppendLine
    <3> HIDE DEF all
    <3>2. Lined(all, item) /\ all \in Seq(Lines)  BY <1>4 DEF all
    <3> QED  BY <1>8, <3>1, <3>2 DEF Firm, Lined
  <2> HIDE DEF all
  <2>3. all \in Seq(Lines) /\ Spells(all, item, 0)  BY <1>4 DEF all
  <2> QED  BY <1>6, <2>1, <2>2, <2>3 DEF wrapped
<1> QED  BY <1>7, <1>8
-----------------------------------------------------------------------------
(***************************************************************************)
(* The parenthesis at the end of a message, which lengthens its last line  *)
(* or stands on one of its own.                                            *)
(***************************************************************************)
LEMMA FirmAppend ==
  ASSUME NEW lines \in Seq(Lines), NEW x \in Lines, NEW words,
         Lined(Append(lines, x), words), x.len # 0
  PROVE  Firm(Append(lines, x), words)
<1> DEFINE all == Append(lines, x)
<1>1. all[Len(all)] = x  BY AppendLine
<1>2. Lined(all, words)  OBVIOUS
<1> HIDE DEF all
<1>3. Firm(all, words)  BY <1>1, <1>2 DEF Firm, Lined
<1> QED  BY <1>3 DEF all

LEMMA Relast ==
  ASSUME NEW P, NEW a \in Seq(P), NEW x \in P, NEW z \in P
  PROVE  [Append(a, x) EXCEPT ![Len(a) + 1] = z] = Append(a, z)
<1> DEFINE n == Len(a)
           b == Append(a, x)
           c == Append(a, z)
           d == [b EXCEPT ![n + 1] = z]
<1>1. /\ n \in Nat /\ b \in Seq(P) /\ c \in Seq(P) /\ Len(b) = n + 1 /\ Len(c) = n + 1
      /\ c[n + 1] = z /\ \A i \in 1 .. n : b[i] = a[i] /\ c[i] = a[i]
  OBVIOUS
<1> HIDE DEF b, c, n
<1>2. d \in Seq(P) /\ Len(d) = n + 1 /\ \A i \in 1 .. n + 1 : d[i] = IF i = n + 1 THEN z ELSE b[i]
  BY <1>1
<1> HIDE DEF d
<1>3. \A i \in 1 .. n + 1 : d[i] = c[i]  BY <1>1, <1>2
<1>4. d = c  BY <1>1, <1>2, <1>3, SameSeq
<1> QED  BY <1>4 DEF b, c, d, n

LEMMA Closed ==
  ASSUME NEW lines \in Seq(Lines), NEW words, Firm(lines, words), NEW kept, Spells(lines, kept, 0)
  PROVE  /\ Text!Close(lines) \in Seq(Lines) /\ Firm(Text!Close(lines), words)
         /\ Spells(Text!Close(lines), kept, 0)
<1> DEFINE y == [pieces |-> <<>>, len |-> 1]
<1>1. Width \in Nat /\ 1 < Width  BY Measures
<1>2. y \in Lines /\ y.pieces = <<>> /\ y.len = 1
  <2>1. <<>> \in Seq(Pieces)  OBVIOUS
  <2> QED  BY <2>1 DEF Lines
<1>3. CASE ~ (lines # <<>> /\ Text!Last(lines).len + 1 <= Width)
  <2>1. Text!Close(lines) = Append(lines, y)  BY <1>3 DEF Text!Close
  <2> HIDE DEF y
  <2>2. lines # <<>> => lines[Len(lines)].len + 1 + FirstLen(y) > Width
    <3> SUFFICES ASSUME lines # <<>> PROVE lines[Len(lines)].len + 1 > Width
      <4>1. FirstLen(y) = 0  BY <1>2 DEF FirstLen
      <4>2. lines # <<>> => lines[Len(lines)] \in Lines  OBVIOUS
      <4>3. lines # <<>> => lines[Len(lines)].len \in Nat  BY <4>2 DEF Lines
      <4> QED  BY <4>1, <4>3
    <3>1. lines[Len(lines)] \in Lines  OBVIOUS
    <3>2. lines[Len(lines)].len \in Nat  BY <3>1 DEF Lines
    <3> QED  BY <1>1, <1>3, <3>2 DEF Text!Last
  <2>3. Sound(y, words) /\ ~ StartsWhole(y)
    <3>1. Len(y.pieces) = 0  BY <1>2
    <3> QED  BY <1>1, <1>2, <3>1 DEF Sound, StartsWhole
  <2>4. Lined(Append(lines, y), words)  BY <1>2, <2>2, <2>3, LinedAppend
  <2>5. Firm(Append(lines, y), words)  BY <1>2, <2>4, FirmAppend
  <2>6. Spells(Append(lines, y), kept, 0)  BY <1>2, Blank DEF Spells
  <2>7. Append(lines, y) \in Seq(Lines)  BY <1>2, AppendLine
  <2> QED  BY <2>1, <2>5, <2>6, <2>7
<1>4. CASE lines # <<>> /\ Text!Last(lines).len + 1 <= Width
  <2> DEFINE m == Len(lines) - 1
  <2>1. m \in Nat /\ Len(lines) = m + 1  BY <1>4
  <2> HIDE DEF m
  <2>2. PICK before \in Seq(Lines) : \E x \in Lines : lines = Append(before, x) /\ Len(before) = m
    BY <2>1, Popped
  <2>3. PICK x \in Lines : lines = Append(before, x) /\ Len(before) = m  BY <2>2
  <2> DEFINE z == [x EXCEPT !.len = @ + 1]
  <2>4. /\ z \in Lines /\ z.pieces = x.pieces /\ z.len = x.len + 1 /\ x.len \in Nat
    BY DEF Lines
  <2>5. lines[Len(lines)] = x  BY <2>3
  <2>6. Text!Close(lines) = Append(before, z)
    <3>1. Text!Close(lines) = [lines EXCEPT ![m + 1] = z]
      BY <1>4, <2>1, <2>5 DEF Text!Close
    <3> HIDE DEF z
    <3>2. [lines EXCEPT ![m + 1] = z] = Append(before, z)  BY <2>3, <2>4, Relast
    <3> QED  BY <3>1, <3>2
  <2> HIDE DEF z
  <2>7. z.len <= Width  BY <1>4, <2>4, <2>5 DEF Text!Last
  <2>8. /\ Firm(before, words) /\ Sound(x, words)
        /\ StartsWhole(x) => EndsWord(before)
        /\ before # <<>> => before[Len(before)].len + 1 + FirstLen(x) > Width
    <3>1. Lined(Append(before, x), words)  BY <2>3 DEF Firm
    <3> QED  BY <3>1, FirmLines
  <2>9. Sound(z, words) /\ StartsWhole(z) = StartsWhole(x) /\ FirstLen(z) = FirstLen(x)
    <3>1. z.len # 0  BY <2>4
    <3> QED  BY <2>4, <2>7, <2>8, <3>1 DEF Sound, StartsWhole, FirstLen
  <2>10. Lined(Append(before, z), words)  BY <2>4, <2>8, <2>9, LinedAppend
  <2>11. Firm(Append(before, z), words)
    <3>1. z.len # 0  BY <2>4
    <3> QED  BY <2>4, <2>10, <3>1, FirmAppend
  <2>12. Spells(Append(before, z), kept, 0)
    <3>1. Ink(Append(before, z)) = Ink(before) \o z.pieces  BY <2>4, InkFacts
    <3>2. Ink(Append(before, x)) = Ink(before) \o x.pieces  BY InkFacts
    <3>3. Ink(Append(before, z)) = Ink(lines)  BY <2>3, <2>4, <3>1, <3>2
    <3> QED  BY <3>3 DEF Spells, Spell
  <2>13. Append(before, z) \in Seq(Lines)  BY <2>4, AppendLine
  <2> QED  BY <2>6, <2>11, <2>12, <2>13
<1> QED  BY <1>3, <1>4

-----------------------------------------------------------------------------
(***************************************************************************)
(* The envelope spells what the message spells: a line that is too wide is *)
(* one whole word, begun where a word ended, and is cut into lines that    *)
(* spell it.                                                               *)
(***************************************************************************)
Used(words) == {words[i] : i \in 1 .. Len(words)}
Fit(lines, used) ==
  \A l \in 1 .. Len(lines) :
    /\ lines[l].len \in 1 .. Width
    /\ \A j \in 1 .. Len(lines[l].pieces) : /\ lines[l].pieces[j].len \in 1 .. lines[l].pieces[j].word.len
                                            /\ lines[l].pieces[j].word \in used

LEMMA UsedWords ==
  ASSUME NEW words, NEW w
  PROVE  Among(words, w) <=> w \in Used(words)
BY DEF Among, Used

LEMMA FitJoin ==
  ASSUME NEW a \in Seq(Lines), NEW b \in Seq(Lines), NEW used, Fit(a, used), Fit(b, used)
  PROVE  a \o b \in Seq(Lines) /\ Fit(a \o b, used)
<1> DEFINE m == Len(a)
           n == Len(b)
           c == a \o b
<1>1. /\ m \in Nat /\ n \in Nat /\ c \in Seq(Lines) /\ Len(c) = m + n
      /\ \A l \in 1 .. m : c[l] = a[l]
      /\ \A l \in 1 .. n : c[m + l] = b[l]
  BY JoinIs
<1> HIDE DEF c
<1>2. ASSUME NEW l \in 1 .. Len(c)
      PROVE  \/ \E k \in 1 .. m : c[l] = a[k]
             \/ \E k \in 1 .. n : c[l] = b[k]
  <2> HIDE DEF m, n
  <2>1. CASE l \in 1 .. m  BY <1>1, <2>1
  <2>2. CASE l \notin 1 .. m
    <3>1. l - m \in 1 .. n /\ m + (l - m) = l  BY <1>1, <2>2
    <3>2. c[m + (l - m)] = b[l - m]  BY <1>1, <3>1
    <3> QED  BY <3>1, <3>2
  <2> QED  BY <2>1, <2>2
<1>3. Fit(c, used)  BY <1>2 DEF Fit
<1> QED  BY <1>1, <1>3 DEF c

\* One word on a line of its own, wider than the line.
LEMMA WideLine ==
  ASSUME NEW p \in Pieces, p.len = p.word.len, p.len > Width
  PROVE  LET lines == Text!Wrap(0, <<p>>) IN
         /\ lines \in Seq(Lines) /\ Fit(lines, {p.word})
         /\ Spells(lines, <<p.word>>, 0)
<1> DEFINE w == p.word
           none == <<>>
           x == [pieces |-> <<>>, len |-> 0]
           base == [lines |-> <<>>, line |-> [pieces |-> <<>>, len |-> 0]]
           room == Width - x.len
           filled == Append(none, Text!Cut(x, Text!Piece(w, room))) \o Text!Chopped(p, room)
           last == Text!Tail_(p, room)
           wrapped == Text!Wrap(0, <<p>>)
           words == <<p.word>>
<1>1. Width \in Nat /\ 1 < Width  BY Measures
<1>2. w \in Words /\ p = Text!Piece(w, w.len) /\ p.len \in Nat  BY DEF Pieces, Text!Piece
<1>3. x \in Lines /\ x.pieces = <<>> /\ x.len = 0 /\ none \in Seq(Lines)
  <2>1. <<>> \in Seq(Pieces)  OBVIOUS
  <2> QED  BY <2>1 DEF Lines
<1>4. Good(Append(none, x), none, 0)  BY <1>1, <1>3, FirstLine
<1>5. Run(0, base, <<p>>) = [lines |-> filled, line |-> last]
  <2>1. Run(0, base, <<p>>) = Text!AddWord(0, base, p)
    <3>1. none \in Seq(Pieces) /\ <<p>> = Append(none, p)  OBVIOUS
    <3> HIDE DEF none, base
    <3>2. Run(0, base, Append(none, p)) = Turn(0, Run(0, base, none), p)  BY <3>1, RunNext
    <3>3. Run(0, base, none) = base  BY RunNil DEF none
    <3>4. 0 # SPELL  BY DEF SPELL
    <3>5. Turn(0, base, p) = Text!AddWord(0, base, p)  BY <3>4 DEF Turn
    <3>6. Run(0, base, <<p>>) = Run(0, base, Append(none, p))  BY <3>1
    <3> QED  BY <3>2, <3>3, <3>5, <3>6
  <2>2. base.line = x /\ base.lines = none  OBVIOUS
  <2>3. ~ (Text!Joined(x, p).len <= Width)  BY <1>1, <1>2 DEF Text!Joined
  <2> HIDE DEF base, filled, last
  <2>4. Text!AddWord(0, base, p) = [lines |-> filled, line |-> last]
    BY <1>3, <2>2, <2>3 DEF Text!AddWord, filled, last
  <2> QED  BY <2>1, <2>4
<1>6. wrapped = IF last.len = 0 \/ Text!IsLabel(last, 0) THEN filled ELSE Append(filled, last)
  <2> HIDE DEF filled, last
  <2>1. Run(0, base, <<p>>).lines = filled /\ Run(0, base, <<p>>).line = last  BY <1>5
  <2> QED  BY <2>1, WrapRuns
<1>7. /\ filled \in Seq(Lines) /\ last \in Lines
      /\ Good(Append(filled, last), Append(none, w), 0)
      /\ last.len <= Width
      /\ \A l \in Len(none) + 1 .. Len(filled) : filled[l].len = Width
  <2> HIDE DEF none, x
  <2>1. x.len < Width /\ Width - x.len <= w.len  BY <1>1, <1>2, <1>3
  <2> QED  BY <1>2, <1>3, <1>4, <2>1, LongWord
<1>8. Append(none, w) = words /\ Len(none) = 0  OBVIOUS
<1> HIDE DEF none, x, filled, last, wrapped, words
<1>9. Lined(Append(filled, last), words) /\ Spells(Append(filled, last), words, 0)
  BY <1>7, <1>8 DEF Good
<1>10. Firm(filled, words) /\ Sound(last, words)  BY <1>7, <1>9, FirmLines
<1>11. \A l \in 1 .. Len(filled) : filled[l].len = Width  BY <1>7, <1>8
<1>12. Used(words) = {w}  BY DEF Used, words
<1>13. ASSUME NEW lines \in Seq(Lines), Firm(lines, words),
              \A l \in 1 .. Len(lines) : lines[l].len <= Width
       PROVE  Fit(lines, {w})
  <2>1. ASSUME NEW l \in 1 .. Len(lines) PROVE lines[l].len \in 1 .. Width
    <3>1. lines[l].len # 0 /\ lines[l].len <= Width  BY <1>13 DEF Firm
    <3>2. lines[l] \in Lines  OBVIOUS
    <3>3. lines[l].len \in Nat  BY <3>2 DEF Lines
    <3> QED  BY <1>1, <3>1, <3>3
  <2>2. ASSUME NEW l \in 1 .. Len(lines), NEW j \in 1 .. Len(lines[l].pieces)
        PROVE  /\ lines[l].pieces[j].len \in 1 .. lines[l].pieces[j].word.len
               /\ lines[l].pieces[j].word \in {w}
    BY <1>12, <1>13, UsedWords DEF Firm, Lined, Sound
  <2> QED  BY <2>1, <2>2 DEF Fit
<1>14. CASE last.len = 0
  <2>1. wrapped = filled  BY <1>6, <1>14
  <2>2. last.pieces = <<>>  BY <1>10, <1>14 DEF Sound
  <2>3. Spells(filled, words, 0)  BY <1>7, <1>9, <2>2, Blank DEF Spells
  <2>4. \A l \in 1 .. Len(filled) : filled[l].len <= Width  BY <1>1, <1>11
  <2>5. Fit(filled, {w})  BY <1>7, <1>10, <1>13, <2>4
  <2> QED  BY <1>7, <2>1, <2>3, <2>5 DEF wrapped, words
<1>15. CASE last.len # 0
  <2> DEFINE all == Append(filled, last)
  <2>1. wrapped = all  BY <1>6, <1>15 DEF Text!IsLabel
  <2>2. Firm(all, words)  BY <1>7, <1>9, <1>15, FirmAppend
  <2>3. /\ all \in Seq(Lines) /\ Len(all) = Len(filled) + 1 /\ all[Len(filled) + 1] = last
        /\ Len(filled) \in Nat /\ \A l \in 1 .. Len(filled) : all[l] = filled[l]
    BY <1>7, AppendLine
  <2>4. Spells(all, words, 0)  BY <1>9
  <2> HIDE DEF all
  <2>5. \A l \in 1 .. Len(all) : all[l].len <= Width  BY <1>1, <1>7, <1>11, <2>3
  <2>6. Fit(all, {w})  BY <1>13, <2>2, <2>3, <2>5
  <2> QED  BY <2>1, <2>3, <2>4, <2>6 DEF wrapped, words
<1> QED  BY <1>14, <1>15

\* What a word does to a spelling that is complete so far.
LEMMA WholeNext ==
  ASSUME NEW d \in [words : Seq(Words), open : Int], d.open = 0, NEW p \in Pieces,
         p.len = p.word.len, NEW lines, Spells(lines, <<p.word>>, 0)
  PROVE  Run(SPELL, d, Ink(lines)) = Run(SPELL, d, <<p>>)
<1> DEFINE u == d.words
           w == p.word
           none == <<>>
<1>1. d = Text!Whole(u) /\ u \in Seq(Words) /\ w \in Words
  BY DEF Text!Whole, Pieces
<1>2. Run(SPELL, d, Ink(lines)) = [words |-> u \o <<w>>, open |-> 0]
  BY <1>1 DEF Spells, Spell
<1>3. Run(SPELL, d, <<p>>) = Put(d, p)
  <2>1. none \in Seq(Pieces) /\ <<p>> = Append(none, p)  OBVIOUS
  <2> HIDE DEF none
  <2>2. Run(SPELL, d, Append(none, p)) = Turn(SPELL, Run(SPELL, d, none), p)  BY <2>1, RunNext
  <2>3. Run(SPELL, d, none) = d  BY RunNil DEF none
  <2>4. Run(SPELL, d, <<p>>) = Run(SPELL, d, Append(none, p))  BY <2>1
  <2>5. Turn(SPELL, d, p) = Put(d, p)  BY DEF Turn
  <2> QED  BY <2>2, <2>3, <2>4, <2>5
<1>4. Put(d, p) = [words |-> Append(u, w), open |-> 0]
  <2>1. p.word.len - p.len = 0  BY <1>1, Measures
  <2> QED  BY <2>1 DEF Put
<1>5. Append(u, w) = u \o <<w>>  BY <1>1
<1> QED  BY <1>2, <1>3, <1>4, <1>5

\* One line of the message in the envelope.
LEMMA Rewrapped ==
  ASSUME NEW x \in Lines, NEW words, Sound(x, words), x.len # 0,
         NEW d \in [words : Seq(Words), open : Int], StartsWhole(x) => d.open = 0
  PROVE  /\ Text!Rewrap(x) \in Seq(Lines) /\ Fit(Text!Rewrap(x), Used(words))
         /\ Run(SPELL, d, Ink(Text!Rewrap(x))) = Run(SPELL, d, x.pieces)
<1>1. x.len \in Nat /\ x.pieces \in Seq(Pieces) /\ Width \in Nat  BY Measures DEF Lines
<1>2. CASE x.len <= Width
  <2> DEFINE r == <<x>>
  <2>1. Text!Rewrap(x) = r  BY <1>2 DEF Text!Rewrap
  <2>2. r \in Seq(Lines) /\ Len(r) = 1 /\ r[1] = x  OBVIOUS
  <2>3. Ink(r) = x.pieces
    <3>1. In(r) = <<x.pieces>>  BY DEF In
    <3>2. Ink(r) = Text!FlattenSeq(In(r))  BY DEF Ink, In
    <3> QED  BY <1>1, <3>1, <3>2, FlatOne
  <2> HIDE DEF r
  <2>4. Fit(r, Used(words))  BY <1>1, <1>2, <2>2, UsedWords DEF Fit, Sound
  <2> QED  BY <2>1, <2>2, <2>3, <2>4
<1>3. CASE ~ (x.len <= Width)
  <2> DEFINE p == x.pieces[1]
             r == Text!Wrap(0, <<p>>)
  <2>1. Wide(x)  BY <1>3 DEF Sound
  <2>2. x.pieces = <<p>> /\ p \in Pieces  BY <1>1, <2>1 DEF Wide
  <2>3. Text!Rewrap(x) = r  BY <1>3, <2>2 DEF Text!Rewrap
  <2>4. p.len = p.word.len /\ p.len = x.len /\ StartsWhole(x)  BY <2>1 DEF Wide, StartsWhole
  <2>5. p.len > Width  BY <1>1, <1>3, <2>4
  <2>6. p.word \in Used(words)
    <3>1. 1 \in 1 .. Len(x.pieces)  BY <2>2
    <3> QED  BY <3>1, UsedWords DEF Sound
  <2> HIDE DEF p
  <2>7. r \in Seq(Lines) /\ Fit(r, {p.word}) /\ Spells(r, <<p.word>>, 0)
    BY <2>2, <2>4, <2>5, WideLine
  <2> HIDE DEF r
  <2>8. Fit(r, Used(words))  BY <2>6, <2>7 DEF Fit
  <2>9. Run(SPELL, d, Ink(r)) = Run(SPELL, d, <<p>>)  BY <2>2, <2>4, <2>7, WholeNext
  <2> QED  BY <2>2, <2>3, <2>7, <2>8, <2>9
<1> QED  BY <1>2, <1>3

Each(lines) == [i \in DOMAIN lines |-> Text!Rewrap(lines[i])]
Enveloped(lines) == Text!FlattenSeq(Each(lines))

LEMMA EachNext ==
  ASSUME NEW lines \in Seq(Lines), NEW x \in Lines, Each(lines) \in Seq(Seq(Lines)),
         Text!Rewrap(x) \in Seq(Lines)
  PROVE  /\ Each(Append(lines, x)) = Append(Each(lines), Text!Rewrap(x))
         /\ Each(Append(lines, x)) \in Seq(Seq(Lines))
         /\ Enveloped(Append(lines, x)) = Enveloped(lines) \o Text!Rewrap(x)
<1> DEFINE m == Len(lines)
           v == Append(lines, x)
           r == Text!Rewrap(x)
           a == Each(lines)
           b == Each(v)
           P == Seq(Lines)
           c == Append(a, r)
<1>1. /\ v \in Seq(Lines) /\ m \in Nat /\ Len(v) = m + 1 /\ v[m + 1] = x
      /\ \A l \in 1 .. m : v[l] = lines[l]
  BY AppendLine
<1>2. a \in Seq(P) /\ r \in P /\ Len(a) = m /\ \A l \in 1 .. m : a[l] = Text!Rewrap(lines[l])
  BY DEF Each
<1> HIDE DEF v, r, m
<1>3. b = [i \in 1 .. m + 1 |-> Text!Rewrap(v[i])]  BY <1>1 DEF Each
<1> HIDE DEF a, b, P
<1>4. c \in Seq(P) /\ Len(c) = m + 1 /\ c[m + 1] = r /\ \A l \in 1 .. m : c[l] = a[l]
  BY <1>1, <1>2
<1> HIDE DEF c
<1>5. \A l \in 1 .. m + 1 : c[l] = Text!Rewrap(v[l])
  <2> SUFFICES ASSUME NEW l \in 1 .. m + 1 PROVE c[l] = Text!Rewrap(v[l])
    OBVIOUS
  <2>1. CASE l = m + 1  BY <1>1, <1>4, <2>1 DEF r
  <2>2. CASE l # m + 1
    <3>1. l \in 1 .. m  BY <1>1, <2>2
    <3> QED  BY <1>1, <1>2, <1>4, <3>1
  <2> QED  BY <2>1, <2>2
<1>6. c = b
  <2>1. c = [l \in 1 .. m + 1 |-> c[l]]  BY <1>4
  <2> QED  BY <1>3, <1>5, <2>1
<1>7. Text!FlattenSeq(Append(a, r)) = Text!FlattenSeq(a) \o r
  <2>1. a \in Seq(Seq(Lines)) /\ r \in Seq(Lines)  BY <1>2 DEF P
  <2> QED  BY <2>1, FlatNext
<1> QED  BY <1>4, <1>6, <1>7 DEF a, b, c, r, v, P, Enveloped

LEMMA SpellNext ==
  ASSUME NEW lines \in Seq(Lines), NEW x \in Lines, NEW u \in Seq(Words)
  PROVE  Spell(u, Append(lines, x)) = Run(SPELL, Spell(u, lines), x.pieces)
<1> DEFINE base == Text!Whole(u)
           a == Ink(lines)
           b == x.pieces
<1>1. a \in Seq(Pieces) /\ b \in Seq(Pieces) /\ Ink(Append(lines, x)) = a \o b
  BY InkFacts DEF Lines
<1> HIDE DEF base, a, b
<1>2. Run(SPELL, base, a \o b) = Run(SPELL, Run(SPELL, base, a), b)  BY <1>1, RunJoin
<1> QED  BY <1>1, <1>2 DEF Spell, base, a, b

LEMMA SpellJoin ==
  ASSUME NEW lines \in Seq(Lines), NEW more \in Seq(Lines), NEW u \in Seq(Words)
  PROVE  Spell(u, lines \o more) = Run(SPELL, Spell(u, lines), Ink(more))
<1> DEFINE base == Text!Whole(u)
           a == Ink(lines)
           b == Ink(more)
<1>1. a \in Seq(Pieces) /\ b \in Seq(Pieces) /\ Ink(lines \o more) = a \o b
  BY InkFacts
<1> HIDE DEF base, a, b
<1>2. Run(SPELL, base, a \o b) = Run(SPELL, Run(SPELL, base, a), b)  BY <1>1, RunJoin
<1> QED  BY <1>1, <1>2 DEF Spell, base, a, b

\* The lines of one item.
LEMMA EnvelopeOf ==
  ASSUME NEW lines \in Seq(Lines), NEW words, Firm(lines, words)
  PROVE  /\ Each(lines) \in Seq(Seq(Lines)) /\ Enveloped(lines) \in Seq(Lines)
         /\ Fit(Enveloped(lines), Used(words))
         /\ \A u \in Seq(Words) : Spell(u, Enveloped(lines)) = Spell(u, lines)
<1> DEFINE T(v) == /\ Each(v) \in Seq(Seq(Lines)) /\ Enveloped(v) \in Seq(Lines)
                   /\ Fit(Enveloped(v), Used(words))
                   /\ \A u \in Seq(Words) : Spell(u, Enveloped(v)) = Spell(u, v)
           S == {m \in Nat : \A v \in Seq(Lines) : Len(v) = m /\ Firm(v, words) => T(v)}
<1>1. 0 \in S
  <2> DEFINE none == <<>>
  <2>1. none \in Seq(Seq(Lines)) /\ none \in Seq(Lines) /\ Len(none) = 0  OBVIOUS
  <2>2. Each(none) = none  BY DEF Each
  <2>3. Enveloped(none) = none  BY <2>2, FlatNil DEF Enveloped
  <2> HIDE DEF none
  <2>4. T(none)  BY <2>1, <2>2, <2>3 DEF Fit
  <2>5. \A v \in Seq(Lines) : Len(v) = 0 => v = none  BY DEF none
  <2> HIDE DEF T
  <2> QED  BY <2>4, <2>5
<1>2. ASSUME NEW m \in S PROVE m + 1 \in S
  <2> SUFFICES ASSUME NEW v \in Seq(Lines), Len(v) = m + 1, Firm(v, words) PROVE T(v)
    <3> HIDE DEF T
    <3> QED  OBVIOUS
  <2>1. m \in Nat  OBVIOUS
  <2> HIDE DEF T
  <2>2. \A q \in Seq(Lines) : Len(q) = m /\ Firm(q, words) => T(q)  OBVIOUS
  <2> HIDE DEF S
  <2>3. PICK q \in Seq(Lines) : \E x \in Lines : v = Append(q, x) /\ Len(q) = m
    BY <2>1, Popped
  <2>4. PICK x \in Lines : v = Append(q, x) /\ Len(q) = m  BY <2>3
  <2> DEFINE r == Text!Rewrap(x)
             e == Enveloped(q)
  <2>5. /\ Firm(q, words) /\ Sound(x, words)
        /\ StartsWhole(x) => EndsWord(q)
    <3>1. Lined(Append(q, x), words)  BY <2>4 DEF Firm
    <3> QED  BY <3>1, FirmLines
  <2>6. x.len # 0
    <3>1. v[Len(v)] = x /\ Len(v) \in 1 .. Len(v)  BY <2>1, <2>4
    <3> QED  BY <3>1 DEF Firm
  <2>7. /\ Each(q) \in Seq(Seq(Lines)) /\ e \in Seq(Lines) /\ Fit(e, Used(words))
        /\ \A u \in Seq(Words) : Spell(u, e) = Spell(u, q)
    BY <2>2, <2>4, <2>5 DEF T
  <2>8. ASSUME NEW u \in Seq(Words)
        PROVE  /\ Spell(u, q) \in [words : Seq(Words), open : Int]
               /\ StartsWhole(x) => Spell(u, q).open = 0
    <3>1. Ink(q) \in Seq(Pieces)  BY InkFacts
    <3>2. Spell(u, q) \in [words : Seq(Words), open : Int]  BY <3>1, SpellType DEF Spell
    <3> QED  BY <2>5, <3>2 DEF EndsWord
  <2>9. ASSUME NEW u \in Seq(Words)
        PROVE  /\ r \in Seq(Lines) /\ Fit(r, Used(words))
               /\ Run(SPELL, Spell(u, q), Ink(r)) = Run(SPELL, Spell(u, q), x.pieces)
    <3> DEFINE d == Spell(u, q)
    <3>1. d \in [words : Seq(Words), open : Int] /\ (StartsWhole(x) => d.open = 0)  BY <2>8
    <3> HIDE DEF d
    <3>2. /\ r \in Seq(Lines) /\ Fit(r, Used(words))
          /\ Run(SPELL, d, Ink(r)) = Run(SPELL, d, x.pieces)
      BY <2>5, <2>6, <3>1, Rewrapped
    <3> QED  BY <3>2 DEF d
  <2>10. r \in Seq(Lines) /\ Fit(r, Used(words))
    <3>1. <<>> \in Seq(Words)  OBVIOUS
    <3> QED  BY <2>9, <3>1
  <2>11. Each(v) \in Seq(Seq(Lines)) /\ Enveloped(v) = e \o r
    BY <2>4, <2>7, <2>10, EachNext
  <2> HIDE DEF e, r
  <2>12. e \o r \in Seq(Lines) /\ Fit(e \o r, Used(words))  BY <2>7, <2>10, FitJoin
  <2>13. ASSUME NEW u \in Seq(Words) PROVE Spell(u, e \o r) = Spell(u, v)
    <3>1. Spell(u, e \o r) = Run(SPELL, Spell(u, e), Ink(r))  BY <2>7, <2>10, SpellJoin
    <3>2. Spell(u, v) = Run(SPELL, Spell(u, q), x.pieces)  BY <2>4, SpellNext
    <3>3. Spell(u, e) = Spell(u, q)  BY <2>7
    <3>4. Run(SPELL, Spell(u, q), Ink(r)) = Run(SPELL, Spell(u, q), x.pieces)  BY <2>9
    <3> QED  BY <3>1, <3>2, <3>3, <3>4
  <2> QED  BY <2>11, <2>12, <2>13 DEF T
<1> HIDE DEF S, T
<1>3. S = Nat  BY <1>1, <1>2, Induct DEF S
<1> QED  BY <1>3 DEF S, T

LEMMA EachJoin ==
  ASSUME NEW a \in Seq(Lines), NEW b \in Seq(Lines),
         Each(a) \in Seq(Seq(Lines)), Each(b) \in Seq(Seq(Lines))
  PROVE  Enveloped(a \o b) = Enveloped(a) \o Enveloped(b)
<1> DEFINE m == Len(a)
           n == Len(b)
           v == a \o b
           P == Seq(Lines)
           ea == Each(a)
           eb == Each(b)
           ev == Each(v)
           c == ea \o eb
<1>1. /\ v \in Seq(Lines) /\ m \in Nat /\ n \in Nat /\ Len(v) = m + n
      /\ \A l \in 1 .. m : v[l] = a[l]
      /\ \A l \in 1 .. n : v[m + l] = b[l]
  BY JoinIs
<1>2. /\ ea \in Seq(P) /\ Len(ea) = m /\ \A l \in 1 .. m : ea[l] = Text!Rewrap(a[l])
      /\ eb \in Seq(P) /\ Len(eb) = n /\ \A l \in 1 .. n : eb[l] = Text!Rewrap(b[l])
  BY DEF Each
<1> HIDE DEF v, m, n
<1>3. ev = [i \in 1 .. m + n |-> Text!Rewrap(v[i])]  BY <1>1 DEF Each
<1> HIDE DEF ea, eb, ev, P
<1>4. /\ c \in Seq(P) /\ Len(c) = m + n
      /\ \A l \in 1 .. m : c[l] = ea[l]
      /\ \A l \in 1 .. n : c[m + l] = eb[l]
  <2>1. c = ea \o eb  OBVIOUS
  <2> HIDE DEF c
  <2>2. ea \in Seq(P) /\ eb \in Seq(P)  BY <1>2
  <2>3. /\ c \in Seq(P) /\ Len(c) = Len(ea) + Len(eb)
        /\ \A l \in 1 .. Len(ea) : c[l] = ea[l]
        /\ \A l \in 1 .. Len(eb) : c[Len(ea) + l] = eb[l]
    BY <2>1, <2>2
  <2> QED  BY <1>2, <2>3
<1> HIDE DEF c
<1>5. ASSUME NEW l \in 1 .. m + n PROVE c[l] = Text!Rewrap(v[l])
  <2>1. CASE l \in 1 .. m  BY <1>1, <1>2, <1>4, <2>1
  <2>2. CASE l \notin 1 .. m
    <3>1. l - m \in 1 .. n /\ m + (l - m) = l  BY <1>1, <2>2
    <3>2. /\ v[m + (l - m)] = b[l - m] /\ c[m + (l - m)] = eb[l - m]
          /\ eb[l - m] = Text!Rewrap(b[l - m])
      BY <1>1, <1>2, <1>4, <3>1
    <3> QED  BY <3>1, <3>2
  <2> QED  BY <2>1, <2>2
<1>6. c = ev
  <2>1. c = [i \in 1 .. m + n |-> c[i]]  BY <1>4
  <2> QED  BY <1>3, <1>5, <2>1
<1>7. Text!FlattenSeq(ea \o eb) = Text!FlattenSeq(ea) \o Text!FlattenSeq(eb)
  <2>1. ea \in Seq(Seq(Lines)) /\ eb \in Seq(Seq(Lines))  BY <1>2 DEF P
  <2> QED  BY <2>1, FlatJoin
<1> QED  BY <1>6, <1>7 DEF ea, eb, ev, c, v, Enveloped

-----------------------------------------------------------------------------
(***************************************************************************)
(* The items, what Format makes of them, and BuildEnvelope of that.        *)
(***************************************************************************)
LEMMA ItemsAre ==
  ASSUME NEW it \in Text!Items
  PROVE  /\ it \in Seq(Seq(Words)) /\ Len(it) \in 1 .. 2
         /\ \A i \in 1 .. Len(it) : it[i] \in Seq(Words) /\ it[i] # <<>>
<1>1. ASSUME NEW e \in Text!Texts PROVE e \in Seq(Words) /\ e # <<>>
  <2>1. PICK n \in 1 .. MaxWords : e \in [1 .. n -> Words]  BY DEF Text!Texts
  <2>2. n \in Nat /\ n # 0  BY Measures
  <2>3. e \in Seq(Words) /\ Len(e) = n  BY <2>1, <2>2
  <2> QED  BY <2>2, <2>3
<1>2. CASE \E e \in Text!Texts : it = <<e>>
  <2>1. PICK e \in Text!Texts : it = <<e>>  BY <1>2
  <2>2. e \in Seq(Words) /\ e # <<>>  BY <1>1
  <2> QED  BY <2>1, <2>2
<1>3. CASE \E d \in Words : \E e \in Text!Texts : it = <<<<d>>, e>>
  <2>1. PICK d \in Words : \E e \in Text!Texts : it = <<<<d>>, e>>  BY <1>3
  <2>2. PICK e \in Text!Texts : it = <<<<d>>, e>>  BY <2>1
  <2> DEFINE f == <<d>>
  <2>3. f \in Seq(Words) /\ f # <<>>  OBVIOUS
  <2>4. e \in Seq(Words) /\ e # <<>>  BY <1>1
  <2>5. it = <<f, e>>  BY <2>2
  <2> HIDE DEF f
  <2> QED  BY <2>3, <2>4, <2>5
<1> QED  BY <1>2, <1>3 DEF Text!Items

Kept(lines, item) == \E kept : Keeps(item, kept) /\ Spells(lines, kept, 0)
Laid(it, msg) ==
  /\ msg \in Seq(Seq(Lines)) /\ Len(msg) = Len(it)
  /\ \A i \in 1 .. Len(it) : msg[i] \in Seq(Lines) /\ Firm(msg[i], it[i]) /\ Kept(msg[i], it[i])

LEMMA Lays ==
  ASSUME NEW it \in Text!Items
  PROVE  Laid(it, [[i \in DOMAIN it |-> Text!Wrap(Label, Typed(it[i]))]
                     EXCEPT ![Len(it)] = Text!Close(@)])
<1> DEFINE n == Len(it)
           w == [i \in DOMAIN it |-> Text!Wrap(Label, Typed(it[i]))]
           msg == [w EXCEPT ![n] = Text!Close(@)]
<1>1. n \in 1 .. 2 /\ DOMAIN it = 1 .. n /\ n \in 1 .. n
  <2>1. it \in Seq(Seq(Words)) /\ n \in 1 .. 2  BY ItemsAre
  <2>2. DOMAIN it = 1 .. n  BY <2>1
  <2> HIDE DEF n
  <2> QED  BY <2>1, <2>2
<1>2. ASSUME NEW i \in 1 .. n
      PROVE  w[i] \in Seq(Lines) /\ Firm(w[i], it[i]) /\ Kept(w[i], it[i])
  <2>1. it[i] \in Seq(Words) /\ it[i] # <<>>  BY ItemsAre
  <2>2. w[i] = Text!Wrap(Label, Typed(it[i]))  BY <1>1
  <2> HIDE DEF w
  <2> QED  BY <2>1, <2>2, WrapItem DEF Kept
<1>3. DOMAIN w = 1 .. n  BY <1>1
<1> HIDE DEF w, n
<1>4. ASSUME NEW i \in 1 .. n
      PROVE  msg[i] \in Seq(Lines) /\ Firm(msg[i], it[i]) /\ Kept(msg[i], it[i])
  <2>1. CASE i = n
    <3>1. msg[i] = Text!Close(w[i])  BY <1>3, <2>1
    <3>2. PICK kept : Keeps(it[i], kept) /\ Spells(w[i], kept, 0)  BY <1>2 DEF Kept
    <3> HIDE DEF msg
    <3>3. /\ msg[i] \in Seq(Lines) /\ Firm(msg[i], it[i]) /\ Spells(msg[i], kept, 0)
      BY <1>2, <3>1, <3>2, Closed
    <3> QED  BY <3>2, <3>3 DEF Kept
  <2>2. CASE i # n
    <3>1. msg[i] = w[i]  BY <1>3, <2>2
    <3> QED  BY <1>2, <3>1
  <2> QED  BY <2>1, <2>2
<1>5. msg = [i \in 1 .. n |-> msg[i]]  BY <1>3
<1> HIDE DEF msg
<1>6. msg \in Seq(Seq(Lines)) /\ Len(msg) = n  BY <1>1, <1>4, <1>5
<1>7. Laid(it, msg)  BY <1>4, <1>6 DEF Laid, n
<1> QED  BY <1>7 DEF msg, w, n

AllUsed(it) == UNION {Used(it[i]) : i \in 1 .. Len(it)}
Posted(it, msg, env) ==
  /\ env \in Seq(Lines) /\ Fit(env, AllUsed(it))
  /\ \A u \in Seq(Words) : Spell(u, env) = Spell(u, Text!FlattenSeq(msg))

LEMMA Posts ==
  ASSUME NEW it \in Text!Items, NEW msg, Laid(it, msg)
  PROVE  Posted(it, msg, Enveloped(Text!FlattenSeq(msg)))
<1>1. /\ Len(it) \in 1 .. 2 /\ Len(msg) = Len(it) /\ msg \in Seq(Seq(Lines))
      /\ \A i \in 1 .. Len(it) : msg[i] \in Seq(Lines) /\ Firm(msg[i], it[i]) /\ Kept(msg[i], it[i])
  BY ItemsAre DEF Laid
<1>2. ASSUME NEW i \in 1 .. Len(it)
      PROVE  /\ Each(msg[i]) \in Seq(Seq(Lines)) /\ Enveloped(msg[i]) \in Seq(Lines)
             /\ Fit(Enveloped(msg[i]), AllUsed(it))
             /\ \A u \in Seq(Words) : Spell(u, Enveloped(msg[i])) = Spell(u, msg[i])
  <2> DEFINE lines == msg[i]
             item == it[i]
  <2>1. lines \in Seq(Lines) /\ Firm(lines, item)  BY <1>1
  <2>2. Used(item) \subseteq AllUsed(it)  BY DEF AllUsed
  <2> HIDE DEF lines, item
  <2>3. /\ Each(lines) \in Seq(Seq(Lines)) /\ Enveloped(lines) \in Seq(Lines)
        /\ Fit(Enveloped(lines), Used(item))
        /\ \A u \in Seq(Words) : Spell(u, Enveloped(lines)) = Spell(u, lines)
    BY <2>1, EnvelopeOf
  <2>4. Fit(Enveloped(lines), AllUsed(it))
    <3> DEFINE e == Enveloped(lines)
    <3> HIDE DEF e
    <3>1. Fit(e, Used(item))  BY <2>3 DEF e
    <3>2. Fit(e, AllUsed(it))  BY <2>2, <3>1 DEF Fit
    <3> QED  BY <3>2 DEF e
  <2> QED  BY <2>3, <2>4 DEF lines
<1>3. CASE Len(it) = 1
  <2> DEFINE a == msg[1]
  <2>1. msg = <<a>> /\ a \in Seq(Lines)  BY <1>1, <1>3
  <2> HIDE DEF a
  <2>2. Text!FlattenSeq(msg) = a  BY <2>1, FlatOne
  <2>3. /\ Enveloped(a) \in Seq(Lines) /\ Fit(Enveloped(a), AllUsed(it))
        /\ \A u \in Seq(Words) : Spell(u, Enveloped(a)) = Spell(u, a)
    BY <1>2, <1>3 DEF a
  <2> QED  BY <2>2, <2>3 DEF Posted
<1>4. CASE Len(it) = 2
  <2> DEFINE a == msg[1]
             b == msg[2]
             one == <<a>>
             ea == Enveloped(a)
             eb == Enveloped(b)
  <2>1. msg = <<a, b>> /\ a \in Seq(Lines) /\ b \in Seq(Lines)  BY <1>1, <1>4
  <2>2. one \in Seq(Seq(Lines)) /\ msg = Append(one, b)
    <3> HIDE DEF a, b
    <3> QED  BY <2>1
  <2>3. /\ Each(a) \in Seq(Seq(Lines)) /\ ea \in Seq(Lines) /\ Fit(ea, AllUsed(it))
        /\ \A u \in Seq(Words) : Spell(u, ea) = Spell(u, a)
        /\ Each(b) \in Seq(Seq(Lines)) /\ eb \in Seq(Lines) /\ Fit(eb, AllUsed(it))
        /\ \A u \in Seq(Words) : Spell(u, eb) = Spell(u, b)
    BY <1>2, <1>4
  <2>4. PICK kept \in Seq(Words) : Spells(a, kept, 0)
    <3>1. Kept(a, it[1])  BY <1>1, <1>4
    <3> QED  BY <3>1 DEF Kept, Keeps
  <2> HIDE DEF a, b
  <2>5. Text!FlattenSeq(one) = a  BY <2>1, FlatOne
  <2> HIDE DEF one, ea, eb
  <2>6. Text!FlattenSeq(msg) = a \o b  BY <2>1, <2>2, <2>5, FlatNext
  <2>7. Enveloped(a \o b) = ea \o eb  BY <2>1, <2>3, EachJoin DEF ea, eb
  <2>8. ea \o eb \in Seq(Lines) /\ Fit(ea \o eb, AllUsed(it))  BY <2>3, FitJoin
  <2>9. ASSUME NEW u \in Seq(Words) PROVE Spell(u, ea \o eb) = Spell(u, a \o b)
    <3> DEFINE v == u \o kept
    <3>1. v \in Seq(Words)  OBVIOUS
    <3>2. Spell(u, ea \o eb) = Run(SPELL, Spell(u, ea), Ink(eb))  BY <2>3, SpellJoin
    <3>3. Spell(u, a \o b) = Run(SPELL, Spell(u, a), Ink(b))  BY <2>1, SpellJoin
    <3>4. Spell(u, a) = Text!Whole(v)  BY <2>4 DEF Spells, Text!Whole
    <3>5. Spell(u, ea) = Text!Whole(v)  BY <2>3, <3>4
    <3> HIDE DEF v
    <3>6. Spell(v, eb) = Spell(v, b)  BY <2>3, <3>1
    <3> QED  BY <3>2, <3>3, <3>4, <3>5, <3>6 DEF Spell
  <2> QED  BY <2>6, <2>7, <2>8, <2>9 DEF Posted
<1> QED  BY <1>1, <1>3, <1>4

-----------------------------------------------------------------------------
(***************************************************************************)
(* The inductive invariant of the text and what follows from it.           *)
(***************************************************************************)
TextInv ==
  /\ items \in Text!Items
  /\ stage \in {"typed", "formatted", "ready", "failed"}
  /\ stage = "typed" => message = <<>>
  /\ stage \in {"typed", "formatted"} => envelope = <<>>
  /\ stage # "typed" => Laid(items, message)
  /\ stage \in {"ready", "failed"} => Posted(items, message, envelope)
  /\ stage = "failed" => ~ Text!Ita2(envelope)

LEMMA SpeltSpells ==
  ASSUME NEW lines
  PROVE  Text!Spelt(lines) = Spell(<<>>, lines)
BY SpeltRuns DEF Spell

LEMMA KeptText == TextInv => Text!TextIsKept
<1> SUFFICES ASSUME TextInv, stage # "typed"
             PROVE  /\ \A i \in DOMAIN items :
                         \/ Text!Spelt(message[i]) = Text!Whole(items[i])
                         \/ /\ Text!Last(items[i]).label
                            /\ Text!Spelt(message[i]) = Text!Whole(Text!Front(items[i]))
                    /\ envelope # <<>> => Text!Spelt(envelope) = Text!Spelt(Text!FlattenSeq(message))
  BY DEF Text!TextIsKept
<1>1. items \in Text!Items /\ Laid(items, message)  BY DEF TextInv
<1>2. <<>> \in Seq(Words)  OBVIOUS
<1>3. ASSUME NEW i \in DOMAIN items
      PROVE  \/ Text!Spelt(message[i]) = Text!Whole(items[i])
             \/ /\ Text!Last(items[i]).label
                /\ Text!Spelt(message[i]) = Text!Whole(Text!Front(items[i]))
  <2>1. i \in 1 .. Len(items)
    <3>1. items \in Seq(Seq(Words))  BY <1>1, ItemsAre
    <3> QED  BY <3>1
  <2>2. PICK kept : Keeps(items[i], kept) /\ Spells(message[i], kept, 0)
    BY <1>1, <2>1 DEF Laid, Kept
  <2>3. Spell(<<>>, message[i]) = [words |-> <<>> \o kept, open |-> 0]
    BY <1>2, <2>2 DEF Spells
  <2>4. kept \in Seq(Words) /\ <<>> \o kept = kept  BY <2>2 DEF Keeps
  <2>5. Text!Spelt(message[i]) = Text!Whole(kept)  BY <2>3, <2>4, SpeltSpells DEF Text!Whole
  <2> QED  BY <2>2, <2>5 DEF Keeps
<1>4. ASSUME envelope # <<>>
      PROVE  Text!Spelt(envelope) = Text!Spelt(Text!FlattenSeq(message))
  <2>1. Posted(items, message, envelope)  BY <1>4 DEF TextInv
  <2> QED  BY <1>2, <2>1, SpeltSpells DEF Posted
<1> QED  BY <1>3, <1>4

LEMMA FullLines == TextInv => Text!LinesAreFull
<1> SUFFICES ASSUME TextInv, NEW i \in DOMAIN message, NEW l \in 2 .. Len(message[i]),
                    message[i][l].pieces # <<>>
             PROVE  message[i][l - 1].len + 1 + message[i][l].pieces[1].len > Width
  BY DEF Text!LinesAreFull
<1>1. stage # "typed"  BY DEF TextInv
<1>2. Laid(items, message)  BY <1>1 DEF TextInv
<1>3. i \in 1 .. Len(items)
  <2>1. message \in Seq(Seq(Lines)) /\ Len(message) = Len(items)  BY <1>2 DEF Laid
  <2> QED  BY <2>1
<1>4. Lined(message[i], items[i])  BY <1>2, <1>3 DEF Laid, Firm
<1>5. FirstLen(message[i][l]) = message[i][l].pieces[1].len  BY DEF FirstLen
<1> QED  BY <1>4, <1>5 DEF Lined

LEMMA SentText == TextInv => Text!TransmittableIsSent
<1> SUFFICES ASSUME TextInv, stage = "failed"
             PROVE  \E i \in DOMAIN items : \E j \in DOMAIN items[i] : ~ items[i][j].ita2
  BY DEF Text!TransmittableIsSent
<1>1. /\ items \in Text!Items /\ Posted(items, message, envelope)
      /\ ~ Text!Ita2(envelope)
  BY DEF TextInv
<1>2. envelope \in Seq(Lines) /\ Fit(envelope, AllUsed(items))  BY <1>1 DEF Posted
<1>3. PICK l \in DOMAIN envelope :
        ~ (envelope[l].len <= Width /\ \A j \in DOMAIN envelope[l].pieces : envelope[l].pieces[j].word.ita2)
  BY <1>1 DEF Text!Ita2
<1>4. l \in 1 .. Len(envelope) /\ envelope[l] \in Lines  BY <1>2
<1>5. envelope[l].len <= Width  BY <1>2, <1>4, Measures DEF Fit
<1>6. PICK j \in DOMAIN envelope[l].pieces : ~ envelope[l].pieces[j].word.ita2
  BY <1>3, <1>5
<1>7. j \in 1 .. Len(envelope[l].pieces)
  <2>1. envelope[l].pieces \in Seq(Pieces)  BY <1>4 DEF Lines
  <2> QED  BY <2>1
<1>8. envelope[l].pieces[j].word \in AllUsed(items)  BY <1>2, <1>4, <1>7 DEF Fit
<1>9. PICK i \in 1 .. Len(items) : envelope[l].pieces[j].word \in Used(items[i])
  BY <1>8 DEF AllUsed
<1>10. PICK k \in 1 .. Len(items[i]) : items[i][k] = envelope[l].pieces[j].word
  BY <1>9 DEF Used
<1>11. i \in DOMAIN items /\ k \in DOMAIN items[i]
  <2>1. items \in Seq(Seq(Words)) /\ items[i] \in Seq(Words)  BY <1>1, ItemsAre
  <2> QED  BY <2>1
<1> QED  BY <1>6, <1>10, <1>11

LEMMA TextTypes == TextInv => Text!TypeOK
<1> SUFFICES ASSUME TextInv PROVE Text!TypeOK
  OBVIOUS
<1> DEFINE Fine(line) == /\ line.len \in Nat \ {0}
                         /\ \A piece \in Text!Range(line.pieces) : piece.len \in 1 .. piece.word.len
<1>1. ASSUME NEW line \in Lines, line.len # 0,
             \A j \in 1 .. Len(line.pieces) : line.pieces[j].len \in 1 .. line.pieces[j].word.len
      PROVE  Fine(line)
  <2>1. line.len \in Nat /\ line.pieces \in Seq(Pieces)  BY DEF Lines
  <2>2. DOMAIN line.pieces = 1 .. Len(line.pieces)  BY <2>1
  <2> QED  BY <1>1, <2>1, <2>2 DEF Text!Range
<1> HIDE DEF Fine
<1>2. ASSUME NEW lines \in Text!Range(message), NEW line \in Text!Range(lines) PROVE Fine(line)
  <2>1. PICK i \in DOMAIN message : lines = message[i]  BY DEF Text!Range
  <2>2. stage # "typed"  BY DEF TextInv
  <2>3. Laid(items, message)  BY <2>2 DEF TextInv
  <2>4. i \in 1 .. Len(items)
    <3>1. message \in Seq(Seq(Lines)) /\ Len(message) = Len(items)  BY <2>3 DEF Laid
    <3> QED  BY <3>1
  <2>5. lines \in Seq(Lines) /\ Firm(lines, items[i])  BY <2>1, <2>3, <2>4 DEF Laid
  <2>6. PICK l \in 1 .. Len(lines) : line = lines[l]  BY <2>5 DEF Text!Range
  <2>7. line \in Lines  BY <2>5, <2>6
  <2>8. Sound(line, items[i]) /\ line.len # 0  BY <2>5, <2>6 DEF Firm, Lined
  <2> QED  BY <1>1, <2>7, <2>8 DEF Sound
<1>3. ASSUME NEW line \in Text!Range(envelope) PROVE Fine(line)
  <2>1. PICK l \in DOMAIN envelope : line = envelope[l]  BY DEF Text!Range
  <2>2. stage \in {"ready", "failed"}  BY <2>1 DEF TextInv
  <2>3. envelope \in Seq(Lines) /\ Fit(envelope, AllUsed(items))  BY <2>2 DEF TextInv, Posted
  <2>4. l \in 1 .. Len(envelope) /\ line \in Lines  BY <2>1, <2>3
  <2>5. line.len # 0
    <3>1. line.len \in 1 .. Width  BY <2>1, <2>3, <2>4 DEF Fit
    <3> QED  BY <3>1, Measures
  <2> QED  BY <1>1, <2>1, <2>3, <2>4, <2>5 DEF Fit
<1>4. stage \in {"typed", "formatted", "ready", "failed"}  BY DEF TextInv
<1> QED  BY <1>2, <1>3, <1>4 DEF Text!TypeOK, Fine

LEMMA TextSteps ==
  ASSUME TextInv, Text!Next
  PROVE  TextInv'
<1>1. items \in Text!Items  BY DEF TextInv
<1>2. CASE Text!Format
  <2> DEFINE new == [[i \in DOMAIN items |-> Text!Wrap(Label, Typed(items[i]))]
                       EXCEPT ![Len(items)] = Text!Close(@)]
  <2>1. message' = new  BY <1>2 DEF Text!Format, Typed
  <2>2. Laid(items, new)  BY <1>1, Lays
  <2> HIDE DEF new
  <2>3. stage = "typed" /\ stage' = "formatted" /\ items' = items /\ envelope' = envelope
    BY <1>2 DEF Text!Format
  <2>4. Laid(items, message)'  BY <2>1, <2>2, <2>3
  <2> QED  BY <1>1, <2>3, <2>4 DEF TextInv
<1>3. CASE Text!BuildEnvelope
  <2> DEFINE new == Enveloped(Text!FlattenSeq(message))
  <2>1. envelope' = new  BY <1>3 DEF Text!BuildEnvelope, Enveloped, Each
  <2>2. stage = "formatted" /\ items' = items /\ message' = message
        /\ stage' = IF Text!Ita2(envelope') THEN "ready" ELSE "failed"
    BY <1>3 DEF Text!BuildEnvelope
  <2>3. Laid(items, message)  BY <2>2 DEF TextInv
  <2>4. Posted(items, message, new)  BY <1>1, <2>3, Posts
  <2> HIDE DEF new
  <2>5. Laid(items, message)' /\ Posted(items, message, envelope)'  BY <2>1, <2>2, <2>3, <2>4
  <2>6. stage' \in {"ready", "failed"} /\ (stage' = "failed" => ~ Text!Ita2(envelope'))
    BY <2>2
  <2> QED  BY <1>1, <2>2, <2>5, <2>6 DEF TextInv, Text!Ita2
<1> QED  BY <1>2, <1>3 DEF Text!Next
-----------------------------------------------------------------------------
(***************************************************************************)
(* The parts side by side.                                                 *)
(***************************************************************************)
Part == {"sendable", "unsendable", "text", "registry"}
Inv ==
  /\ shown \in Part
  /\ IF shown = "unsendable" THEN ChannelsInv(Unsendable) ELSE ChannelsInv(Sendable)
  /\ RegistryInv
  /\ shown = "text" => TextInv

LEMMA InvInit == Init => Inv
<1> SUFFICES ASSUME Init PROVE Inv  OBVIOUS
<1>1. shown \in Part  BY DEF Init, Part
<1>2. Sendable \in BOOLEAN /\ Unsendable \in BOOLEAN  BY DEF Sendable, Unsendable
<1>3. PICK deployed \in SUBSET Deployments : Outgoing(Sendable)!InitWith(deployed)
  <2>1. (IF shown \in {"sendable", "unsendable"} THEN Deployments
         ELSE {CHOOSE s \in Deployments : TRUE}) \in SUBSET Deployments
    BY ChannelsAssumption
  <2> QED  BY <2>1 DEF Init
<1>4. Outgoing(Unsendable)!InitWith(deployed)
  BY <1>2, <1>3, ChannelsAre DEF Outgoing!InitWith, Outgoing!NotPublished, Outgoing!MaySimulate,
     Outgoing!Simulated, Outgoing!ModeForChannel
<1>5. ChannelsInv(Sendable) /\ ChannelsInv(Unsendable)
  BY <1>2, <1>3, <1>4, ChannelsInit
<1>6. Registry!Contents # {}
  <2> DEFINE one == [n \in Notams |-> CHOOSE r \in Rows[n] : TRUE]
  <2>1. \A n \in Notams : one[n] \in Rows[n]  BY RegistryAssumption
  <2>2. one \in [Notams -> UNION {Rows[n] : n \in Notams}]  BY <2>1
  <2>3. one \in Registry!Contents  BY <2>1, <2>2 DEF Registry!Contents
  <2> QED  BY <2>3
<1>7. Registry!InitWith(Registry!Contents)
  <2>1. All("registry", Registry!Contents) \subseteq Registry!Contents  BY <1>6 DEF All
  <2> QED  BY <2>1 DEF Init, Registry!InitWith
<1>8. shown = "text" => TextInv
  <2> SUFFICES ASSUME shown = "text" PROVE TextInv  OBVIOUS
  <2>1. Text!InitWith(Text!Items)  BY DEF Init, All
  <2> QED  BY <2>1 DEF Text!InitWith, TextInv
<1> QED  BY <1>1, <1>5, <1>7, <1>8, RegistryInit DEF Inv

LEMMA InvStep ==
  ASSUME Inv, [Next]_publicationVars
  PROVE  Inv' /\ LaterOn
<1>1. Sendable \in BOOLEAN /\ Unsendable \in BOOLEAN  BY DEF Sendable, Unsendable
<1>2. /\ shown' = shown
      /\ shown = "unsendable" => [Outgoing(Unsendable)!Next]_channelsVars
      /\ shown # "unsendable" => [Outgoing(Sendable)!Next]_channelsVars
      /\ [Registry!Next]_registryVars
  BY DEF Inv, Next, publicationVars, registryVars
<1>3. RegistryInv' /\ LaterOn  BY <1>2, RegistryStep DEF Inv
<1>4. ASSUME shown = "text" PROVE TextInv'
  <2>1. TextInv  BY <1>4 DEF Inv
  <2>2. Text!Next \/ UNCHANGED textVars
    BY <1>4 DEF Next, publicationVars, textVars
  <2>3. CASE Text!Next  BY <2>1, <2>3, TextSteps
  <2>4. CASE UNCHANGED textVars
    <3>1. items' = items /\ message' = message /\ envelope' = envelope /\ stage' = stage
      BY <2>4 DEF textVars
    <3> QED  BY <2>1, <3>1 DEF TextInv, Laid, Posted, Text!Ita2
  <2> QED  BY <2>2, <2>3, <2>4
<1>5. CASE shown = "unsendable"
  <2>1. ChannelsInv(Unsendable)'  BY <1>1, <1>2, <1>5, ChannelsStep DEF Inv
  <2> QED  BY <1>2, <1>3, <1>4, <1>5, <2>1 DEF Inv
<1>6. CASE shown # "unsendable"
  <2>1. ChannelsInv(Sendable)'  BY <1>1, <1>2, <1>6, ChannelsStep DEF Inv
  <2> QED  BY <1>2, <1>3, <1>4, <1>6, <2>1 DEF Inv
<1> QED  BY <1>5, <1>6

LEMMA Invariance == Spec => []Inv
<1>1. Inv /\ [Next]_publicationVars => Inv'  BY InvStep
<1> QED  BY InvInit, <1>1, PTL DEF Spec

LEMMA RegistryTyped ==
  ASSUME RegistryInv
  PROVE  Registry!TypeOK
<1>1. now \in 0 .. MaxNow
  BY RegistryAssumption DEF RegistryInv, Registry!TimesAssumption
<1>2. Registry!IsInjective(published)  BY DEF RegistryInv, Registry!IsInjective
<1>3. Registry!ToSet(published) = {n \in Notams : at[n] # Registry!Never}
  BY DEF RegistryInv, Registry!ToSet, Registry!Never
<1>4. ASSUME NEW n \in Published
      PROVE  at[n] \in 0 .. now
             /\ Registry!Lifecycle(Registry!None, n) \in Registry!Lifecycles \ {"PUBLISHING"}
  <2>1. n \in Notams /\ at[n] # -1  BY PublishedAre
  <2>2. at[n] \in 0 .. now  BY <2>1 DEF RegistryInv
  <2>3. Registry!Validity(n) \in {"PERM", "EST_EXPIRED", "EST_EXPIRING_SOON", "EST_ACTIVE",
                                  "EXPIRED", "EXPIRING_SOON", "ACTIVE"}
    BY DEF Registry!Validity, Registry!Never
  <2> QED  BY <2>1, <2>2, <2>3 DEF Registry!Lifecycle, Registry!Lifecycles, Registry!Never
<1> QED  BY <1>1, <1>2, <1>3, <1>4 DEF Registry!TypeOK, Published

LEMMA InvPromises ==
  ASSUME Inv
  PROVE  /\ AcknowledgedIsEarned /\ SentIsInReach
         /\ Registry!OnlyPublishedSupersedes /\ Registry!FiltersAgree
<1>1. Sendable \in BOOLEAN /\ Unsendable \in BOOLEAN  BY DEF Sendable, Unsendable
<1>2. ~ Worker[Sendable]  BY ChannelsAssumption
<1>3. Registry!OnlyPublishedSupersedes /\ Registry!FiltersAgree  BY RegistryPromises DEF Inv
<1>4. CASE shown = "unsendable"
  <2>1. ChannelsInv(Unsendable)  BY <1>4 DEF Inv
  <2>2. /\ Outgoing(Sendable)!AcknowledgedIsEarned /\ Outgoing(Sendable)!SentIsInReach
        /\ Outgoing(Unsendable)!OutcomesOfLifecycle
    BY <1>1, <2>1, ChannelsPromises
  <2> QED  BY <1>3, <1>4, <2>2 DEF AcknowledgedIsEarned, SentIsInReach
<1>5. CASE shown # "unsendable"
  <2>1. ChannelsInv(Sendable)  BY <1>5 DEF Inv
  <2>2. /\ Outgoing(Sendable)!AcknowledgedIsEarned /\ Outgoing(Sendable)!SentIsInReach
        /\ Outgoing(Sendable)!ModesAreIndependent /\ Outgoing(Sendable)!OutcomesOfLifecycle
    BY <1>1, <1>2, <2>1, ChannelsPromises
  <2> QED  BY <1>3, <1>5, <2>2 DEF AcknowledgedIsEarned, SentIsInReach
<1> QED  BY <1>4, <1>5

\* Every variable of the part that is shown has its type at any time; a piece
\* of a line is at least a letter and at most its word.
THEOREM TypeCorrect == Spec => []TypeOK
<1>1. Inv => TypeOK
  <2> SUFFICES ASSUME Inv PROVE TypeOK  OBVIOUS
  <2>1. CASE shown = "sendable"
    <3>1. ChannelsInv(Sendable) /\ Sendable \in BOOLEAN  BY <2>1 DEF Inv, Sendable
    <3> QED  BY <2>1, <3>1, ChannelsPromises DEF TypeOK
  <2>2. CASE shown = "unsendable"
    <3>1. ChannelsInv(Unsendable) /\ Unsendable \in BOOLEAN  BY <2>2 DEF Inv, Unsendable
    <3>2. ChannelsType /\ Sendable \in BOOLEAN  BY <3>1 DEF ChannelsInv, Sendable
    <3> QED  BY <2>2, <3>2, TypeIs DEF TypeOK
  <2>3. CASE shown = "registry"  BY <2>3, RegistryTyped DEF TypeOK, Inv
  <2>4. CASE shown = "text"  BY <2>4, TextTypes DEF TypeOK, Inv
  <2> QED  BY <2>1, <2>2, <2>3, <2>4 DEF Inv, Part
<1> QED  BY Invariance, <1>1, PTL

\* For any deployments, and for a text within ITA-2 and one outside: a delivery
\* counts as acknowledged only if it was simulated, did leave or was confirmed,
\* and each outcome is one the life cycle reckons with (dispatch_delivery).
THEOREM AcknowledgedIsEarnedHolds == Spec => []AcknowledgedIsEarned
<1>1. Inv => AcknowledgedIsEarned  BY InvPromises
<1> QED  BY Invariance, <1>1, PTL

\* Whatever the deployments before, an envelope that waits for its
\* acknowledgement is listed by the outbox or has its file (aftn_outbox).
THEOREM SentIsInReachHolds == Spec => []SentIsInReach
<1>1. Inv => SentIsInReach  BY InvPromises
<1> QED  BY Invariance, <1>1, PTL

\* For any words, on lines of any width that a label leaves room on: the lines
\* of an item and of the envelope spell its words, whole and in order, but for a
\* last word that reads like the label; no line breaks where the next word would
\* have fitted; and only a letter that AFTN does not have makes a delivery fail
\* (wrap_notam_text, wrap_aftn_lines, build_envelope).
THEOREM TextIsKeptHolds == Spec => []TextIsKept
<1>1. Inv => TextIsKept
  BY KeptText, FullLines, SentText DEF Inv, TextIsKept
<1> QED  BY Invariance, <1>1, PTL

\* For any NOTAMs, referring to each other in any way and published in any
\* order: what is out of force stays so, its superseder is the first and is
\* published, and the filters agree with the life cycle (list_notams).
THEOREM NeverBackInForceHolds == Spec => NeverBackInForce
<1>1. Inv /\ [Next]_publicationVars =>
        [\A n \in Registry!ToSet(published) :
           ~ Registry!IsActive(Registry!None, n) => ~ Registry!IsActive(Registry!None, n)']_(Registry!vars)
  <2> SUFFICES ASSUME Inv, [Next]_publicationVars,
                      NEW n \in Published, ~ Registry!IsActive("none", n)
               PROVE  ~ Registry!IsActive("none", n)'
    BY DEF Published, Registry!None
  <2> QED  BY InvStep, StaysOut DEF Inv
<1>2. Inv /\ [Next]_publicationVars =>
        [\A n \in Notams : Registry!Superseding(Registry!None, n)' \in
                             {Registry!Superseding(Registry!None, n), Registry!None}
                             \/ Registry!Superseding(Registry!None, n) = Registry!None]_(Registry!vars)
  BY InvStep, SupersederStays DEF Inv, Registry!None
<1>3. Inv => Registry!OnlyPublishedSupersedes /\ Registry!FiltersAgree  BY InvPromises
<1> QED  BY Invariance, <1>1, <1>2, <1>3, PTL
         DEF Spec, NeverBackInForce, Registry!NeverBackInForce, Registry!FirstSupersederStays

=============================================================================
