-------------------------- MODULE AftnBridgeProofs --------------------------
(***************************************************************************)
(* Safety of the pull queue for any number of deliveries and dispatches.   *)
(***************************************************************************)
EXTENDS AftnBridge, TLAPS, FiniteSetTheorems

IInv == TypeOK /\ AckedIsWritten /\ SentIsListed

\* What the bridge reads from the outbox is a sequence of deliveries.
LEMMA OutboxIsSequence ==
  ASSUME NEW items \in [1 .. Cardinality(Listed) -> Listed]
  PROVE  items \in Seq(Deliveries)
<1>1. Listed \subseteq Deliveries  BY DEF Listed
<1>2. IsFiniteSet(Listed)  BY <1>1, DeliveriesAssumption, FS_Subset
<1>3. Cardinality(Listed) \in Nat  BY <1>2, FS_CardinalityType
<1> QED  BY <1>1, <1>3

\* The head of a batch is a delivery and its tail a batch.
LEMMA HeadAndTail ==
  ASSUME TypeOK, batch # <<>>
  PROVE  /\ Head(batch) \in Deliveries
         /\ Tail(batch) \in Seq(Deliveries)
BY DEF TypeOK

\* A row that becomes acknowledged, with or without the bridge's file name.
LEMMA RowAcknowledged ==
  ASSUME TypeOK, NEW d \in Deliveries
  PROVE  /\ [row EXCEPT ![d].status = "acknowledged"] \in [Deliveries -> Row]
         /\ Acknowledged(d) \in [Deliveries -> Row]
<1>1. row[d] \in Row  BY DEF TypeOK
<1>2. [row[d] EXCEPT !.status = "acknowledged"] \in Row  BY <1>1 DEF Row
<1>3. [row[d] EXCEPT !.status = "acknowledged", !.named = TRUE] \in Row
  BY <1>1 DEF Row
<1> QED  BY <1>2, <1>3 DEF TypeOK, Acknowledged

\* What a dispatch writes.
LEMMA DispatchedRow ==
  ASSUME TypeOK, NEW d \in Deliveries
  PROVE  /\ Dispatched(d) \in Row
         /\ Dispatched(d).named => row[d].named
         /\ Dispatched(d).status = "sent" => ~ Dispatched(d).named
<1>1. row[d] \in Row /\ attempts + 1 \in Nat  BY DEF TypeOK
<1>2. CASE d \in Sendable  BY <1>1, <1>2 DEF Dispatched, Row
<1>3. CASE d \notin Sendable
  <2>1. Dispatched(d) = [row[d] EXCEPT !.status = "failed", !.attempted = attempts + 1]
    BY <1>3 DEF Dispatched
  <2> QED  BY <1>1, <2>1 DEF Row
<1> QED  BY <1>2, <1>3

\* An abandoned acknowledgement leaves a well-typed count, and if one is still
\* to be served it is that of the file just written.
LEMMA AbandonedAck ==
  ASSUME TypeOK, AckedIsWritten, Abandoned
  PROVE  /\ late' \in [Deliveries -> Nat]
         /\ \A d \in Deliveries : late'[d] > 0 => "whole" \in directory[d]
<1>1. CASE UNCHANGED late  BY <1>1 DEF TypeOK, AckedIsWritten
<1>2. CASE /\ pc = "acknowledging"
           /\ late' = [late EXCEPT ![Head(batch)] = @ + 1]
  <2>1. batch # <<>>  BY <1>2 DEF TypeOK
  <2>2. Head(batch) \in Deliveries  BY <2>1, HeadAndTail
  <2>3. "whole" \in directory[Head(batch)]  BY <1>2 DEF AckedIsWritten
  <2> QED  BY <1>2, <2>2, <2>3 DEF TypeOK, AckedIsWritten
<1> QED  BY <1>1, <1>2 DEF Abandoned

-----------------------------------------------------------------------------
LEMMA InitEstablishesIInv == Init => IInv
BY DEF Init, IInv, TypeOK, Row, BridgeStep, AckedIsWritten, NamedIsWritten, SentIsListed

\* The two operators' actions on a row: a new dispatch and a manual override.
LEMMA OperatorStep ==
  ASSUME IInv, NEW d \in Deliveries, Dispatch(d) \/ AcknowledgeByHand(d)
  PROVE  IInv'
<1> USE DEF IInv
<1>1. CASE Dispatch(d)
  <2>1. /\ row' = [row EXCEPT ![d] = Dispatched(d)]
        /\ attempts' \in Nat
        /\ UNCHANGED <<pc, batch, late, directory>>
    BY <1>1 DEF Dispatch, TypeOK
  <2>2. TypeOK'  BY <2>1, DispatchedRow DEF TypeOK
  <2>3. AckedIsWritten'
    BY <2>1, DispatchedRow DEF TypeOK, AckedIsWritten, NamedIsWritten
  <2>4. SentIsListed'
    BY <2>1, DispatchedRow DEF TypeOK, SentIsListed, Listed
  <2> QED  BY <2>2, <2>3, <2>4
<1>2. CASE AcknowledgeByHand(d)
  <2>1. /\ row' = [row EXCEPT ![d].status = "acknowledged"]
        /\ UNCHANGED <<attempts, pc, batch, late, directory>>
    BY <1>2 DEF AcknowledgeByHand
  <2>2. TypeOK'  BY <2>1, RowAcknowledged DEF TypeOK
  <2>3. \A e \in Deliveries : /\ row'[e].named = row[e].named
                              /\ row'[e].status \in {row[e].status, "acknowledged"}
    BY <2>1 DEF TypeOK, Row
  <2>4. AckedIsWritten'  BY <2>1, <2>3 DEF AckedIsWritten, NamedIsWritten
  <2>5. SentIsListed'  BY <2>3 DEF SentIsListed, Listed
  <2> QED  BY <2>2, <2>4, <2>5
<1> QED  BY <1>1, <1>2

\* An acknowledgement served, in time or late, for a file that is complete.
LEMMA ServedAck ==
  ASSUME TypeOK, AckedIsWritten, SentIsListed, NEW d \in Deliveries,
         "whole" \in directory[d], row' = Acknowledged(d),
         UNCHANGED directory
  PROVE  /\ row' \in [Deliveries -> Row]
         /\ NamedIsWritten'
         /\ SentIsListed'
<1>1. row' \in [Deliveries -> Row]  BY RowAcknowledged
<1>2. \A e \in Deliveries \ {d} : row'[e] = row[e]
  BY DEF Acknowledged, TypeOK
<1>3. row'[d].status = "acknowledged"  BY DEF Acknowledged, TypeOK, Row
<1>4. NamedIsWritten'  BY <1>2 DEF AckedIsWritten, NamedIsWritten
<1>5. SentIsListed'  BY <1>2, <1>3 DEF SentIsListed, Listed
<1> QED  BY <1>1, <1>4, <1>5

\* The bridge's own steps, from the poll to the next item.
LEMMA BridgeWorks ==
  ASSUME IInv,
         \/ Polling
         \/ OpenFile
         \/ FillFile
         \/ \E d \in Deliveries : ServeAck(d)
         \/ NextItem
  PROVE  IInv'
<1> USE DEF IInv
<1>1. CASE Polling
  <2>1. PICK items \in [1 .. Cardinality(Listed) -> Listed] : Poll(items)
    BY <1>1 DEF Polling
  <2>2. items \in Seq(Deliveries)  BY OutboxIsSequence
  <2>3. TypeOK'  BY <2>1, <2>2 DEF Poll, TypeOK, BridgeStep
  <2>4. AckedIsWritten'  BY <2>1 DEF Poll, AckedIsWritten, NamedIsWritten
  <2>5. SentIsListed'  BY <2>1 DEF Poll, SentIsListed, Listed
  <2> QED  BY <2>3, <2>4, <2>5
<1>2. CASE OpenFile
  BY <1>2 DEF OpenFile, TypeOK, BridgeStep, AckedIsWritten, NamedIsWritten,
              SentIsListed, Listed
<1>3. CASE FillFile
  <2>1. batch # <<>>  BY <1>3 DEF FillFile, TypeOK
  <2>2. Head(batch) \in Deliveries  BY <2>1, HeadAndTail
  <2>3. TypeOK'  BY <1>3, <2>2 DEF FillFile, TypeOK, BridgeStep
  <2>4. /\ "whole" \in directory'[Head(batch)]
        /\ \A d \in Deliveries : directory[d] \subseteq directory'[d]
    BY <1>3, <2>2 DEF FillFile, TypeOK
  <2>5. AckedIsWritten'
    BY <1>3, <2>4 DEF FillFile, AckedIsWritten, NamedIsWritten
  <2>6. SentIsListed'  BY <1>3 DEF FillFile, SentIsListed, Listed
  <2> QED  BY <2>3, <2>5, <2>6
<1>4. ASSUME NEW d \in Deliveries, ServeAck(d)  PROVE IInv'
  <2>1. "whole" \in directory[d]  BY <1>4 DEF ServeAck, AckedIsWritten
  <2>2. row' \in [Deliveries -> Row] /\ NamedIsWritten' /\ SentIsListed'
    BY <1>4, <2>1, ServedAck DEF ServeAck
  <2>3. TypeOK'  BY <1>4, <2>2 DEF ServeAck, TypeOK, BridgeStep
  <2>4. AckedIsWritten'  BY <1>4, <2>2 DEF ServeAck, AckedIsWritten
  <2> QED  BY <2>2, <2>3, <2>4
<1>5. CASE NextItem
  <2>1. batch # <<>>  BY <1>5 DEF NextItem, TypeOK
  <2>2. Tail(batch) \in Seq(Deliveries)  BY <2>1, HeadAndTail
  <2>3. TypeOK'  BY <1>5, <2>2 DEF NextItem, TypeOK, BridgeStep
  <2>4. AckedIsWritten'  BY <1>5 DEF NextItem, AckedIsWritten, NamedIsWritten
  <2>5. SentIsListed'  BY <1>5 DEF NextItem, SentIsListed, Listed
  <2> QED  BY <2>3, <2>4, <2>5
<1> QED  BY <1>1, <1>2, <1>3, <1>4, <1>5

\* Failures: abandoned and late acknowledgements, crashes and restarts.
LEMMA FailureStep ==
  ASSUME IInv,
         \/ GiveUp
         \/ \E d \in Deliveries : ServeLateAck(d) \/ LoseLateAck(d)
         \/ Crash
         \/ Restart
  PROVE  IInv'
<1> USE DEF IInv
<1>1. CASE GiveUp
  <2>1. Abandoned  BY <1>1 DEF GiveUp
  <2>2. TypeOK'  BY <1>1, <2>1, AbandonedAck DEF GiveUp, TypeOK, BridgeStep
  <2>3. AckedIsWritten'
    BY <1>1, <2>1, AbandonedAck DEF GiveUp, AckedIsWritten, NamedIsWritten
  <2>4. SentIsListed'  BY <1>1 DEF GiveUp, SentIsListed, Listed
  <2> QED  BY <2>2, <2>3, <2>4
<1>2. ASSUME NEW d \in Deliveries, ServeLateAck(d)  PROVE IInv'
  <2>1. "whole" \in directory[d]  BY <1>2 DEF ServeLateAck, AckedIsWritten
  <2>2. row' \in [Deliveries -> Row] /\ NamedIsWritten' /\ SentIsListed'
    BY <1>2, <2>1, ServedAck DEF ServeLateAck
  <2>3. late' \in [Deliveries -> Nat]  BY <1>2 DEF ServeLateAck, TypeOK
  <2>4. UNCHANGED <<attempts, pc, batch, directory>>  BY <1>2 DEF ServeLateAck
  <2>5. TypeOK'  BY <2>2, <2>3, <2>4 DEF TypeOK
  <2>6. AckedIsWritten'
    BY <1>2, <2>1, <2>2, <2>4 DEF ServeLateAck, AckedIsWritten, TypeOK
  <2> QED  BY <2>2, <2>5, <2>6
<1>3. ASSUME NEW d \in Deliveries, LoseLateAck(d)  PROVE IInv'
  <2>1. "whole" \in directory[d]  BY <1>3 DEF LoseLateAck, AckedIsWritten
  <2>2. TypeOK'  BY <1>3 DEF LoseLateAck, TypeOK
  <2>3. AckedIsWritten'
    BY <1>3, <2>1 DEF LoseLateAck, AckedIsWritten, NamedIsWritten, TypeOK
  <2>4. SentIsListed'  BY <1>3 DEF LoseLateAck, SentIsListed, Listed
  <2> QED  BY <2>2, <2>3, <2>4
<1>4. CASE Crash
  <2>1. Abandoned  BY <1>4 DEF Crash
  <2>2. /\ directory' \in [Deliveries -> SUBSET {"whole", "torn"}]
        /\ \A d \in Deliveries : directory[d] \subseteq directory'[d]
    <3>1. CASE pc = "filling"
      <4>1. batch # <<>>  BY <3>1 DEF TypeOK
      <4>2. Head(batch) \in Deliveries  BY <4>1, HeadAndTail
      <4> QED  BY <1>4, <3>1, <4>2 DEF Crash, TypeOK
    <3>2. CASE pc # "filling"  BY <1>4, <3>2 DEF Crash, TypeOK
    <3> QED  BY <3>1, <3>2
  <2>3. TypeOK'  BY <1>4, <2>1, <2>2, AbandonedAck DEF Crash, TypeOK, BridgeStep
  <2>4. AckedIsWritten'
    BY <1>4, <2>1, <2>2, AbandonedAck DEF Crash, AckedIsWritten, NamedIsWritten
  <2>5. SentIsListed'  BY <1>4 DEF Crash, SentIsListed, Listed
  <2> QED  BY <2>3, <2>4, <2>5
<1>5. CASE Restart
  BY <1>5 DEF Restart, TypeOK, BridgeStep, AckedIsWritten, NamedIsWritten,
              SentIsListed, Listed
<1> QED  BY <1>1, <1>2, <1>3, <1>4, <1>5

\* Every step, and a step that changes nothing, keeps the invariant.
LEMMA NextKeepsIInv == IInv /\ [Next]_vars => IInv'
<1> SUFFICES ASSUME IInv, [Next]_vars  PROVE IInv'
  OBVIOUS
<1>1. CASE UNCHANGED vars
  BY <1>1 DEF vars, IInv, TypeOK, AckedIsWritten, NamedIsWritten, SentIsListed, Listed
<1>2. CASE Next  BY <1>2, OperatorStep, BridgeWorks, FailureStep DEF Next
<1> QED  BY <1>1, <1>2

\* IInv is an invariant of the pull queue.
THEOREM BridgeInvariant == Spec => []IInv
BY InitEstablishesIInv, NextKeepsIInv, PTL DEF Spec

\* The rows, the bridge and the directory keep their types.
THEOREM BridgeTypeCorrect == Spec => []TypeOK
<1>1. IInv => TypeOK  BY DEF IInv
<1> QED  BY <1>1, BridgeInvariant, PTL

\* A row that bears a file name of the bridge has a complete file (poll_once).
THEOREM NamedIsWrittenHolds == Spec => []NamedIsWritten
<1>1. IInv => NamedIsWritten  BY DEF IInv, AckedIsWritten
<1> QED  BY <1>1, BridgeInvariant, PTL

\* No delivery that is sent is missing from the outbox (dispatch_delivery).
THEOREM SentIsListedHolds == Spec => []SentIsListed
<1>1. IInv => SentIsListed  BY DEF IInv
<1> QED  BY <1>1, BridgeInvariant, PTL
=============================================================================
