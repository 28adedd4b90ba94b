----------------------------- MODULE Publication -----------------------------
(***************************************************************************)
(* How a NOTAM goes out: the deliveries of its channels, the text of the   *)
(* message and of its AFTN envelope, and what the registry then says.  As  *)
(* in Intake a behaviour shows one part, and the others stand still.       *)
(***************************************************************************)
EXTENDS Integers, Sequences, SequencesExt

CONSTANTS
  Deployments, Worker,              \* of Channels, where Worker depends on the text
  Width, Label, Words, MaxWords,    \* of NotamText
  Notams, Rows, Soon, MaxNow        \* of NotamRegistry

VARIABLES
  shown,
  settings, next, pending, delivery, reached, confirmed, simulated, allowed,
  items, message, envelope, stage,
  now, row, published, at

channelsVars == <<settings, next, pending, delivery, reached, confirmed, simulated, allowed>>
textVars == <<items, message, envelope, stage>>
registryVars == <<now, row, published, at>>
publicationVars == <<shown, channelsVars, textVars, registryVars>>

-----------------------------------------------------------------------------
Outgoing(ita2) == INSTANCE Channels WITH Ita2 <- ita2, Worker <- Worker[ita2]

\* A text within ITA-2, and one outside.
Sendable == TRUE
Unsendable == FALSE

Text == INSTANCE NotamText

Registry == INSTANCE NotamRegistry

ASSUME ChannelsAssumption ==
  /\ Deployments # {} /\ ~ Worker[Sendable]
  /\ \A ita2 \in BOOLEAN : Outgoing(ita2)!DeploymentsAssumption
ASSUME TextAssumption == Text!WidthAssumption
ASSUME RegistryAssumption ==
  /\ Registry!TimesAssumption /\ Registry!RowsAssumption
  /\ \A n \in Notams : Rows[n] # {}

-----------------------------------------------------------------------------
All(part, choices) == IF shown = part THEN choices ELSE {CHOOSE c \in choices : TRUE}

Init ==
  /\ shown \in {"sendable", "unsendable", "text", "registry"}
  /\ Outgoing(Sendable)!InitWith(IF shown \in {"sendable", "unsendable"} THEN Deployments
                   ELSE {CHOOSE s \in Deployments : TRUE})
  /\ Registry!InitWith(All("registry", Registry!Contents))
  /\ Text!InitWith(All("text", Text!Items))

Next ==
  \/ shown = "sendable" /\ Outgoing(Sendable)!Next /\ UNCHANGED <<shown, textVars, registryVars>>
  \/ shown = "unsendable" /\ Outgoing(Unsendable)!Next /\ UNCHANGED <<shown, textVars, registryVars>>
  \/ shown = "text" /\ Text!Next /\ UNCHANGED <<shown, channelsVars, registryVars>>
  \/ shown = "registry" /\ Registry!Next /\ UNCHANGED <<shown, channelsVars, textVars>>

Spec == Init /\ [][Next]_publicationVars

-----------------------------------------------------------------------------
TypeOK ==
  CASE shown \in {"sendable", "unsendable"} -> Outgoing(Sendable)!TypeOK
    [] shown = "text" -> Text!TypeOK
    [] shown = "registry" -> Registry!TypeOK

\* A delivery counts as acknowledged only if it was simulated, did leave, or
\* was confirmed, and every other outcome is one that the life cycle of a
\* request reckons with; and by the API no channel is simulated that is pinned
\* to its adapter (dispatch_delivery, the adapters, decision 6 of
\* ARCHITECTURE.md).
AcknowledgedIsEarned ==
  /\ Outgoing(Sendable)!AcknowledgedIsEarned /\ (shown = "sendable" => Outgoing(Sendable)!ModesAreIndependent)
  /\ IF shown = "unsendable" THEN Outgoing(Unsendable)!OutcomesOfLifecycle ELSE Outgoing(Sendable)!OutcomesOfLifecycle

\* Whatever the deployments before, an envelope that waits for its
\* acknowledgement is one that the outbox lists or that has a file for the
\* terminal (aftn_outbox).
SentIsInReach == Outgoing(Sendable)!SentIsInReach

\* Every word of an item is in its lines and in the envelope, whole and in its
\* place, but for a last word that reads like the label, and no line breaks
\* where the next word would have fitted; a delivery fails only for a letter
\* that AFTN does not have (wrap_notam_text, build_envelope).
TextIsKept == shown = "text" => Text!TextIsKept /\ Text!LinesAreFull /\ Text!TransmittableIsSent

\* What the registry shows out of force, by time or by another NOTAM, it never
\* shows in force again; and who replaced or cancelled a NOTAM does not change
\* when more are published, nor is it known before it is; the filters agree with
\* the life cycle (list_notams, _build_notam_read).
NeverBackInForce ==
  /\ Registry!NeverBackInForce /\ Registry!FirstSupersederStays
  /\ [](Registry!OnlyPublishedSupersedes /\ Registry!FiltersAgree)
=============================================================================
