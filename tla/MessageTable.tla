---------------------------- MODULE MessageTable ----------------------------
(***************************************************************************)
(* The messages as the metrics see them: those of MessageLife, which       *)
(* ForqBroker implements, under the two values of the label "queue_type".  *)
(***************************************************************************)
EXTENDS Integers, FiniteSets

CONSTANTS
  Id,
  MaxDeliveryAttempts

ASSUME TableAssumption == IsFiniteSet(Id) /\ MaxDeliveryAttempts \in Nat

VARIABLES place, leased, tries

tableVars == <<place, leased, tries>>

Table == INSTANCE MessageLife

Queue == {"queue", "dlq"}
=============================================================================
