--------------------------- MODULE UpdateDelivery ---------------------------
(***************************************************************************)
(* What synchronization promises one replica: the updates it saves reach   *)
(* the server in the order they were saved, and an update leaves the       *)
(* outbox only after the server has it.  Connections, frames and retries   *)
(* do not exist at this level.                                             *)
(***************************************************************************)
EXTENDS Naturals, Sequences, SequencesExt

CONSTANT Local   \* updates this replica's commands produce

VARIABLES
    log,         \* the updates saved so far, in order
    delivered,   \* those the server has
    retired      \* those the outbox has let go

deliveryVars == <<log, delivered, retired>>

\* The n updates saved first.
Oldest(n) == {log[i] : i \in 1..n}

DeliveryInit ==
    /\ log = <<>>
    /\ delivered = {}
    /\ retired = {}

Record(u) ==
    /\ u \notin Range(log)
    /\ log' = Append(log, u)
    /\ UNCHANGED <<delivered, retired>>

\* One frame may bring several updates, never one before its predecessors.
Deliver ==
    /\ \E n \in DOMAIN log : delivered' = Oldest(n) /\ delivered \subseteq delivered'
    /\ UNCHANGED <<log, retired>>

Retire ==
    /\ \E n \in DOMAIN log : retired' = Oldest(n) /\ retired \subseteq retired'
    /\ retired' \subseteq delivered
    /\ UNCHANGED <<log, delivered>>

DeliveryNext == Deliver \/ Retire \/ \E u \in Local : Record(u)

Delivery == DeliveryInit /\ [][DeliveryNext]_deliveryVars
=============================================================================
