---------------------------- MODULE MCDelivery ----------------------------
(* Small instances, for model checking, of what a notification passes on    *)
(* its way to a listener: the queue of its subscription, the timeline it    *)
(* is put on, and the queue of snapshots to publish.  They share no state,  *)
(* so one of them moves in a behavior (part) and the others stay in an      *)
(* initial state.                                                           *)
EXTENDS GatewayNotificationQueue, SnapshotStore, MessageDelivery

CONSTANTS l1, l2, l3, g1, g2

VARIABLE part

deliveryVars == <<part, queueVars, vars, msgVars>>

Setup(telling, alike, restarts, kinds, last, names) ==
    [telling |-> telling, alike |-> alike, restarts |-> restarts, kinds |-> kinds,
     last |-> last, names |-> names]

\* One message that is read in every way, and messages that are easily
\* confused, for servers that tell identities and servers that do not.
TimelineSetups ==
    {Setup("never", FALSE, 0, Kinds, 1, 2),
     Setup("never", TRUE, 0, {"recover", "page"}, 2, 1),
     Setup("never", TRUE, 0, {"reload"}, 2, 1),
     Setup("never", FALSE, 1, {"reload"}, 2, 1),
     Setup("always", FALSE, 0, Kinds, 1, 2),
     Setup("always", FALSE, 0, {"page", "reload"}, 2, 1),
     Setup("always", FALSE, 1, {"reload"}, 2, 1),
     Setup("later", FALSE, 0, Kinds, 1, 1),
     Setup("later", FALSE, 0, {"page"}, 2, 1),
     Setup("later", FALSE, 1, {"reload"}, 1, 2)}

\* The timeline's part is the only one with several initial states.
DeliveryInit ==
    /\ part \in {"queue", "store", "timeline"}
    /\ QueueInit /\ Init /\ MsgInit
    /\ part # "timeline" => msgSetup = Setup("never", FALSE, 0, Kinds, 1, 2)

QueueMoves(Step) == part = "queue" /\ Step /\ UNCHANGED <<part, vars, msgVars>>

StoreMoves(Step) == part = "store" /\ Step /\ UNCHANGED <<part, queueVars, msgVars>>

TimelineMoves(Step) == part = "timeline" /\ Step /\ UNCHANGED <<part, queueVars, vars>>

DeliverySpec ==
    /\ DeliveryInit
    /\ [][QueueMoves(QueueNext) \/ StoreMoves(Next) \/ TimelineMoves(MsgNext)]_deliveryVars
    /\ WF_deliveryVars(QueueMoves(DrainOne \/ FinishDraining))
    /\ WF_deliveryVars(StoreMoves(Run))

\* What waits in a queue is handed over: a drain that began ends, and what was
\* committed is published.
DeliveryEnds == DrainingEnds /\ EventuallyPublished

=============================================================================
