---------------------- MODULE GatewayNotificationQueue ----------------------
(***************************************************************************)
(* The queue that stands between one gateway subscription and the          *)
(* ChatClient (chat-runtime/src/gateway-notification-queue.ts).            *)
(*                                                                         *)
(* A load registers its observer before the snapshot is requested, so      *)
(* notifications arrive while there is no generation to apply them under.  *)
(* They are buffered; `activate` drains them under the generation the load *)
(* was given, and afterwards every notification is dispatched as it comes. *)
(* The dispatcher publishes snapshots, a snapshot listener is host code,   *)
(* and host code may make the gateway notify again before it returns: a    *)
(* dispatch is therefore a step of its own here, and Enqueue and Activate  *)
(* may happen between two of them.                                         *)
(*                                                                         *)
(* Notifications are numbered 1, 2, ... in the order of their arrival.     *)
(***************************************************************************)
EXTENDS Integers, Sequences

CONSTANTS
    Generations,        \* the generations a load may be given
    NoGeneration,       \* `generation === undefined`
    MaxNotifications    \* bound on arrivals

ASSUME QueueAssumption ==
    /\ MaxNotifications \in Nat
    /\ NoGeneration \notin Generations

VARIABLES
    phase,          \* "buffering" | "draining" | "active"
    pending,        \* the buffered notifications
    index,          \* how many of `pending` the draining loop has dispatched
    generation,     \* the generation `activate` was called with
    arrived,        \* how many notifications have arrived
    dispatched      \* history: <<notification, generation>>, in dispatch order

queueVars == <<phase, pending, index, generation, arrived, dispatched>>

-----------------------------------------------------------------------------

QueueTypeOK ==
    /\ phase \in {"buffering", "draining", "active"}
    /\ pending \in Seq(Nat)
    /\ index \in 0..Len(pending)
    /\ generation \in Generations \cup {NoGeneration}
    /\ arrived \in Nat
    /\ dispatched \in Seq(Nat \X (Generations \cup {NoGeneration}))

QueueInit ==
    /\ phase = "buffering"
    /\ pending = <<>>
    /\ index = 0
    /\ generation = NoGeneration
    /\ arrived = 0
    /\ dispatched = <<>>

\* dispatchActive: nothing happens without a generation.
DispatchActive(n) ==
    dispatched' = IF generation = NoGeneration
                  THEN dispatched
                  ELSE Append(dispatched, <<n, generation>>)

\* Faulty: only an unactivated queue buffers, so an arrival overtakes the
\* notifications that are still to be drained.
EnqueueOvertakes ==
    /\ arrived < MaxNotifications
    /\ phase = "draining" => index > 0
    /\ arrived' = arrived + 1
    /\ IF phase = "buffering"
       THEN pending' = Append(pending, arrived + 1) /\ UNCHANGED dispatched
       ELSE DispatchActive(arrived + 1) /\ UNCHANGED pending
    /\ UNCHANGED <<phase, index, generation>>

\* The gateway's observer. While the loop drains, only code called by a
\* dispatch can get here: the loop has dispatched something already.
Enqueue ==
    /\ arrived < MaxNotifications
    /\ phase = "draining" => index > 0
    /\ arrived' = arrived + 1
    /\ \/ /\ phase # "active"
          /\ pending' = Append(pending, arrived + 1)
          /\ UNCHANGED dispatched
       \/ /\ phase = "active"
          /\ DispatchActive(arrived + 1)
          /\ UNCHANGED pending
    /\ UNCHANGED <<phase, index, generation>>

\* activate(g), up to its loop. A second call returns at once.
Activate(g) ==
    /\ phase = "buffering"
    /\ generation' = g
    /\ phase' = "draining"
    /\ index' = 0
    /\ UNCHANGED <<pending, arrived, dispatched>>

\* One turn of the loop; it reads pending.length again on every turn.
DrainOne ==
    /\ phase = "draining"
    /\ index < Len(pending)
    /\ DispatchActive(pending[index + 1])
    /\ index' = index + 1
    /\ UNCHANGED <<phase, pending, generation, arrived>>

\* Faulty: the loop waits for one notification more.
FinishTooLate ==
    /\ phase = "draining"
    /\ index > Len(pending)
    /\ pending' = <<>>
    /\ index' = 0
    /\ phase' = "active"
    /\ UNCHANGED <<generation, arrived, dispatched>>

\* The loop has reached the end of `pending`.
FinishDraining ==
    /\ phase = "draining"
    /\ index = Len(pending)
    /\ pending' = <<>>
    /\ index' = 0
    /\ phase' = "active"
    /\ UNCHANGED <<generation, arrived, dispatched>>

QueueNext ==
    \/ Enqueue
    \/ \E g \in Generations : Activate(g)
    \/ DrainOne
    \/ FinishDraining

\* The loop is synchronous: once begun it runs to its end.
QueueSpec == QueueInit /\ [][QueueNext]_queueVars /\ WF_queueVars(DrainOne \/ FinishDraining)

-----------------------------------------------------------------------------

\* Whatever the phase, what was dispatched followed by what still waits is
\* every arrival, once, in the order of arrival: a notification that arrives
\* while the buffer drains neither overtakes the buffered ones nor is lost
\* when the buffer is emptied.
FifoExactlyOnce ==
    /\ \A i \in 1..Len(dispatched) : dispatched[i][1] = i
    /\ \A i \in index + 1..Len(pending) :
           pending[i] = Len(dispatched) + i - index
    /\ Len(dispatched) + Len(pending) - index = arrived

\* Everything is dispatched under the one generation the queue was activated
\* with, so that the ChatClient's generation check can reject all of a retired
\* subscription's notifications.
OneGeneration ==
    \A i \in 1..Len(dispatched) : dispatched[i][2] = generation

\* An activated queue does not stay in its loop: it reaches the phase in which
\* arrivals are dispatched at once, with nothing left in the buffer.
DrainingEnds ==
    phase = "draining" ~> phase = "active" /\ Len(dispatched) = arrived

=============================================================================
