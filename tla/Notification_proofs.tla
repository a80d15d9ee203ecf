------------------------- MODULE Notification_proofs -------------------------
(***************************************************************************)
(* Proofs about the two queues between a gateway and who watches a chat:   *)
(* the notifications of the gateway, and the publications of the store.    *)
(***************************************************************************)
EXTENDS GatewayNotificationQueue, SnapshotStore, SequenceTheorems, TLAPS

-----------------------------------------------------------------------------
(***************************************************************************)
(* GatewayNotificationQueue dispatches every arrival once, in the order of *)
(* arrival and under one generation, for any number of arrivals and any    *)
(* set of generations.                                                     *)
(***************************************************************************)

\* What each phase says about the other variables: nothing is dispatched
\* before the activation, and an active queue has an empty buffer.
PhaseInv ==
    /\ index <= Len(pending)
    /\ phase = "buffering" => /\ index = 0
                              /\ dispatched = <<>>
    /\ phase # "buffering" => generation # NoGeneration
    /\ phase = "active" => /\ pending = <<>>
                           /\ index = 0

\* The inductive invariant.
QueueInv ==
    /\ QueueTypeOK
    /\ PhaseInv
    /\ FifoExactlyOnce
    /\ OneGeneration

\* The i-th dispatch is the i-th arrival.
DispatchedInOrder(seen) == \A i \in 1..Len(seen) : seen[i][1] = i

\* The order of what was dispatched is kept by a dispatch of the next arrival.
LEMMA AppendInOrder ==
    ASSUME NEW S, NEW seen \in Seq(Nat \X S), NEW g \in S,
           DispatchedInOrder(seen)
    PROVE  DispatchedInOrder(Append(seen, <<Len(seen) + 1, g>>))
<1> DEFINE new == Append(seen, <<Len(seen) + 1, g>>)
<1>1. Len(new) = Len(seen) + 1
  OBVIOUS
<1>2. \A i \in 1..Len(seen) : new[i] = seen[i]
  OBVIOUS
<1>3. new[Len(seen) + 1] = <<Len(seen) + 1, g>>
  OBVIOUS
<1>4. ASSUME NEW i \in 1..Len(new)
      PROVE  new[i][1] = i
  BY <1>1, <1>2, <1>3 DEF DispatchedInOrder
<1> QED
  BY <1>4 DEF DispatchedInOrder

\* What was dispatched under one generation stays so when a notification is
\* dispatched under that generation.
LEMMA AppendOneGeneration ==
    ASSUME NEW S, NEW seen \in Seq(Nat \X S), NEW n \in Nat, NEW g \in S,
           \A i \in 1..Len(seen) : seen[i][2] = g
    PROVE  LET new == Append(seen, <<n, g>>)
           IN  \A i \in 1..Len(new) : new[i][2] = g
<1> DEFINE new == Append(seen, <<n, g>>)
<1>1. Len(new) = Len(seen) + 1
  OBVIOUS
<1>2. \A i \in 1..Len(seen) : new[i] = seen[i]
  OBVIOUS
<1>3. new[Len(seen) + 1] = <<n, g>>
  OBVIOUS
<1> QED
  BY <1>1, <1>2, <1>3

LEMMA QueueInvInit == QueueInit => QueueInv
BY QueueAssumption DEF QueueInit, QueueInv, QueueTypeOK, PhaseInv, FifoExactlyOnce, OneGeneration

LEMMA Counts ==
    ASSUME QueueInv
    PROVE  /\ Len(dispatched) \in Nat
           /\ Len(pending) \in Nat
           /\ index \in Nat
           /\ arrived \in Nat
           /\ Len(dispatched) + Len(pending) - index = arrived
BY DEF QueueInv, QueueTypeOK, FifoExactlyOnce

\* Enqueue on a queue that is not active: the arrival goes to the end of the
\* buffer.
LEMMA EnqueueBuffers ==
    ASSUME QueueInv, phase # "active", Enqueue
    PROVE  QueueInv'
<1>1. /\ pending' = Append(pending, arrived + 1)
      /\ arrived' = arrived + 1
      /\ UNCHANGED <<phase, index, generation, dispatched>>
  BY DEF Enqueue
<1>2. QueueTypeOK'
  BY <1>1 DEF QueueInv, QueueTypeOK
<1>3. PhaseInv'
  BY <1>1 DEF QueueInv, QueueTypeOK, PhaseInv
<1>4. FifoExactlyOnce'
  <2>1. Len(pending') = Len(pending) + 1
    BY <1>1 DEF QueueInv, QueueTypeOK
  <2>2. \A i \in 1..Len(pending) : pending'[i] = pending[i]
    BY <1>1 DEF QueueInv, QueueTypeOK
  <2>3. pending'[Len(pending) + 1] = arrived + 1
    BY <1>1 DEF QueueInv, QueueTypeOK
  <2>4. ASSUME NEW i \in index + 1..Len(pending) + 1
        PROVE  pending'[i] = Len(dispatched) + i - index
    <3>1. CASE i <= Len(pending)
      BY <2>2, <2>4, <3>1, Counts DEF QueueInv, FifoExactlyOnce
    <3>2. CASE i = Len(pending) + 1
      BY <2>3, <3>2, Counts
    <3> QED
      BY <2>4, <3>1, <3>2, Counts
  <2>5. Len(dispatched) + Len(pending') - index = arrived'
    BY <1>1, <2>1, Counts
  <2>6. \A i \in 1..Len(dispatched) : dispatched[i][1] = i
    BY DEF QueueInv, FifoExactlyOnce
  <2> QED
    BY <1>1, <2>1, <2>4, <2>5, <2>6 DEF FifoExactlyOnce
<1>5. OneGeneration'
  BY <1>1 DEF QueueInv, OneGeneration
<1> QED
  BY <1>2, <1>3, <1>4, <1>5 DEF QueueInv

\* Enqueue on an active queue: the arrival is dispatched at once, and nothing
\* waits before it.
LEMMA EnqueueDispatches ==
    ASSUME QueueInv, phase = "active", Enqueue
    PROVE  QueueInv'
<1>1. /\ dispatched' = Append(dispatched, <<arrived + 1, generation>>)
      /\ arrived' = arrived + 1
      /\ UNCHANGED <<phase, index, generation, pending>>
  BY DEF Enqueue, DispatchActive, QueueInv, PhaseInv
<1>2. QueueTypeOK'
  BY <1>1 DEF QueueInv, QueueTypeOK
<1>3. PhaseInv'
  BY <1>1 DEF QueueInv, QueueTypeOK, PhaseInv
<1>4. FifoExactlyOnce'
  <2>1. Len(pending) = 0 /\ index = 0
    BY DEF QueueInv, PhaseInv
  <2>2. DispatchedInOrder(dispatched')
    BY <1>1, <2>1, AppendInOrder DEF QueueInv, QueueTypeOK, FifoExactlyOnce, DispatchedInOrder
  <2> QED
    BY <1>1, <2>1, <2>2 DEF QueueInv, QueueTypeOK, FifoExactlyOnce, DispatchedInOrder
<1>5. OneGeneration'
  BY <1>1, AppendOneGeneration DEF QueueInv, QueueTypeOK, OneGeneration
<1> QED
  BY <1>2, <1>3, <1>4, <1>5 DEF QueueInv

LEMMA ActivatePreserves ==
    ASSUME QueueInv, NEW g \in Generations, Activate(g)
    PROVE  QueueInv'
BY QueueAssumption DEF QueueInv, QueueTypeOK, PhaseInv, FifoExactlyOnce, OneGeneration, Activate

LEMMA DrainOnePreserves ==
    ASSUME QueueInv, DrainOne
    PROVE  QueueInv'
<1>1. /\ dispatched' = Append(dispatched, <<pending[index + 1], generation>>)
      /\ index' = index + 1
      /\ index < Len(pending)
      /\ UNCHANGED <<phase, pending, generation, arrived>>
  BY DEF DrainOne, DispatchActive, QueueInv, PhaseInv
<1>2. pending[index + 1] = Len(dispatched) + 1
  BY <1>1 DEF QueueInv, QueueTypeOK, FifoExactlyOnce
<1>3. QueueTypeOK'
  BY <1>1, <1>2 DEF QueueInv, QueueTypeOK
<1>4. PhaseInv'
  BY <1>1 DEF QueueInv, QueueTypeOK, PhaseInv, DrainOne
<1>5. FifoExactlyOnce'
  <2>1. DispatchedInOrder(dispatched')
    BY <1>1, <1>2, AppendInOrder DEF QueueInv, QueueTypeOK, FifoExactlyOnce, DispatchedInOrder
  <2>2. Len(dispatched') = Len(dispatched) + 1
    BY <1>1 DEF QueueInv, QueueTypeOK
  <2>3. ASSUME NEW i \in index + 2..Len(pending)
        PROVE  pending[i] = Len(dispatched) + 1 + i - (index + 1)
    BY DEF QueueInv, QueueTypeOK, FifoExactlyOnce
  <2>4. Len(dispatched) + 1 + Len(pending) - (index + 1) = arrived
    BY Counts
  <2>5. index' + 1 = index + 2
    BY <1>1 DEF QueueInv, QueueTypeOK
  <2> QED
    BY <1>1, <2>1, <2>2, <2>3, <2>4, <2>5 DEF FifoExactlyOnce, DispatchedInOrder
<1>6. OneGeneration'
  BY <1>1, AppendOneGeneration DEF QueueInv, QueueTypeOK, OneGeneration
<1> QED
  BY <1>3, <1>4, <1>5, <1>6 DEF QueueInv

LEMMA FinishDrainingPreserves ==
    ASSUME QueueInv, FinishDraining
    PROVE  QueueInv'
BY DEF QueueInv, QueueTypeOK, PhaseInv, FifoExactlyOnce, OneGeneration, FinishDraining

LEMMA QueueInvNext == QueueInv /\ [QueueNext]_queueVars => QueueInv'
<1> SUFFICES ASSUME QueueInv, [QueueNext]_queueVars
             PROVE  QueueInv'
  OBVIOUS
<1>1. CASE Enqueue
  BY <1>1, EnqueueBuffers, EnqueueDispatches
<1>2. ASSUME NEW g \in Generations, Activate(g)
      PROVE  QueueInv'
  BY <1>2, ActivatePreserves
<1>3. CASE DrainOne
  BY <1>3, DrainOnePreserves
<1>4. CASE FinishDraining
  BY <1>4, FinishDrainingPreserves
<1>5. CASE UNCHANGED queueVars
  BY <1>5 DEF queueVars, QueueInv, QueueTypeOK, PhaseInv, FifoExactlyOnce, OneGeneration
<1> QED
  BY <1>1, <1>2, <1>3, <1>4, <1>5 DEF QueueNext

-----------------------------------------------------------------------------

\* The variables keep their types; see gateway-notification-queue.ts, the
\* declarations at lines 21-23.
THEOREM QueueTypeCorrect == QueueSpec => []QueueTypeOK
<1>1. QueueInv => QueueTypeOK
  BY DEF QueueInv
<1> QED
  BY QueueInvInit, QueueInvNext, <1>1, PTL DEF QueueSpec

\* Every notification is dispatched once, in the order of its arrival, however
\* the arrivals interleave with the loop of `activate`.
THEOREM FifoDelivery == QueueSpec => []FifoExactlyOnce
<1>1. QueueInv => FifoExactlyOnce
  BY DEF QueueInv
<1> QED
  BY QueueInvInit, QueueInvNext, <1>1, PTL DEF QueueSpec

\* No notification is dispatched under a generation other than the one the
\* first call of `activate` gave.
THEOREM SingleGeneration == QueueSpec => []OneGeneration
<1>1. QueueInv => OneGeneration
  BY DEF QueueInv
<1> QED
  BY QueueInvInit, QueueInvNext, <1>1, PTL DEF QueueSpec

-----------------------------------------------------------------------------
(***************************************************************************)
(* SnapshotStore.  PublishedInOrder and StableWhilePublishing are not      *)
(* inductive: that a write made while nobody is notified may be published  *)
(* at once needs to know that nothing waits then and that no other         *)
(* publication is on the stack.  ListenersCaughtUp is not either: it       *)
(* follows from where those listeners are that have not heard yet.         *)
(***************************************************************************)

\* At most one frame of the stack is a publication, and only while notifying.
OnePublication ==
    \A i \in 1..Len(stack) : stack[i].kind = "publish" =>
        /\ notifying
        /\ \A j \in 1..Len(stack) : stack[j].kind = "publish" => j = i

\* Commits wait only while a publication runs.
NothingWaits == ~notifying \/ closed => pendingCommits = <<>>

IInv == TypeOK /\ PublishedInOrder /\ StableWhilePublishing /\ OnePublication /\ NothingWaits

-----------------------------------------------------------------------------

LEMMA PopFrame ==
    ASSUME TypeOK, stack # <<>>
    PROVE  /\ Pop \in Seq(Frames)
           /\ Len(Pop) = Len(stack) - 1
           /\ \A i \in 1..Len(stack) - 1 : Pop[i] = stack[i]
<1>1. Len(stack) \in Nat \ {0}
    BY DEF TypeOK
<1>2. \A i \in 1..Len(stack) - 1 : stack[i] \in Frames
    BY <1>1 DEF TypeOK
<1> DEFINE n == Len(stack) - 1
<1>3. n \in Int /\ 1 \in Int /\ \A i \in 1..n : stack[i] \in Frames
    BY <1>1, <1>2
<1> HIDE DEF n
<1>4. /\ SubSeq(stack, 1, n) \in Seq(Frames)
      /\ Len(SubSeq(stack, 1, n)) = IF 1 <= n THEN n - 1 + 1 ELSE 0
      /\ \A i \in 1..n - 1 + 1 : SubSeq(stack, 1, n)[i] = stack[1 + i - 1]
    BY <1>3, SubSeqProperties
<1>5. Pop = SubSeq(stack, 1, n) /\ n \in Nat /\ n = Len(stack) - 1
    BY <1>1 DEF Pop, n
<1> QED
    BY <1>4, <1>5

LEMMA ReplaceTop ==
    ASSUME TypeOK, stack # <<>>, NEW f \in Frames, NEW s,
           s = [stack EXCEPT ![Len(stack)] = f]
    PROVE  /\ s \in Seq(Frames)
           /\ Len(s) = Len(stack)
           /\ s[Len(stack)] = f
           /\ \A i \in 1..Len(stack) : i # Len(stack) => s[i] = stack[i]
    BY DEF TypeOK

LEMMA PublicationFrame ==
    ASSUME TypeOK, NEW s \in Snapshots
    PROVE  Publication(s) \in Frames
    BY DEF TypeOK, Publication, Frames

LEMMA InitIInv == Init => IInv
<1> SUFFICES ASSUME Init PROVE IInv
    OBVIOUS
<1> USE DEF Init
<1>1. TypeOK
  <2>1. sequence \in [Listeners -> 0..listenerSequence] /\ listenerSequence \in Nat
      OBVIOUS
  <2>2. state \in Snapshots /\ lastSnapshot \in [Listeners -> Snapshots]
      BY DEF Snapshots
  <2>3. pendingCommits \in Seq(Snapshots) /\ stack \in Seq(Frames) /\ log \in Seq(Snapshots)
      OBVIOUS
  <2> QED
      BY <2>1, <2>2, <2>3 DEF TypeOK
<1>2. PublishedInOrder
    BY DEF PublishedInOrder
<1>3. StableWhilePublishing /\ OnePublication /\ NothingWaits
    BY DEF StableWhilePublishing, OnePublication, NothingWaits
<1> QED
    BY <1>1, <1>2, <1>3 DEF IInv

-----------------------------------------------------------------------------

\* What the four parts of the invariant beside the types say about the stack
\* is kept by a step that changes no kind or snapshot in it and drops frames
\* at most.
LEMMA StackKept ==
    ASSUME StableWhilePublishing, OnePublication,
           Len(stack) \in Nat, Len(stack') \in Nat, Len(stack') <= Len(stack),
           \A i \in 1..Len(stack') : /\ stack'[i].kind = stack[i].kind
                                     /\ stack'[i].snapshot = stack[i].snapshot,
           UNCHANGED <<state, notifying, closed>>
    PROVE  StableWhilePublishing' /\ OnePublication'
<1>1. \A i \in 1..Len(stack') : /\ i \in 1..Len(stack)
                                /\ stack'[i].kind = stack[i].kind
                                /\ stack'[i].snapshot = stack[i].snapshot
    OBVIOUS
<1>2. StableWhilePublishing'
    BY <1>1 DEF StableWhilePublishing
<1>3. OnePublication'
    BY <1>1 DEF OnePublication
<1> QED
    BY <1>2, <1>3

LEMMA CountersTyped ==
    ASSUME TypeOK
    PROVE  /\ Len(log) \in Nat
           /\ Len(pendingCommits) \in Nat
           /\ Len(stack) \in Nat
           /\ stack # <<>> => Len(stack) >= 1 /\ Top \in Frames
    BY DEF TypeOK, Top

LEMMA AcceptPreserves ==
    ASSUME IInv, NEW s \in Snapshots, ~closed, Accept(s),
           UNCHANGED <<closed, registered, listenerSequence, sequence, lastSnapshot>>
    PROVE  IInv'
<1> USE DEF IInv
<1>1. /\ log' = Append(log, s)
      /\ Len(log') = Len(log) + 1
      /\ log'[Len(log) + 1] = s
      /\ \A i \in 1..Len(log) : log'[i] = log[i]
      /\ log' \in Seq(Snapshots)
    BY DEF Accept, TypeOK
<1>2. CASE notifying
  <2>1. /\ pendingCommits' = Append(pendingCommits, s)
        /\ UNCHANGED <<state, published, notifying, stack>>
      BY <1>2 DEF Accept
  <2>2. /\ Len(pendingCommits') = Len(pendingCommits) + 1
        /\ pendingCommits'[Len(pendingCommits) + 1] = s
        /\ \A i \in 1..Len(pendingCommits) : pendingCommits'[i] = pendingCommits[i]
        /\ pendingCommits' \in Seq(Snapshots)
      BY <2>1 DEF TypeOK
  <2>3. TypeOK'
      BY <1>1, <2>1, <2>2 DEF TypeOK
  <2>4. PublishedInOrder'
    <3>1. /\ published \in Nat /\ published <= Len(log)
          /\ Len(pendingCommits) = Len(log) - published
        BY DEF PublishedInOrder, TypeOK
    <3>2. ASSUME NEW i \in 1..Len(pendingCommits')
          PROVE  pendingCommits'[i] = log'[published + i]
      <4>0. /\ i \in Nat /\ 1 <= i /\ i <= Len(pendingCommits) + 1
            /\ Len(pendingCommits) \in Nat /\ Len(log) \in Nat
          BY <2>2, CountersTyped
      <4>1. CASE i = Len(pendingCommits) + 1
          BY <1>1, <2>2, <3>1, <4>1, CountersTyped
      <4>2. CASE i # Len(pendingCommits) + 1
        <5>1. i \in 1..Len(pendingCommits) /\ published + i \in 1..Len(log)
            BY ONLY <3>1, <4>0, <4>2
        <5>2. pendingCommits[i] = log[published + i]
            BY <5>1 DEF PublishedInOrder
        <5> QED
            BY <1>1, <2>2, <5>1, <5>2
      <4> QED
          BY <4>1, <4>2
    <3>3. published # 0 => log'[published] = log[published]
        BY <1>1, <3>1, CountersTyped
    <3>4. state' = IF published' = 0 THEN None ELSE log'[published']
        BY <2>1, <3>3 DEF PublishedInOrder
    <3>5. published' <= Len(log') /\ Len(pendingCommits') = Len(log') - published'
        BY <1>1, <2>1, <2>2, <3>1, CountersTyped
    <3> QED
        BY <2>1, <3>2, <3>4, <3>5 DEF PublishedInOrder
  <2>5. StableWhilePublishing' /\ OnePublication' /\ NothingWaits'
      BY <1>2, <2>1 DEF StableWhilePublishing, OnePublication, NothingWaits
  <2> QED
      BY <2>3, <2>4, <2>5
<1>3. CASE ~notifying
  <2>1. /\ state' = s /\ published' = published + 1 /\ notifying' = TRUE
        /\ stack' = Append(stack, Publication(s))
        /\ UNCHANGED pendingCommits
      BY <1>3 DEF Accept
  <2>2. /\ stack' \in Seq(Frames)
        /\ Len(stack') = Len(stack) + 1
        /\ stack'[Len(stack) + 1] = Publication(s)
        /\ \A i \in 1..Len(stack) : stack'[i] = stack[i]
    <3>1. stack \in Seq(Frames) /\ Publication(s) \in Frames
        BY PublicationFrame DEF TypeOK
    <3> QED
        BY ONLY <2>1, <3>1
  <2>3. TypeOK'
    <3>1. state' \in Snapshots /\ published' \in Nat /\ notifying' \in BOOLEAN
        BY <2>1 DEF TypeOK
    <3>2. /\ pendingCommits' \in Seq(Snapshots) /\ closed' \in BOOLEAN
          /\ registered' \subseteq Listeners /\ listenerSequence' \in Nat
        BY <2>1 DEF TypeOK
    <3>3. /\ sequence' \in [Listeners -> 0..listenerSequence']
          /\ lastSnapshot' \in [Listeners -> Snapshots]
        BY DEF TypeOK
    <3> QED
        BY ONLY <1>1, <2>2, <3>1, <3>2, <3>3 DEF TypeOK
  <2>4. pendingCommits = <<>> /\ published = Len(log)
      BY <1>3, CountersTyped DEF NothingWaits, PublishedInOrder, TypeOK
  <2>5. PublishedInOrder' /\ NothingWaits'
      BY <1>1, <2>1, <2>4, CountersTyped DEF PublishedInOrder, NothingWaits
  <2>6. \A i \in 1..Len(stack) : stack'[i].kind # "publish"
      BY <1>3, <2>2 DEF OnePublication
  <2>7. StableWhilePublishing' /\ OnePublication'
    <3>1. \A i \in 1..Len(stack') : i \in 1..Len(stack) \/ i = Len(stack) + 1
        BY <2>2, CountersTyped
    <3>2. Publication(s).snapshot = state'
        BY <2>1 DEF Publication
    <3> QED
        BY <2>1, <2>2, <2>6, <3>1, <3>2 DEF StableWhilePublishing, OnePublication
  <2> QED
      BY <2>3, <2>5, <2>7
<1> QED
    BY <1>2, <1>3 DEF TypeOK

LEMMA CommitPreserves ==
    ASSUME IInv, Commit
    PROVE  IInv'
<1>1. Len(log) + 1 \in Snapshots
    BY StoreAssumption, CountersTyped DEF IInv, Commit, Accept, Snapshots
<1> QED
    BY <1>1, AcceptPreserves DEF Commit

LEMMA ClearPreserves ==
    ASSUME IInv, Clear
    PROVE  IInv'
    BY AcceptPreserves DEF Clear, Snapshots

LEMMA ClosePreserves ==
    ASSUME IInv, Close
    PROVE  IInv'
<1> USE DEF IInv, Close
<1>1. TypeOK'
    BY DEF TypeOK, Snapshots
<1>2. PublishedInOrder' /\ StableWhilePublishing'
    BY DEF PublishedInOrder, StableWhilePublishing
<1>3. OnePublication' /\ NothingWaits'
    BY DEF OnePublication, NothingWaits
<1> QED
    BY <1>1, <1>2, <1>3

LEMMA SubscribePreserves ==
    ASSUME IInv, NEW l \in Listeners, Subscribe(l)
    PROVE  IInv'
<1> USE DEF IInv
<1>1. PublishedInOrder' /\ NothingWaits'
    BY DEF Subscribe, PublishedInOrder, NothingWaits
<1>2. /\ registered' \subseteq Listeners
      /\ listenerSequence' \in Nat
      /\ sequence' \in [Listeners -> 0..listenerSequence']
    BY DEF Subscribe, TypeOK
<1>3. CASE state = None
  <2>1. TypeOK'
      BY <1>2, <1>3 DEF Subscribe, TypeOK
  <2>2. StableWhilePublishing' /\ OnePublication'
      BY <1>3 DEF Subscribe, StableWhilePublishing, OnePublication
  <2> QED
      BY <1>1, <2>1, <2>2
<1>4. CASE state # None
  <2> DEFINE f == [kind |-> "subscribe", snapshot |-> state, todo |-> {}, calling |-> l]
  <2>1. stack' = Append(stack, f) /\ lastSnapshot' = [lastSnapshot EXCEPT ![l] = state]
      BY <1>4 DEF Subscribe
  <2>2. f \in Frames /\ f.kind = "subscribe"
      BY DEF Frames, TypeOK
  <2> HIDE DEF f
  <2>3. /\ stack' \in Seq(Frames)
        /\ Len(stack') = Len(stack) + 1
        /\ stack'[Len(stack) + 1] = f
        /\ \A i \in 1..Len(stack) : stack'[i] = stack[i]
    <3>1. stack \in Seq(Frames) /\ f \in Frames /\ stack' = Append(stack, f)
        BY <2>1, <2>2 DEF TypeOK
    <3> QED
        BY ONLY <3>1
  <2>4. TypeOK'
    <3>1. lastSnapshot' \in [Listeners -> Snapshots] /\ state' \in Snapshots
        BY <2>1 DEF Subscribe, TypeOK
    <3>2. /\ pendingCommits' \in Seq(Snapshots) /\ log' \in Seq(Snapshots)
          /\ published' \in Nat /\ notifying' \in BOOLEAN /\ closed' \in BOOLEAN
        BY DEF Subscribe, TypeOK
    <3> QED
        BY ONLY <1>2, <2>3, <3>1, <3>2 DEF TypeOK
  <2>5. \A i \in 1..Len(stack') : stack'[i].kind = "publish" => i \in 1..Len(stack)
      BY <2>2, <2>3, CountersTyped
  <2>6. UNCHANGED <<state, notifying, closed>>
      BY DEF Subscribe
  <2>7. StableWhilePublishing' /\ OnePublication'
      BY <2>3, <2>5, <2>6 DEF StableWhilePublishing, OnePublication
  <2> QED
      BY <1>1, <2>4, <2>7
<1> QED
    BY <1>3, <1>4

LEMMA UnsubscribePreserves ==
    ASSUME IInv, NEW l \in Listeners, Unsubscribe(l)
    PROVE  IInv'
<1> USE DEF IInv, Unsubscribe
<1>1. TypeOK'
    BY DEF TypeOK
<1>2. PublishedInOrder' /\ NothingWaits'
    BY DEF PublishedInOrder, NothingWaits
<1>3. StableWhilePublishing' /\ OnePublication'
    BY DEF StableWhilePublishing, OnePublication
<1> QED
    BY <1>1, <1>2, <1>3

\* The steps that only move the top frame on.
LEMMA TopFrameMoves ==
    ASSUME IInv, stack # <<>>, NEW f \in Frames,
           f.kind = Top.kind, f.snapshot = Top.snapshot,
           stack' = [stack EXCEPT ![Len(stack)] = f],
           lastSnapshot' \in [Listeners -> Snapshots],
           UNCHANGED <<state, pendingCommits, notifying, closed, registered,
                       listenerSequence, sequence, log, published>>
    PROVE  IInv'
<1> USE DEF IInv
<1>1. /\ stack' \in Seq(Frames)
      /\ Len(stack') = Len(stack)
      /\ stack'[Len(stack)] = f
      /\ \A i \in 1..Len(stack) : i # Len(stack) => stack'[i] = stack[i]
    BY ReplaceTop
<1>2. TypeOK'
    BY <1>1 DEF TypeOK
<1>3. PublishedInOrder' /\ NothingWaits'
    BY DEF PublishedInOrder, NothingWaits
<1>4. \A i \in 1..Len(stack') : /\ stack'[i].kind = stack[i].kind
                                 /\ stack'[i].snapshot = stack[i].snapshot
    BY <1>1 DEF Top
<1>5. Len(stack) \in Nat /\ Len(stack') \in Nat /\ Len(stack') <= Len(stack)
  <2>1. Len(stack) \in Nat /\ Len(stack') = Len(stack)
      BY <1>1, CountersTyped
  <2> QED
      BY ONLY <2>1
<1>6. StableWhilePublishing' /\ OnePublication'
    BY <1>4, <1>5, StackKept
<1> QED
    BY <1>2, <1>3, <1>6

LEMMA VisitPreserves ==
    ASSUME IInv, NEW l \in Listeners, Visit(l)
    PROVE  IInv'
<1> DEFINE skip == Skips(l, Top.snapshot)
           f == [Top EXCEPT !.todo = @ \ {l}, !.calling = IF skip THEN None ELSE l]
<1>1. stack # <<>> /\ Top \in Frames /\ Top = stack[Len(stack)]
    BY CountersTyped DEF IInv, Visit, Top
<1>2. f \in Frames /\ f.kind = Top.kind /\ f.snapshot = Top.snapshot
    BY <1>1 DEF Frames
<1>3. stack' = [stack EXCEPT ![Len(stack)] = f]
    BY <1>1, CountersTyped DEF IInv, TypeOK, Visit, VisitOne
<1>4. Top.snapshot \in Snapshots
    BY <1>1 DEF Frames
<1>5. lastSnapshot' \in [Listeners -> Snapshots]
    BY <1>4 DEF IInv, TypeOK, Visit, VisitOne
<1>6. UNCHANGED <<state, pendingCommits, notifying, closed, registered,
                  listenerSequence, sequence, log, published>>
    BY DEF Visit, VisitOne
<1> HIDE DEF f, skip
<1> QED
    BY <1>1, <1>2, <1>3, <1>5, <1>6, TopFrameMoves

LEMMA ListenerReturnsPreserves ==
    ASSUME IInv, ListenerReturns
    PROVE  IInv'
<1> USE DEF IInv
<1>1. /\ stack # <<>> /\ Top \in Frames /\ Top = stack[Len(stack)]
      /\ UNCHANGED <<state, pendingCommits, notifying, closed, registered,
                     listenerSequence, sequence, lastSnapshot, log, published>>
    BY CountersTyped DEF ListenerReturns, Top
<1>2. CASE Top.kind = "publish"
  <2> DEFINE f == [Top EXCEPT !.calling = None]
  <2>1. f \in Frames /\ f.kind = Top.kind /\ f.snapshot = Top.snapshot
      BY <1>1 DEF Frames
  <2>2. stack' = [stack EXCEPT ![Len(stack)] = f]
      BY <1>1, <1>2, CountersTyped DEF TypeOK, ListenerReturns
  <2>3. lastSnapshot' \in [Listeners -> Snapshots]
      BY <1>1 DEF TypeOK
  <2> HIDE DEF f
  <2> QED
      BY <1>1, <2>1, <2>2, <2>3, TopFrameMoves
<1>3. CASE Top.kind # "publish"
  <2>1. stack' = Pop
      BY <1>3 DEF ListenerReturns
  <2>2. /\ stack' \in Seq(Frames)
        /\ Len(stack') = Len(stack) - 1
        /\ \A i \in 1..Len(stack') : stack'[i] = stack[i]
      BY <1>1, <2>1, PopFrame
  <2>3. TypeOK'
      BY <1>1, <2>2 DEF TypeOK
  <2>4. PublishedInOrder' /\ NothingWaits'
      BY <1>1 DEF PublishedInOrder, NothingWaits
  <2>5. StableWhilePublishing' /\ OnePublication'
      BY <1>1, <2>2, StackKept, CountersTyped
  <2> QED
      BY <2>3, <2>4, <2>5
<1> QED
    BY <1>2, <1>3

LEMMA PublicationEndsPreserves ==
    ASSUME IInv, PublicationEnds
    PROVE  IInv'
<1> USE DEF IInv
<1>1. /\ stack # <<>> /\ Top \in Frames /\ Top = stack[Len(stack)]
      /\ Top.kind = "publish" /\ Len(stack) \in Nat /\ Len(stack) >= 1
      /\ UNCHANGED <<closed, registered, listenerSequence, sequence, lastSnapshot, log>>
    BY CountersTyped DEF PublicationEnds, Top
<1>2. \A i \in 1..Len(stack) : stack[i].kind = "publish" => i = Len(stack)
    BY <1>1 DEF OnePublication
<1>3. CASE closed \/ pendingCommits = <<>>
  <2>1. stack' = Pop /\ notifying' = FALSE /\ UNCHANGED <<state, pendingCommits, published>>
      BY <1>3 DEF PublicationEnds
  <2>2. /\ stack' \in Seq(Frames)
        /\ Len(stack') = Len(stack) - 1
        /\ \A i \in 1..Len(stack') : stack'[i] = stack[i]
      BY <1>1, <2>1, PopFrame
  <2>3. TypeOK'
      BY <1>1, <2>1, <2>2 DEF TypeOK
  <2>4. PublishedInOrder' /\ NothingWaits'
      BY <1>1, <1>3, <2>1 DEF PublishedInOrder, NothingWaits
  <2>5. \A i \in 1..Len(stack') : stack'[i].kind # "publish"
      BY <1>1, <1>2, <2>2
  <2>6. StableWhilePublishing' /\ OnePublication'
      BY <2>5 DEF StableWhilePublishing, OnePublication
  <2> QED
      BY <2>3, <2>4, <2>6
<1>4. CASE ~closed /\ pendingCommits # <<>>
  <2> DEFINE s == Head(pendingCommits)
  <2>1. /\ state' = s /\ pendingCommits' = Tail(pendingCommits)
        /\ published' = published + 1 /\ UNCHANGED notifying
        /\ stack' = [stack EXCEPT ![Len(stack)] = Publication(s)]
      BY <1>4 DEF PublicationEnds
  <2>2. /\ s \in Snapshots /\ s = pendingCommits[1]
        /\ pendingCommits' \in Seq(Snapshots)
        /\ Len(pendingCommits') = Len(pendingCommits) - 1
        /\ Len(pendingCommits) \in Nat /\ Len(pendingCommits) >= 1
        /\ \A i \in 1..Len(pendingCommits') : pendingCommits'[i] = pendingCommits[i + 1]
      BY <1>4, <2>1, HeadTailProperties DEF TypeOK
  <2> HIDE DEF s
  <2>3. /\ stack' \in Seq(Frames)
        /\ Len(stack') = Len(stack)
        /\ stack'[Len(stack)] = Publication(s)
        /\ \A i \in 1..Len(stack) : i # Len(stack) => stack'[i] = stack[i]
    <3>1. stack \in Seq(Frames) /\ Publication(s) \in Frames
        BY <2>2, PublicationFrame DEF TypeOK
    <3>2. Len(stack) \in Nat /\ Len(stack) >= 1
        BY <1>1
    <3> QED
        BY ONLY <2>1, <3>1, <3>2
  <2>4. TypeOK'
    <3>1. published' \in Nat /\ notifying' \in BOOLEAN /\ state' \in Snapshots
        BY <2>1, <2>2 DEF TypeOK
    <3>2. /\ closed' \in BOOLEAN /\ registered' \subseteq Listeners
          /\ listenerSequence' \in Nat /\ log' \in Seq(Snapshots)
        BY <1>1 DEF TypeOK
    <3>3. /\ sequence' \in [Listeners -> 0..listenerSequence']
          /\ lastSnapshot' \in [Listeners -> Snapshots]
        BY <1>1 DEF TypeOK
    <3> QED
        BY ONLY <2>2, <2>3, <3>1, <3>2, <3>3 DEF TypeOK
  <2>5. notifying
      BY <1>1 DEF OnePublication
  <2>6. NothingWaits'
      BY <1>1, <1>4, <2>1, <2>5 DEF NothingWaits
  <2>7. /\ published \in Nat /\ published <= Len(log) /\ Len(log) \in Nat
        /\ Len(pendingCommits) = Len(log) - published
        /\ \A i \in 1..Len(pendingCommits) : pendingCommits[i] = log[published + i]
      BY <1>4, CountersTyped DEF PublishedInOrder, TypeOK
  <2>8. PublishedInOrder'
    <3>1. published' <= Len(log') /\ Len(pendingCommits') = Len(log') - published'
        BY <1>1, <2>1, <2>2, <2>7
    <3>2. state' = log'[published'] /\ published' # 0
      <4>1. 1 \in 1..Len(pendingCommits)
          BY <2>2
      <4>2. pendingCommits[1] = log[published + 1]
          BY <2>7, <4>1
      <4> QED
          BY <1>1, <2>1, <2>2, <2>7, <4>2
    <3>3. ASSUME NEW i \in 1..Len(pendingCommits')
          PROVE  pendingCommits'[i] = log'[published' + i]
      <4>1. i + 1 \in 1..Len(pendingCommits) /\ published' + i = published + (i + 1)
        <5>1. /\ published' = published + 1 /\ published \in Nat
              /\ Len(pendingCommits') = Len(pendingCommits) - 1
              /\ Len(pendingCommits) \in Nat /\ Len(pendingCommits) >= 1
              /\ i \in 1..Len(pendingCommits')
            BY <2>1, <2>2, <2>7
        <5> QED
            BY ONLY <5>1
      <4> QED
          BY <1>1, <2>2, <2>7, <4>1
    <3> QED
        BY <3>1, <3>2, <3>3 DEF PublishedInOrder
  <2>9. StableWhilePublishing' /\ OnePublication'
    <3>1. Publication(s).snapshot = state'
        BY <2>1 DEF Publication
    <3>2. \A i \in 1..Len(stack') : stack'[i].kind = "publish" => i = Len(stack)
        BY <1>2, <2>3
    <3> QED
        BY <2>1, <2>3, <2>5, <3>1, <3>2 DEF StableWhilePublishing, OnePublication
  <2> QED
      BY <2>4, <2>6, <2>8, <2>9
<1> QED
    BY <1>3, <1>4

LEMMA NextIInv == IInv /\ [Next]_vars => IInv'
<1> SUFFICES ASSUME IInv, [Next]_vars PROVE IInv'
    OBVIOUS
<1>1. CASE Commit
    BY <1>1, CommitPreserves
<1>2. CASE Clear
    BY <1>2, ClearPreserves
<1>3. CASE Close
    BY <1>3, ClosePreserves
<1>4. ASSUME NEW l \in Listeners, Subscribe(l) PROVE IInv'
    BY <1>4, SubscribePreserves
<1>5. ASSUME NEW l \in Listeners, Unsubscribe(l) PROVE IInv'
    BY <1>5, UnsubscribePreserves
<1>6. ASSUME NEW l \in Listeners, Visit(l) PROVE IInv'
    BY <1>6, VisitPreserves
<1>7. CASE ListenerReturns
    BY <1>7, ListenerReturnsPreserves
<1>8. CASE PublicationEnds
    BY <1>8, PublicationEndsPreserves
<1>9. CASE UNCHANGED vars
  <2>1. TypeOK'
      BY <1>9 DEF vars, IInv, TypeOK
  <2>2. PublishedInOrder' /\ NothingWaits'
      BY <1>9 DEF vars, IInv, PublishedInOrder, NothingWaits
  <2>3. StableWhilePublishing' /\ OnePublication'
      BY <1>9 DEF vars, IInv, StableWhilePublishing, OnePublication
  <2> QED
      BY <2>1, <2>2, <2>3 DEF IInv
<1> QED
    BY <1>1, <1>2, <1>3, <1>4, <1>5, <1>6, <1>7, <1>8, <1>9 DEF Next, Run

LEMMA Invariance == Spec => []IInv
<1>1. Init => IInv
    BY InitIInv
<1>2. IInv /\ [Next]_vars => IInv'
    BY NextIInv
<1> QED
    BY <1>1, <1>2, PTL DEF Spec

-----------------------------------------------------------------------------

\* Every variable keeps its type; no sequence exceeds the counter it is taken
\* from (the fields of SnapshotStore and of its registrations).
THEOREM TypeCorrect == Spec => []TypeOK
<1>1. IInv => TypeOK
    BY DEF IInv
<1> QED
    BY <1>1, Invariance, PTL

\* For any number of listeners and commits, however writes are nested: what
\* was published followed by what is pending is what was accepted, in order
\* (the loop of commit and clear).
THEOREM PublicationInOrder == Spec => []PublishedInOrder
<1>1. IInv => PublishedInOrder
    BY DEF IInv
<1> QED
    BY <1>1, Invariance, PTL

\* Until a publication ends, its snapshot is the one getSnapshot() returns (the
\* `notifying` flag that defers the writes of listeners).
THEOREM StablePublication == Spec => []StableWhilePublishing
<1>1. IInv => StableWhilePublishing
    BY DEF IInv
<1> QED
    BY <1>1, Invariance, PTL

-----------------------------------------------------------------------------
(* Nobody is left behind.  ListenersCaughtUp speaks of the moments at      *)
(* which no frame is left; the invariant says of every moment that who has *)
(* not heard yet is still to be visited.                                   *)

\* Listener l has not heard of the present state, and is to.
Behind(l) ==
    l \in registered /\ lastSnapshot[l] # state /\ (state = None => l \in StateListeners)

\* A publication that has still to visit l.
Reaches(l) ==
    \E i \in 1..Len(stack) : stack[i].kind = "publish" /\ l \in stack[i].todo

BehindAreReached == \A l \in Listeners : Behind(l) => Reaches(l)

\* Before it subscribes a listener is not registered and has heard of nothing.
FirstHeard == \A l \in Listeners : sequence[l] = 0 => l \notin registered /\ lastSnapshot[l] = None

ClosedIsEmpty == closed => registered = {}

CaughtUpInv == BehindAreReached /\ FirstHeard /\ ClosedIsEmpty

\* A commit, or a clear, reaches everybody who is registered, or waits.
LEMMA AcceptReaches ==
    ASSUME IInv, CaughtUpInv, NEW s \in Snapshots, Accept(s),
           UNCHANGED <<closed, registered, listenerSequence, sequence, lastSnapshot>>
    PROVE  CaughtUpInv'
<1>1. FirstHeard' /\ ClosedIsEmpty'
    BY DEF CaughtUpInv, FirstHeard, ClosedIsEmpty
<1>2. CASE notifying
  <2>1. UNCHANGED <<state, stack>>
      BY <1>2 DEF Accept
  <2> QED
      BY <1>1, <2>1 DEF CaughtUpInv, BehindAreReached, Behind, Reaches
<1>3. CASE ~notifying
  <2>1. stack' = Append(stack, Publication(s))
      BY <1>3 DEF Accept
  <2>2. stack \in Seq(Frames) /\ Publication(s) \in Frames
      BY PublicationFrame DEF IInv, TypeOK
  <2>3. Len(stack') = Len(stack) + 1 /\ stack'[Len(stack) + 1] = Publication(s)
        /\ Len(stack) \in Nat
      BY ONLY <2>1, <2>2
  <2>4. /\ Len(stack) + 1 \in 1..Len(stack') /\ stack'[Len(stack) + 1].kind = "publish"
        /\ stack'[Len(stack) + 1].todo = registered
      BY <2>3 DEF Publication
  <2>5. \A l \in registered : Reaches(l)'
      BY <2>4 DEF Reaches
  <2> QED
      BY <1>1, <2>5 DEF CaughtUpInv, BehindAreReached, Behind
<1> QED
    BY <1>2, <1>3

\* A new listener is up to date from the beginning.
LEMMA SubscribeReaches ==
    ASSUME IInv, CaughtUpInv, NEW l \in Listeners, Subscribe(l)
    PROVE  CaughtUpInv'
<1>1. /\ sequence[l] = 0 /\ l \notin registered /\ lastSnapshot[l] = None
      /\ registered' = registered \cup {l} /\ ~closed
      /\ UNCHANGED <<state, closed>>
      /\ sequence' = [sequence EXCEPT ![l] = listenerSequence + 1]
    BY DEF Subscribe, CaughtUpInv, FirstHeard
<1>2. /\ lastSnapshot \in [Listeners -> Snapshots] /\ sequence \in [Listeners -> 0..listenerSequence]
      /\ listenerSequence \in Nat /\ stack \in Seq(Frames)
    BY DEF IInv, TypeOK
<1>3. /\ lastSnapshot'[l] = state
      /\ \A n \in Listeners : n # l => lastSnapshot'[n] = lastSnapshot[n]
    BY <1>1, <1>2 DEF Subscribe
<1>4. Len(stack') >= Len(stack) /\ Len(stack) \in Nat /\ Len(stack') \in Nat
      /\ \A i \in 1..Len(stack) : stack'[i] = stack[i]
  <2>1. CASE state = None
      BY <1>2, <2>1 DEF Subscribe
  <2>2. CASE state # None
    <3> DEFINE f == [kind |-> "subscribe", snapshot |-> state, todo |-> {}, calling |-> l]
    <3>1. stack' = Append(stack, f) /\ f \in Frames
        BY <2>2 DEF Subscribe, Frames, IInv, TypeOK
    <3> HIDE DEF f
    <3> QED
        BY ONLY <1>2, <3>1
  <2> QED
      BY <2>1, <2>2
<1>5. ASSUME NEW n \in Listeners, Behind(n)'
      PROVE  Reaches(n)'
  <2>1. n # l /\ Behind(n)
      BY <1>1, <1>3, <1>5 DEF Behind
  <2>2. PICK i \in 1..Len(stack) : stack[i].kind = "publish" /\ n \in stack[i].todo
      BY <2>1 DEF CaughtUpInv, BehindAreReached, Reaches
  <2>3. i \in 1..Len(stack') /\ stack'[i] = stack[i]
      BY <1>4
  <2> QED
      BY <2>2, <2>3 DEF Reaches
<1>6. FirstHeard'
    BY <1>1, <1>2, <1>3 DEF FirstHeard, CaughtUpInv
<1>7. ClosedIsEmpty'
    BY <1>1 DEF ClosedIsEmpty
<1> QED
    BY <1>5, <1>6, <1>7 DEF CaughtUpInv, BehindAreReached

\* Only the publication on top may visit anybody, and whoever it visits hears of
\* the present state.
LEMMA VisitReaches ==
    ASSUME IInv, CaughtUpInv, NEW l \in Listeners, Visit(l)
    PROVE  CaughtUpInv'
<1> DEFINE n == Len(stack)
           skip == Skips(l, Top.snapshot)
           f == [Top EXCEPT !.todo = @ \ {l}, !.calling = IF skip THEN None ELSE l]
<1>1. /\ stack # <<>> /\ stack \in Seq(Frames) /\ Top \in Frames /\ Top = stack[n]
      /\ n \in 1..n /\ Top.kind = "publish"
    BY CountersTyped DEF IInv, TypeOK, Visit, Top
<1>2. f \in Frames /\ f.kind = "publish" /\ f.todo = Top.todo \ {l}
    BY <1>1 DEF Frames
<1>3. stack' = [stack EXCEPT ![n] = f]
    BY <1>1 DEF Visit, VisitOne
<1>4. UNCHANGED <<state, closed, registered, sequence>>
    BY DEF Visit, VisitOne
<1>5. /\ lastSnapshot \in [Listeners -> Snapshots]
      /\ lastSnapshot' = IF skip THEN lastSnapshot
                         ELSE [lastSnapshot EXCEPT ![l] = Top.snapshot]
    BY DEF IInv, TypeOK, Visit, VisitOne
<1>6. ~closed => Top.snapshot = state
    BY <1>1 DEF IInv, StableWhilePublishing
<1>7. \A k \in Listeners : k # l => lastSnapshot'[k] = lastSnapshot[k]
    BY <1>5
<1>8. ~Behind(l)'
  <2>1. CASE skip
      BY <1>4, <1>5, <1>6, <2>1 DEF Behind, Skips, CaughtUpInv, ClosedIsEmpty
  <2>2. CASE ~skip
      BY <1>4, <1>5, <1>6, <2>2 DEF Behind, CaughtUpInv, ClosedIsEmpty
  <2> QED
      BY <2>1, <2>2
<1>9. FirstHeard' /\ ClosedIsEmpty'
  <2>1. ~skip => l \in registered
      BY DEF Skips
  <2> QED
      BY <1>4, <1>5, <1>7, <2>1 DEF CaughtUpInv, FirstHeard, ClosedIsEmpty
<1> HIDE DEF f, skip
<1>10. /\ Len(stack') = n /\ stack'[n] = f
       /\ \A i \in 1..n : i # n => stack'[i] = stack[i]
    BY <1>1, <1>2, <1>3
<1> HIDE DEF n
<1>11. ASSUME NEW k \in Listeners, Behind(k)'
       PROVE  Reaches(k)'
  <2>1. k # l /\ Behind(k)
      BY <1>4, <1>7, <1>8, <1>11 DEF Behind
  <2>2. PICK i \in 1..Len(stack) : stack[i].kind = "publish" /\ k \in stack[i].todo
      BY <2>1 DEF CaughtUpInv, BehindAreReached, Reaches
  <2>3. CASE i = n
      BY <1>1, <1>2, <1>10, <2>1, <2>2, <2>3 DEF Reaches
  <2>4. CASE i # n
      BY <1>10, <2>2, <2>4 DEF Reaches, n
  <2> QED
      BY <2>3, <2>4
<1> QED
    BY <1>9, <1>11 DEF CaughtUpInv, BehindAreReached

\* A publication outlives the calls on top of it.
LEMMA ReturnReaches ==
    ASSUME IInv, CaughtUpInv, ListenerReturns
    PROVE  CaughtUpInv'
<1> DEFINE n == Len(stack)
<1>1. /\ stack # <<>> /\ stack \in Seq(Frames) /\ Top \in Frames /\ Top = stack[n]
      /\ n \in Nat /\ n >= 1
      /\ UNCHANGED <<state, closed, registered, sequence, lastSnapshot>>
    BY CountersTyped DEF IInv, TypeOK, ListenerReturns, Top
<1>2. CASE Top.kind = "publish"
  <2> DEFINE f == [Top EXCEPT !.calling = None]
  <2>1. f \in Frames /\ f.kind = Top.kind /\ f.todo = Top.todo
      BY <1>1 DEF Frames
  <2>2. stack' = [stack EXCEPT ![n] = f]
      BY <1>1, <1>2 DEF ListenerReturns
  <2> HIDE DEF f
  <2>3. Len(stack') = n /\ stack'[n] = f /\ \A i \in 1..n : i # n => stack'[i] = stack[i]
      BY <1>1, <2>1, <2>2
  <2>4. \A i \in 1..n : stack'[i].kind = stack[i].kind /\ stack'[i].todo = stack[i].todo
      BY <1>1, <2>1, <2>3
  <2> HIDE DEF n
  <2>5. \A l \in Listeners : Reaches(l) => Reaches(l)'
      BY <2>3, <2>4 DEF Reaches, n
  <2> QED
      BY <1>1, <2>5 DEF CaughtUpInv, BehindAreReached, Behind, FirstHeard, ClosedIsEmpty
<1>3. CASE Top.kind # "publish"
  <2>1. stack' = Pop
      BY <1>3 DEF ListenerReturns
  <2>2. Len(stack') = n - 1 /\ \A i \in 1..n - 1 : stack'[i] = stack[i]
      BY <1>1, <2>1, PopFrame DEF IInv
  <2>3. \A l \in Listeners : Reaches(l) => Reaches(l)'
    <3> SUFFICES ASSUME NEW l \in Listeners, Reaches(l) PROVE Reaches(l)'
        OBVIOUS
    <3>1. PICK i \in 1..n : stack[i].kind = "publish" /\ l \in stack[i].todo
        BY DEF Reaches
    <3>2. i \in 1..n - 1 /\ i \in 1..Len(stack')
        BY <1>1, <1>3, <2>2, <3>1
    <3> QED
        BY <2>2, <3>1, <3>2 DEF Reaches
  <2> QED
      BY <1>1, <2>3 DEF CaughtUpInv, BehindAreReached, Behind, FirstHeard, ClosedIsEmpty
<1> QED
    BY <1>2, <1>3

\* When a publication ends it has reached everybody.
LEMMA EndReaches ==
    ASSUME IInv, CaughtUpInv, PublicationEnds
    PROVE  CaughtUpInv'
<1> DEFINE n == Len(stack)
<1>1. /\ stack # <<>> /\ stack \in Seq(Frames) /\ Top = stack[n] /\ Top.kind = "publish"
      /\ Top.todo = {} /\ n \in 1..n /\ UNCHANGED <<closed, registered, sequence, lastSnapshot>>
    BY CountersTyped DEF IInv, TypeOK, PublicationEnds, Top
<1>2. \A i \in 1..n : stack[i].kind = "publish" => stack[i].todo = {}
    BY <1>1 DEF IInv, OnePublication
<1>3. \A l \in Listeners : ~Behind(l)
    BY <1>2 DEF CaughtUpInv, BehindAreReached, Reaches
<1>4. FirstHeard' /\ ClosedIsEmpty'
    BY <1>1 DEF CaughtUpInv, FirstHeard, ClosedIsEmpty
<1>5. CASE closed \/ pendingCommits = <<>>
  <2>1. state' = state
      BY <1>5 DEF PublicationEnds
  <2> QED
      BY <1>1, <1>3, <1>4, <2>1 DEF CaughtUpInv, BehindAreReached, Behind
<1>6. CASE ~closed /\ pendingCommits # <<>>
  <2> DEFINE f == Publication(Head(pendingCommits))
  <2>1. stack' = [stack EXCEPT ![n] = f]
      BY <1>6 DEF PublicationEnds
  <2>2. f.kind = "publish" /\ f.todo = registered
      BY DEF Publication
  <2>3. f \in Frames
    <3>1. Head(pendingCommits) \in Snapshots
        BY <1>6, HeadTailProperties DEF IInv, TypeOK
    <3> QED
        BY <3>1, PublicationFrame DEF IInv
  <2> HIDE DEF f
  <2>4. Len(stack') = n /\ stack'[n] = f
      BY <1>1, <2>1, <2>3
  <2>5. \A l \in registered : Reaches(l)'
      BY <1>1, <2>2, <2>4 DEF Reaches
  <2> QED
      BY <1>1, <1>4, <2>5 DEF CaughtUpInv, BehindAreReached, Behind
<1> QED
    BY <1>5, <1>6

\* Every step keeps everybody reached.
LEMMA CaughtUpStep == IInv /\ CaughtUpInv /\ [Next]_vars => CaughtUpInv'
<1> SUFFICES ASSUME IInv, CaughtUpInv, [Next]_vars PROVE CaughtUpInv'
    OBVIOUS
<1>1. CASE Commit
  <2>1. Len(log) + 1 \in Snapshots
      BY <1>1, StoreAssumption, CountersTyped DEF IInv, Commit, Accept, Snapshots
  <2> QED
      BY <1>1, <2>1, AcceptReaches DEF Commit
<1>2. CASE Clear
    BY <1>2, AcceptReaches DEF Clear, Snapshots
<1>3. CASE Close
    BY <1>3 DEF Close, CaughtUpInv, BehindAreReached, Behind, FirstHeard, ClosedIsEmpty
<1>4. ASSUME NEW l \in Listeners, Subscribe(l) PROVE CaughtUpInv'
    BY <1>4, SubscribeReaches
<1>5. ASSUME NEW l \in Listeners, Unsubscribe(l) PROVE CaughtUpInv'
    BY <1>5 DEF Unsubscribe, CaughtUpInv, BehindAreReached, Behind, Reaches, FirstHeard,
                ClosedIsEmpty
<1>6. ASSUME NEW l \in Listeners, Visit(l) PROVE CaughtUpInv'
    BY <1>6, VisitReaches
<1>7. CASE ListenerReturns
    BY <1>7, ReturnReaches
<1>8. CASE PublicationEnds
    BY <1>8, EndReaches
<1>9. CASE UNCHANGED vars
    BY <1>9 DEF vars, CaughtUpInv, BehindAreReached, Behind, Reaches, FirstHeard, ClosedIsEmpty
<1> QED
    BY <1>1, <1>2, <1>3, <1>4, <1>5, <1>6, <1>7, <1>8, <1>9 DEF Next, Run

\* When the host is back in control every registered listener has heard of the
\* present state, whoever subscribed, wrote or left in the middle of a
\* publication (the loop of commit and clear, the call of a new subscriber).
THEOREM EverybodyCaughtUp == Spec => []ListenersCaughtUp
<1>1. Init => CaughtUpInv
    BY DEF Init, CaughtUpInv, BehindAreReached, Behind, FirstHeard, ClosedIsEmpty
<1>2. IInv /\ CaughtUpInv => ListenersCaughtUp
  <2> SUFFICES ASSUME IInv, CaughtUpInv, stack = <<>>, NEW l \in registered,
                      lastSnapshot[l] # state
               PROVE  state = None /\ l \notin StateListeners
      BY DEF ListenersCaughtUp
  <2>1. l \in Listeners /\ ~Reaches(l)
      BY DEF IInv, TypeOK, Reaches
  <2> QED
      BY <2>1 DEF CaughtUpInv, BehindAreReached, Behind
<1>3. IInv /\ CaughtUpInv /\ [Next]_vars => CaughtUpInv'
    BY CaughtUpStep
<1> QED
    BY <1>1, <1>2, <1>3, Invariance, PTL DEF Spec

=============================================================================
