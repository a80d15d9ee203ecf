------------------------ MODULE ChatCommands_proofs ------------------------
(***************************************************************************)
(* Proofs of the safety properties of ChatCommands: what a view shows of   *)
(* the commands of its user, for any hosts and servers, any number of      *)
(* commands, and without the bounds of the model checker.                  *)
(*                                                                         *)
(* The properties are not inductive.  What makes them hold is that a call  *)
(* can tell whether the view is still the one it was made in: epochs and   *)
(* generations only grow, and while a call waits under the generation it   *)
(* started with, the view still shows its conversation (CallsOfView).      *)
(* While a publication runs host code, what is shown lags behind what is   *)
(* committed, but in the conversation and the question only when a cached  *)
(* view has just been committed, in which no command is accepted           *)
(* (SameView).                                                             *)
(***************************************************************************)
EXTENDS ChatCommands, FiniteSetTheorems, SequenceTheorems, TLAPS

-----------------------------------------------------------------------------
(* The inductive invariant.                                                *)

\* Nothing is left of a client that was disposed.
NothingLeft == disposed => latest = None /\ shown = None /\ sending = {}

\* What is shown lags behind what is committed during a publication only, and
\* in a live view never in what it is asked.
SameView ==
    /\ Settled => shown = latest
    /\ ~readOnly => \/ latest = None /\ shown = None
                    \/ /\ latest # None /\ shown # None
                       /\ shown.conversation = latest.conversation
                       /\ shown.question = latest.question

\* A call knows an epoch and a generation that have been.  While the generation
\* is the one it began under, its view is on display, and a cached view has
\* had no calls.
InView(k) ==
    /\ k.epoch <= epoch /\ k.generation <= generation
    /\ readOnly => k.epoch < epoch
    /\ k.phase \in {"published", "requested"} /\ k.generation = generation
          => k.epoch = epoch /\ Shows(latest, k.conversation)

CallsOfView == \A o \in Calls : InView(call[o])

\* The call whose publication runs host code is the one that is published, a
\* send.
OnePublishes ==
    \A o \in Calls :
        /\ call[o].phase = "published" <=> publishing = o
        /\ publishing = o => call[o].op \in {"composer", "message", "text"}

\* A call in the table of sends waits for the gateway.  A send that was not made
\* inside the publication of the same message is in the table until it ends,
\* and what the table holds of a message being published was made inside.
TableHolds ==
    /\ \A o \in sending :
          call[o].phase = "requested" /\ call[o].op \in {"composer", "message"}
    /\ ~disposed =>
          \A o \in Calls :
              /\ call[o].phase = "requested" /\ InTable(call[o].op, call[o].key)
              /\ call[o].within = None /\ ~call[o].orphan
              => o \in sending
    /\ \A o, p \in Calls :
          /\ publishing = o /\ p \in sending
          /\ Sends(p, call[o].op, call[o].conversation, call[o].key)
          => call[p].within # None

\* What is outgoing is the message of a send, which is not over while it is
\* shown as "sending".
Outstanding(message, k) ==
    /\ k.op \in {"composer", "message", "text"}
    /\ message.status = "sending" => k.phase \in {"published", "requested"}

MessagesOutstanding ==
    \A o \in Calls : outgoing[o] # None => Outstanding(outgoing[o], call[o])

\* No question is forgotten: there are not too many of them.
Remembers == Cardinality(Questions) <= MaxRetired

\* What was acknowledged is retired, and the question of an answer on its way
\* is still asked or is retired.
AnswersRetired ==
    /\ \A o \in Calls : call[o].op = "answer" /\ call[o].phase = "requested"
                          => call[o].target \in Questions
    /\ Remembers => answered \subseteq Range(retired)
    /\ Remembers /\ latest # None =>
          \A o \in Calls :
              /\ call[o].op = "answer" /\ call[o].phase = "requested"
              /\ call[o].epoch = epoch
              => latest.question = call[o].target \/ call[o].target \in Range(retired)

IInv == /\ TypeOK /\ NothingLeft /\ SameView /\ CallsOfView /\ OnePublishes
        /\ TableHolds /\ AnswersRetired
        /\ MessagesOutstanding /\ CommandsBelongToView /\ NeverShownTwice
        /\ OneRequestPerMessage /\ AnsweredNotAskedAgain

-----------------------------------------------------------------------------
(* The operators of the model.                                             *)

\* What a setup determines stays as it is.
LEMMA SameSets ==
    ASSUME setup' = setup
    PROVE  /\ Conversations' = Conversations /\ Questions' = Questions
           /\ Snapshot' = Snapshot /\ CallState' = CallState
           /\ Messages' = Messages /\ Draft' = Draft
           /\ Texts' = Texts /\ Remembers' = Remembers
  BY DEF Conversations, Questions, Snapshot, CallState, Messages, Draft, Texts, Keys,
         Runs, Remembers

\* `undefined` in the sets of a setup.
LEMMA NoneIsNothing ==
    ASSUME TypeOK
    PROVE  /\ None \notin Calls /\ None \notin Ops /\ None \notin Conversations
           /\ None \notin Texts /\ None \notin Questions /\ None \notin Snapshot
           /\ IsFiniteSet(Questions) /\ MaxRetired \in Nat
  BY SetupsAssumption DEF TypeOK, Conversations, Texts, Questions, Snapshot

\* The fields of a snapshot.
LEMMA SnapshotFields ==
    ASSUME NEW s \in Snapshot
    PROVE  /\ s.conversation \in Conversations /\ s.question \in Questions \cup {None}
           /\ s.run \in Runs \cup {None} /\ s.received \subseteq Calls
           /\ s.errors \subseteq Calls /\ s.operable \in BOOLEAN
  BY DEF Snapshot, SnapshotsOf, Conversations, Questions, Runs

\* A snapshot with another question, and one with another failure.
LEMMA WithQuestion ==
    ASSUME NEW s \in Snapshot, NEW q \in Questions \cup {None}
    PROVE  /\ [s EXCEPT !.question = q] \in Snapshot
           /\ [s EXCEPT !.question = q].conversation = s.conversation
           /\ [s EXCEPT !.question = q].question = q
           /\ [s EXCEPT !.question = q].errors = s.errors
  BY DEF Snapshot, SnapshotsOf, Conversations, Questions, Runs

LEMMA WithFailure ==
    ASSUME NEW s \in Snapshot, NEW o \in Calls
    PROVE  /\ [s EXCEPT !.errors = @ \cup {o}] \in Snapshot
           /\ [s EXCEPT !.errors = @ \cup {o}].conversation = s.conversation
           /\ [s EXCEPT !.errors = @ \cup {o}].question = s.question
           /\ [s EXCEPT !.errors = @ \cup {o}].errors = s.errors \cup {o}
  BY DEF Snapshot, SnapshotsOf, Conversations, Questions, Runs

\* The states of the calls.
LEMMA CallFields ==
    ASSUME NEW k \in CallState
    PROVE  /\ k.op \in Ops \cup {None} /\ k.conversation \in Conversations \cup {None}
           /\ k.phase \in {"idle", "published", "requested", "done"}
           /\ k.epoch \in Nat /\ k.generation \in Nat /\ k.orphan \in BOOLEAN
           /\ k.within \in Calls \cup {None} /\ k.key \in Keys \cup {None}
           /\ k.target \in Questions \cup Runs \cup {None}
  BY DEF CallState

\* The results of commands.
Results == {"ok", "failed", "mismatch", "conflict"}

\* A call that returns keeps what it was a call of, and its epoch.
LEMMA DoneKeeps ==
    ASSUME TypeOK, NEW o \in Calls, NEW result \in Results
    PROVE  /\ Done(o, result) \in CallState
           /\ Done(o, result).op = call[o].op
           /\ Done(o, result).conversation = call[o].conversation
           /\ Done(o, result).epoch = call[o].epoch
           /\ Done(o, result).generation = 0
           /\ Done(o, result).phase = "done"
           /\ Done(o, result).key = None /\ Done(o, result).result = result
  <1>1. call[o] \in CallState
    BY DEF TypeOK
  <1>2. /\ call[o].op \in Ops \cup {None} /\ call[o].conversation \in Conversations \cup {None}
        /\ call[o].epoch \in Nat
    BY <1>1, CallFields
  <1>3. /\ Idle \in CallState /\ Idle.generation = 0 /\ Idle.key = None
    BY DEF Idle, CallState
  <1>4. Done(o, result) \in CallState
    <2> DEFINE k == [Idle EXCEPT !.op = call[o].op, !.conversation = call[o].conversation]
    <2>1. k \in CallState
      BY <1>2, <1>3 DEF CallState
    <2>2. [k EXCEPT !.epoch = call[o].epoch, !.phase = "done", !.result = result] \in CallState
      <3> HIDE DEF k
      <3> QED
        BY <1>2, <2>1 DEF CallState, Results
    <2> QED
      BY <2>2 DEF Done
  <1>5. /\ Done(o, result).op = call[o].op
        /\ Done(o, result).conversation = call[o].conversation
        /\ Done(o, result).epoch = call[o].epoch
        /\ Done(o, result).phase = "done" /\ Done(o, result).result = result
        /\ Done(o, result).generation = Idle.generation
        /\ Done(o, result).key = Idle.key
    BY <1>3 DEF Done, CallState
  <1> QED
    BY <1>3, <1>4, <1>5

\* The messages that go with a snapshot are among those there were, are of its
\* conversation, and are none that its timeline shows.
LEMMA ReconciledFacts ==
    ASSUME NEW next \in Snapshot, NEW m \in Messages
    PROVE  /\ Reconciled(next, m) \in Messages
           /\ \A o \in Calls : Reconciled(next, m)[o] # None =>
                 /\ Reconciled(next, m)[o] = m[o]
                 /\ m[o] # None /\ m[o].conversation = next.conversation
                 /\ ~(m[o].status = "accepted" /\ o \in next.received)
                 /\ latest = None \/ latest.conversation = next.conversation
  <1> DEFINE other == latest # None /\ latest.conversation # next.conversation
             n == IF other THEN NoMessages ELSE m
  <1>1. n \in Messages
    BY DEF NoMessages, Messages
  <1>2. Reconciled(next, m) = [o \in Calls |-> IF Unreceived(next, n, o) THEN n[o] ELSE None]
    BY DEF Reconciled
  <1>3. ASSUME NEW o \in Calls, n[o] # None PROVE ~other /\ n[o] = m[o]
    <2>1. ~other
      BY <1>3 DEF NoMessages
    <2> QED
      BY <2>1
  <1> HIDE DEF n, other
  <1>4. Reconciled(next, m) \in Messages
    BY <1>1, <1>2 DEF Messages
  <1>5. ASSUME NEW o \in Calls, Reconciled(next, m)[o] # None
        PROVE  /\ Reconciled(next, m)[o] = m[o]
               /\ m[o] # None /\ m[o].conversation = next.conversation
               /\ ~(m[o].status = "accepted" /\ o \in next.received)
               /\ ~other
    <2>1. Reconciled(next, m)[o] = IF Unreceived(next, n, o) THEN n[o] ELSE None
      BY <1>2
    <2>2. Unreceived(next, n, o) /\ Reconciled(next, m)[o] = n[o]
      BY <1>5, <2>1
    <2>3. /\ n[o] # None /\ n[o].conversation = next.conversation
          /\ ~(n[o].status = "accepted" /\ o \in next.received)
      BY <2>2 DEF Unreceived
    <2> QED
      BY <1>3, <2>2, <2>3
  <1> QED
    BY <1>4, <1>5 DEF other

\* What the client and the store hold after a commit.
LEMMA CommitFacts ==
    ASSUME TypeOK, setup' = setup, NEW next \in Snapshot, NEW m \in Messages,
           Commit(next, m)
    PROVE  /\ outgoing' \in Messages /\ latest' = next /\ latest' \in Snapshot
           /\ shown' \in Snapshot \cup {None}
           /\ Settled => shown' = next
           /\ ~Settled => shown' = shown
           /\ \A o \in Calls : outgoing'[o] # None =>
                 /\ outgoing'[o] = m[o]
                 /\ m[o] # None /\ m[o].conversation = next.conversation
                 /\ latest = None \/ latest.conversation = next.conversation
           /\ NeverShownTwice'
  <1>1. /\ outgoing' = Reconciled(next, m) /\ latest' = next
        /\ shown' = IF Settled THEN next ELSE shown
    BY DEF Commit
  <1>2. /\ outgoing' \in Messages
        /\ \A o \in Calls : outgoing'[o] # None =>
                 /\ outgoing'[o] = m[o]
                 /\ m[o] # None /\ m[o].conversation = next.conversation
                 /\ ~(m[o].status = "accepted" /\ o \in next.received)
                 /\ latest = None \/ latest.conversation = next.conversation
    BY <1>1, ReconciledFacts
  <1>3. next.received \subseteq Calls
    BY SnapshotFields
  <1>4. NeverShownTwice'
    BY <1>1, <1>2, <1>3 DEF NeverShownTwice
  <1> QED
    BY <1>1, <1>2, <1>4 DEF TypeOK

\* A snapshot after the guard of transitions: the question on display is kept,
\* or the candidate's is shown and is none that is retired.
LEMMA GuardedFacts ==
    ASSUME NEW current \in Snapshot, NEW candidate \in Snapshot
    PROVE  /\ Guarded(current, candidate) \in Snapshot
           /\ Guarded(current, candidate).conversation = candidate.conversation
           /\ Guarded(current, candidate).errors = candidate.errors
           /\ \/ Guarded(current, candidate).question = current.question
              \/ /\ Guarded(current, candidate).question = candidate.question
                 /\ candidate.question = None \/ candidate.question \notin Range(retired)
           /\ Retires(current, candidate)
              \/ current.question \in {None, Guarded(current, candidate).question}
  <1>1. current.question \in Questions \cup {None}
    BY SnapshotFields
  <1>2. CASE IsRevival(current, candidate)
    <2>1. Guarded(current, candidate) = [candidate EXCEPT !.question = current.question]
      BY <1>2 DEF Guarded
    <2>2. /\ [candidate EXCEPT !.question = current.question] \in Snapshot
          /\ [candidate EXCEPT !.question = current.question].conversation
                = candidate.conversation
          /\ [candidate EXCEPT !.question = current.question].question = current.question
          /\ [candidate EXCEPT !.question = current.question].errors = candidate.errors
      BY <1>1 DEF Snapshot, SnapshotsOf, Conversations, Questions, Runs
    <2> QED
      BY <2>1, <2>2
  <1>3. CASE ~IsRevival(current, candidate)
    <2>1. Guarded(current, candidate) = candidate
      BY <1>3 DEF Guarded
    <2> QED
      BY <1>3, <2>1 DEF IsRevival, Retires
  <1> QED
    BY <1>2, <1>3

\* Removing the element at a position of a sequence without repetitions.
LEMMA RemoveAtFacts ==
    ASSUME NEW S, NEW s \in Seq(S), IsInjective(s), NEW i \in 1..Len(s)
    PROVE  /\ RemoveAt(s, i) \in Seq(S) /\ Len(RemoveAt(s, i)) = Len(s) - 1
           /\ IsInjective(RemoveAt(s, i))
           /\ Range(RemoveAt(s, i)) = Range(s) \ {s[i]}
  <1> DEFINE a == SubSeq(s, 1, i - 1)
             b == SubSeq(s, i + 1, Len(s))
             t == RemoveAt(s, i)
  <1>0. /\ Len(s) \in Nat /\ DOMAIN s = 1..Len(s)
        /\ \A j \in 1..Len(s) : s[j] \in S
    BY LenProperties, ElementOfSeq
  <1>1. /\ a \in Seq(S) /\ Len(a) = i - 1
        /\ \A j \in 1..(i - 1) : a[j] = s[j]
    <2>1. \A j \in 1..(i - 1) : s[j] \in S
      BY <1>0
    <2>2. /\ a \in Seq(S) /\ Len(a) = IF 1 <= i - 1 THEN (i - 1) - 1 + 1 ELSE 0
          /\ \A j \in 1..((i - 1) - 1 + 1) : a[j] = s[1 + j - 1]
      BY <1>0, <2>1, SubSeqProperties
    <2> HIDE DEF a
    <2> QED
      BY <1>0, <2>2
  <1>2. /\ b \in Seq(S) /\ Len(b) = Len(s) - i
        /\ \A j \in 1..(Len(s) - i) : b[j] = s[i + j]
    <2>1. \A j \in (i + 1)..Len(s) : s[j] \in S
      BY <1>0
    <2>2. /\ b \in Seq(S)
          /\ Len(b) = IF i + 1 <= Len(s) THEN Len(s) - (i + 1) + 1 ELSE 0
          /\ \A j \in 1..(Len(s) - (i + 1) + 1) : b[j] = s[(i + 1) + j - 1]
      BY <1>0, <2>1, SubSeqProperties
    <2> HIDE DEF b
    <2>3. Len(b) = Len(s) - i
      <3>1. i \in Nat /\ i <= Len(s)
        BY <1>0
      <3>2. CASE i + 1 <= Len(s)
        BY <1>0, <2>2, <3>1, <3>2
      <3>3. CASE ~(i + 1 <= Len(s))
        <4>1. Len(b) = 0
          BY <2>2, <3>3
        <4>2. ASSUME NEW n \in Nat, NEW k \in Nat, k <= n, ~(k + 1 <= n) PROVE n - k = 0
          BY <4>2
        <4>3. Len(s) - i = 0
          BY <1>0, <3>1, <3>3, <4>2
        <4> QED
          BY <4>1, <4>3
      <3> QED
        BY <3>2, <3>3
    <2>4. ASSUME NEW j \in 1..(Len(s) - i) PROVE b[j] = s[i + j]
      <3>1. j \in 1..(Len(s) - (i + 1) + 1) /\ (i + 1) + j - 1 = i + j
        BY <1>0
      <3> QED
        BY <2>2, <3>1
    <2> QED
      BY <2>2, <2>3, <2>4
  <1>3. t = a \o b
    BY DEF RemoveAt
  <1> HIDE DEF a, b, t
  <1>4. /\ t \in Seq(S) /\ Len(t) = Len(a) + Len(b)
        /\ \A j \in 1..(Len(a) + Len(b)) : t[j] = IF j <= Len(a) THEN a[j] ELSE b[j - Len(a)]
    BY <1>1, <1>2, <1>3, ConcatProperties
  <1>5. Len(t) = Len(s) - 1 /\ DOMAIN t = 1..(Len(s) - 1)
    BY <1>0, <1>1, <1>2, <1>4, LenProperties
  <1>6. ASSUME NEW j \in 1..(Len(s) - 1)
        PROVE  t[j] = IF j < i THEN s[j] ELSE s[j + 1]
    <2>1. j \in 1..(Len(a) + Len(b)) /\ i \in Nat
      BY <1>0, <1>1, <1>2
    <2>2. CASE j < i
      BY <1>1, <1>4, <2>1, <2>2
    <2>3. CASE ~(j < i)
      <3>1. j - (i - 1) \in 1..(Len(s) - i) /\ i + (j - (i - 1)) = j + 1
        BY <1>0, <2>3
      <3>2. t[j] = b[j - (i - 1)]
        BY <1>1, <1>4, <2>1, <2>3
      <3> QED
        BY <1>2, <2>3, <3>1, <3>2
    <2> QED
      BY <2>2, <2>3
  <1>7. IsInjective(t)
    <2> SUFFICES ASSUME NEW j \in 1..(Len(s) - 1), NEW k \in 1..(Len(s) - 1), t[j] = t[k]
                 PROVE  j = k
      BY <1>5 DEF IsInjective
    <2>1. /\ t[j] = IF j < i THEN s[j] ELSE s[j + 1]
          /\ t[k] = IF k < i THEN s[k] ELSE s[k + 1]
      BY <1>6
    <2>2. \A m, n \in 1..Len(s) : s[m] = s[n] => m = n
      BY <1>0 DEF IsInjective
    <2>3. j \in 1..Len(s) /\ j + 1 \in 1..Len(s) /\ k \in 1..Len(s) /\ k + 1 \in 1..Len(s)
      BY <1>0
    <2>4. i \in Nat /\ j \in Nat /\ k \in Nat
      BY <1>0
    <2>5. CASE j < i /\ k < i
      BY <2>1, <2>2, <2>3, <2>5
    <2>6. CASE ~(j < i) /\ ~(k < i)
      <3>1. j + 1 = k + 1
        BY <2>1, <2>2, <2>3, <2>6
      <3> QED
        BY <2>4, <3>1
    <2>7. CASE j < i /\ ~(k < i)
      <3>1. j = k + 1
        BY <2>1, <2>2, <2>3, <2>7
      <3> QED
        BY <2>4, <2>7, <3>1
    <2>8. CASE ~(j < i) /\ k < i
      <3>1. j + 1 = k
        BY <2>1, <2>2, <2>3, <2>8
      <3> QED
        BY <2>4, <2>8, <3>1
    <2> QED
      BY <2>5, <2>6, <2>7, <2>8
  <1>8. Range(t) = Range(s) \ {s[i]}
    <2>1. ASSUME NEW x \in Range(t) PROVE x \in Range(s) /\ x # s[i]
      <3>1. PICK j \in 1..(Len(s) - 1) : t[j] = x
        BY <1>5, <2>1 DEF Range
      <3>2. PICK k \in 1..Len(s) : k # i /\ x = s[k]
        BY <1>0, <1>6, <3>1
      <3> QED
        BY <1>0, <3>2 DEF Range, IsInjective
    <2>2. ASSUME NEW x \in Range(s), x # s[i] PROVE x \in Range(t)
      <3>1. PICK k \in 1..Len(s) : x = s[k] /\ k # i
        BY <1>0, <2>2 DEF Range
      <3>2. CASE k < i
        <4>1. k \in 1..(Len(s) - 1) /\ t[k] = x
          BY <1>0, <1>6, <3>1, <3>2
        <4> QED
          BY <1>5, <4>1 DEF Range
      <3>3. CASE k > i
        <4>1. k - 1 \in 1..(Len(s) - 1) /\ ~(k - 1 < i) /\ (k - 1) + 1 = k
          BY <1>0, <3>1, <3>3
        <4>2. t[k - 1] = x
          BY <1>6, <3>1, <4>1
        <4> QED
          BY <1>5, <4>1, <4>2 DEF Range
      <3> QED
        BY <3>1, <3>2, <3>3
    <2> QED
      BY <2>1, <2>2
  <1> QED
    BY <1>4, <1>5, <1>7, <1>8 DEF t

\* A sequence without repetitions and with one more element at its end.
LEMMA AppendFacts ==
    ASSUME NEW S, NEW s \in Seq(S), IsInjective(s), NEW q \in S, q \notin Range(s)
    PROVE  /\ Append(s, q) \in Seq(S) /\ Len(Append(s, q)) = Len(s) + 1
           /\ IsInjective(Append(s, q))
           /\ Range(Append(s, q)) = Range(s) \cup {q}
  <1> DEFINE t == Append(s, q)
  <1>1. /\ Len(s) \in Nat /\ DOMAIN s = 1..Len(s)
        /\ t \in Seq(S) /\ Len(t) = Len(s) + 1 /\ DOMAIN t = 1..(Len(s) + 1)
        /\ \A j \in 1..Len(s) : t[j] = s[j]
        /\ t[Len(s) + 1] = q
    BY LenProperties
  <1>2. \A j \in 1..(Len(s) + 1) : j \in 1..Len(s) \/ j = Len(s) + 1
    BY <1>1
  <1> HIDE DEF t
  <1>3. \A j \in 1..Len(s) : s[j] # q
    BY <1>1 DEF Range
  <1>4. IsInjective(t)
    <2> SUFFICES ASSUME NEW j \in 1..(Len(s) + 1), NEW k \in 1..(Len(s) + 1), t[j] = t[k]
                 PROVE  j = k
      BY <1>1 DEF IsInjective
    <2> QED
      BY <1>1, <1>2, <1>3 DEF IsInjective
  <1>5. Range(t) = Range(s) \cup {q}
    <2>1. Range(t) \subseteq Range(s) \cup {q}
      BY <1>1, <1>2 DEF Range
    <2>2. Range(s) \subseteq Range(t)
      BY <1>1 DEF Range
    <2>3. q \in Range(t)
      BY <1>1 DEF Range
    <2> QED
      BY <2>1, <2>2, <2>3
  <1> QED
    BY <1>1, <1>4, <1>5 DEF t

\* A sequence without repetitions is no longer than its elements are many.
LEMMA InjectiveIsShort ==
    ASSUME NEW S, IsFiniteSet(S), NEW s \in Seq(S), IsInjective(s)
    PROVE  Len(s) <= Cardinality(S)
  <1>1. /\ Len(s) \in Nat /\ s \in [1..Len(s) -> S]
    BY LenProperties
  <1>2. s \in Injection(1..Len(s), S)
    BY <1>1 DEF Injection
  <1>3. Cardinality(1..Len(s)) <= Cardinality(S)
    BY <1>2, FS_Injection
  <1>4. Cardinality(1..Len(s)) = Len(s)
    <2>1. Cardinality(1..Len(s)) = IF 1 > Len(s) THEN 0 ELSE Len(s) - 1 + 1
      BY <1>1, FS_Interval
    <2> QED
      BY <1>1, <2>1
  <1> QED
    BY <1>3, <1>4

\* The tail of a sequence without repetitions.
LEMMA TailFacts ==
    ASSUME NEW S, NEW s \in Seq(S), IsInjective(s), Len(s) > 0
    PROVE  /\ Tail(s) \in Seq(S) /\ Len(Tail(s)) = Len(s) - 1
           /\ IsInjective(Tail(s))
  <1>1. s # <<>> /\ Len(s) \in Nat /\ DOMAIN s = 1..Len(s)
    BY EmptySeq, LenProperties
  <1>2. /\ Tail(s) \in Seq(S) /\ Len(Tail(s)) = Len(s) - 1
        /\ \A j \in 1..(Len(s) - 1) : Tail(s)[j] = s[j + 1]
    BY <1>1, HeadTailProperties
  <1>3. DOMAIN Tail(s) = 1..(Len(s) - 1)
    BY <1>2, LenProperties
  <1>4. ASSUME NEW j \in 1..(Len(s) - 1), NEW k \in 1..(Len(s) - 1), Tail(s)[j] = Tail(s)[k]
        PROVE  j = k
    <2>1. j + 1 \in 1..Len(s) /\ k + 1 \in 1..Len(s) /\ s[j + 1] = s[k + 1]
      BY <1>1, <1>2, <1>4
    <2>2. j + 1 = k + 1
      BY <1>1, <2>1 DEF IsInjective
    <2> QED
      BY <2>2
  <1> QED
    BY <1>2, <1>3, <1>4 DEF IsInjective

\* Retiring a question keeps the list without repetitions and within its limit;
\* when it cannot overflow, what was retired stays so.
LEMMA RetireFacts ==
    ASSUME TypeOK, NEW q \in Questions
    PROVE  /\ Retire(q) \in Seq(Questions) /\ Len(Retire(q)) <= MaxRetired
           /\ IsInjective(Retire(q))
           /\ Remembers => Range(Retire(q)) = Range(retired) \cup {q}
  <1> DEFINE p == CHOOSE i \in DOMAIN retired : retired[i] = q
             others == IF q \in Range(retired) THEN RemoveAt(retired, p) ELSE retired
             all == Append(others, q)
  <1>0. /\ retired \in Seq(Questions) /\ Len(retired) <= MaxRetired /\ IsInjective(retired)
        /\ Len(retired) \in Nat /\ DOMAIN retired = 1..Len(retired)
        /\ IsFiniteSet(Questions) /\ MaxRetired \in Nat
    BY NoneIsNothing, LenProperties DEF TypeOK
  <1>1. /\ others \in Seq(Questions) /\ Len(others) <= Len(retired)
        /\ IsInjective(others) /\ Range(others) = Range(retired) \ {q}
    <2>1. CASE q \in Range(retired)
      <3>1. p \in 1..Len(retired) /\ retired[p] = q
        BY <1>0, <2>1 DEF Range
      <3> HIDE DEF p
      <3>2. /\ RemoveAt(retired, p) \in Seq(Questions)
            /\ Len(RemoveAt(retired, p)) = Len(retired) - 1
            /\ IsInjective(RemoveAt(retired, p))
            /\ Range(RemoveAt(retired, p)) = Range(retired) \ {q}
        BY <1>0, <3>1, RemoveAtFacts
      <3> QED
        BY <1>0, <2>1, <3>2
    <2>2. CASE q \notin Range(retired)
      BY <1>0, <2>2
    <2> QED
      BY <2>1, <2>2
  <1> HIDE DEF others, p
  <1>2. /\ all \in Seq(Questions) /\ Len(all) = Len(others) + 1 /\ IsInjective(all)
        /\ Range(all) = Range(retired) \cup {q}
    BY <1>1, AppendFacts
  <1>3. Retire(q) = IF Len(all) > MaxRetired THEN Tail(all) ELSE all
    BY DEF Retire, all, others, p
  <1> HIDE DEF all
  <1>4. Len(others) \in Nat /\ Len(all) \in Nat
    BY <1>1, <1>2, LenProperties
  <1>5. CASE Len(all) > MaxRetired
    <2>1. /\ Tail(all) \in Seq(Questions) /\ Len(Tail(all)) = Len(all) - 1
          /\ IsInjective(Tail(all))
      BY <1>0, <1>2, <1>4, <1>5, TailFacts
    <2>2. ~Remembers
      <3>1. Len(all) <= Cardinality(Questions)
        BY <1>0, <1>2, InjectiveIsShort
      <3>2. Cardinality(Questions) \in Nat
        BY <1>0, FS_CardinalityType
      <3> QED
        BY <1>0, <1>4, <1>5, <3>1, <3>2 DEF Remembers
    <2>3. Len(Tail(all)) <= MaxRetired
      BY <1>0, <1>1, <1>2, <1>4, <2>1
    <2> QED
      BY <1>3, <1>5, <2>1, <2>2, <2>3
  <1>6. CASE ~(Len(all) > MaxRetired)
    <2>1. Len(all) <= MaxRetired
      BY <1>0, <1>4, <1>6
    <2> QED
      BY <1>2, <1>3, <1>6, <2>1
  <1> QED
    BY <1>5, <1>6

\* What the guard of transitions does to the identities: they stay well formed;
\* when none is forgotten, the retired ones stay retired, and the question on
\* display is kept, or retired, or there was none.
LEMMA GuardEffectsFacts ==
    ASSUME TypeOK, NEW current \in Snapshot, NEW candidate \in Snapshot,
           GuardEffects(current, candidate)
    PROVE  /\ retired' \in Seq(Questions) /\ Len(retired') <= MaxRetired
           /\ IsInjective(retired')
           /\ superseded' \subseteq answering
           /\ Remembers =>
                 /\ Range(retired) \subseteq Range(retired')
                 /\ \/ current.question \in {None, Guarded(current, candidate).question}
                    \/ current.question \in Range(retired')
  <1>1. CASE Retires(current, candidate)
    <2>1. retired' = Retire(current.question) /\ current.question \in Questions
      BY <1>1, SnapshotFields DEF GuardEffects, Retires
    <2>2. superseded' \subseteq answering
      BY <1>1 DEF GuardEffects, TypeOK
    <2> QED
      BY <2>1, <2>2, RetireFacts
  <1>2. CASE ~Retires(current, candidate)
    <2>1. retired' = retired /\ superseded' = superseded
      BY <1>2 DEF GuardEffects
    <2>2. current.question \in {None, Guarded(current, candidate).question}
      BY <1>2, GuardedFacts
    <2> QED
      BY <2>1, <2>2 DEF TypeOK
  <1> QED
    BY <1>1, <1>2

\* Nothing is retired.
LEMMA NothingRetired ==
    TypeOK => <<>> \in Seq(Questions) /\ Len(<<>>) <= MaxRetired /\ IsInjective(<<>>)
  <1> SUFFICES ASSUME TypeOK
               PROVE  <<>> \in Seq(Questions) /\ Len(<<>>) <= MaxRetired /\ IsInjective(<<>>)
    OBVIOUS
  <1>1. <<>> \in Seq(Questions) /\ Len(<<>>) = 0
    BY EmptySeq
  <1>2. DOMAIN <<>> = 1..0 /\ MaxRetired \in Nat
    BY <1>1, LenProperties, NoneIsNothing
  <1> QED
    BY <1>1, <1>2 DEF IsInjective

-----------------------------------------------------------------------------
(* Initially.                                                              *)

LEMMA InitIInv == Init => IInv
  <1> SUFFICES ASSUME Init PROVE IInv
    OBVIOUS
  <1>1. /\ setup \in Setups /\ disposed = FALSE /\ readOnly = FALSE
        /\ epoch = 0 /\ generation = 0
        /\ outgoing = [o \in Calls |-> None] /\ sending = {}
        /\ drafts = [c \in Conversations |-> [life |-> 0, revision |-> 0, text |-> None]]
        /\ answering = {} /\ superseded = {} /\ retired = <<>>
        /\ shown = None /\ latest = None /\ publishing = None
        /\ call = [o \in Calls |-> Idle] /\ answered = {}
    BY DEF Init
  <1>2. Idle \in CallState
    BY DEF Idle, CallState
  <1>3. /\ Idle.phase = "idle" /\ Idle.epoch = 0 /\ Idle.generation = 0
        /\ Idle.op = None /\ Idle.key = None
    BY DEF Idle
  <1>4. TypeOK
    <2>1. drafts \in [Conversations -> Draft]
      BY <1>1 DEF Draft
    <2>2. <<>> \in Seq(Questions) /\ Len(<<>>) = 0 /\ IsInjective(<<>>)
      <3>1. <<>> \in Seq(Questions) /\ Len(<<>>) = 0
        BY EmptySeq
      <3>2. DOMAIN <<>> = 1..0
        BY <3>1, LenProperties
      <3> QED
        BY <3>1, <3>2 DEF IsInjective
    <2>3. 0 <= MaxRetired
      BY SetupsAssumption
    <2>4. outgoing \in Messages
      BY <1>1 DEF Messages
    <2> QED
      BY <1>1, <1>2, <2>1, <2>2, <2>3, <2>4 DEF TypeOK
  <1>5. \A o \in Calls : call[o] = Idle /\ outgoing[o] = None
    BY <1>1
  <1>6. None \notin Calls /\ None \notin Ops
    BY SetupsAssumption
  <1>7. NothingLeft /\ SameView /\ NeverShownTwice /\ AnsweredNotAskedAgain
    BY <1>1 DEF NothingLeft, SameView, Settled, NeverShownTwice, AnsweredNotAskedAgain
  <1>8. CallsOfView /\ OnePublishes /\ MessagesOutstanding /\ CommandsBelongToView
    BY <1>1, <1>3, <1>5, <1>6
       DEF CallsOfView, InView, OnePublishes, MessagesOutstanding, CommandsBelongToView
  <1>9. TableHolds /\ OneRequestPerMessage
    BY <1>1, <1>3, <1>5, <1>6 DEF TableHolds, OneRequestPerMessage
  <1>10. AnswersRetired
    BY <1>1, <1>3, <1>5, <1>6 DEF AnswersRetired, Ops
  <1> QED
    BY <1>4, <1>7, <1>8, <1>9, <1>10 DEF IInv

-----------------------------------------------------------------------------
(* What an action leaves alone.                                            *)

\* The phases of the calls, and the table of the sends.
Table == OnePublishes /\ TableHolds /\ OneRequestPerMessage

LEMMA TableUnchanged ==
    ASSUME Table, UNCHANGED <<sending, publishing, disposed, call>>
    PROVE  Table'
  <1>1. OnePublishes' /\ OneRequestPerMessage'
    BY DEF Table, OnePublishes, OneRequestPerMessage, Sends
  <1>2. TableHolds'
    BY DEF Table, TableHolds, Sends
  <1> QED
    BY <1>1, <1>2 DEF Table

\* A call that is in no table, and is not being published, begins or ends.
LEMMA TableKept ==
    ASSUME Table, TypeOK, UNCHANGED <<sending, publishing, disposed>>,
           NEW o \in Calls, o \notin sending, publishing # o,
           NEW k \in CallState, call' = [call EXCEPT ![o] = k],
           k.phase \in {"requested", "done"}, k.key = None
    PROVE  Table'
  <1>1. call'[o] = k /\ \A p \in Calls : p # o => call'[p] = call[p]
    BY DEF TypeOK
  <1>2. OnePublishes'
    BY <1>1 DEF Table, OnePublishes
  <1>3. TableHolds'
    <2>1. \A p \in sending : p \in Calls /\ p # o
      BY DEF TypeOK
    <2>2. ~InTable(call'[o].op, call'[o].key)
      BY <1>1 DEF InTable
    <2>3. \A p \in sending : call'[p].phase = "requested"
                             /\ call'[p].op \in {"composer", "message"}
      BY <1>1, <2>1 DEF Table, TableHolds
    <2>4. ~disposed =>
             \A p \in Calls :
                 /\ call'[p].phase = "requested" /\ InTable(call'[p].op, call'[p].key)
                 /\ call'[p].within = None /\ ~call'[p].orphan
                 => p \in sending
      BY <1>1, <2>2 DEF Table, TableHolds
    <2>5. ASSUME NEW p \in Calls, NEW r \in Calls, publishing = p, r \in sending,
                 Sends(r, call[p].op, call[p].conversation, call[p].key)'
          PROVE  call'[r].within # None
      <3>1. p # o /\ r # o
        BY <2>1, <2>5
      <3>2. Sends(r, call[p].op, call[p].conversation, call[p].key)
        BY <1>1, <2>5, <3>1 DEF Sends
      <3> QED
        BY <1>1, <2>5, <3>1, <3>2 DEF Table, TableHolds
    <2> QED
      BY <2>3, <2>4, <2>5 DEF TableHolds, InTable
  <1>4. OneRequestPerMessage'
    <2> SUFFICES ASSUME NEW p \in Calls, NEW r \in Calls, p # r,
                        call'[p].phase = "requested", call'[r].phase = "requested",
                        InTable(call'[p].op, call'[p].key),
                        Sends(r, call[p].op, call[p].conversation, call[p].key)',
                        ~call'[p].orphan, ~call'[r].orphan
                 PROVE  call'[p].within # None \/ call'[r].within # None
      BY DEF OneRequestPerMessage, InTable
    <2>1. call'[r].key = call'[p].key
      BY DEF Sends
    <2>2. p # o /\ r # o
      BY <1>1, <2>1 DEF InTable
    <2>3. Sends(r, call[p].op, call[p].conversation, call[p].key)
      BY <1>1, <2>2 DEF Sends
    <2> QED
      BY <1>1, <2>2, <2>3 DEF Table, OneRequestPerMessage
  <1> QED
    BY <1>2, <1>3, <1>4 DEF Table

\* A call that is published is a send; it may be entered in the table.
LEMMA Publishers ==
    ASSUME IInv, NEW o \in Calls, publishing = o
    PROVE  /\ call[o].op # "answer"
           /\ InTable(call[o].op, call[o].key) => call[o].op \in {"composer", "message"}
  BY DEF IInv, OnePublishes, InTable

\* The questions: nothing is acknowledged or retired, the question shown is the
\* same, and no answer begins.
Answers == AnswersRetired /\ AnsweredNotAskedAgain

LEMMA AnswersKept ==
    ASSUME Answers, UNCHANGED <<setup, epoch, retired, answered>>,
           latest' # None => latest # None /\ latest'.question = latest.question,
           \A o \in Calls : \/ /\ call'[o].op = call[o].op
                               /\ call'[o].phase = call[o].phase
                               /\ call'[o].target = call[o].target
                               /\ call'[o].epoch = call[o].epoch
                            \/ call'[o].phase # "requested"
                            \/ call'[o].op # "answer"
    PROVE  Answers'
  <1>1. Questions' = Questions /\ Remembers' = Remembers
    BY SameSets
  <1>2. AnswersRetired'
    BY <1>1 DEF Answers, AnswersRetired
  <1>3. AnsweredNotAskedAgain'
    BY <1>1 DEF Answers, AnsweredNotAskedAgain
  <1> QED
    BY <1>2, <1>3 DEF Answers

\* Another conversation is put on display: no question of it was acknowledged,
\* and no answer was given in it.
LEMMA AnswersBegin ==
    ASSUME Answers, CallsOfView, TypeOK, setup' = setup, answered' = {},
           epoch' = epoch + 1,
           \A o \in Calls : /\ call'[o].op = call[o].op /\ call'[o].phase = call[o].phase
                            /\ call'[o].target = call[o].target
                            /\ call'[o].epoch = call[o].epoch
    PROVE  Answers'
  <1>1. Questions' = Questions /\ Remembers' = Remembers
    BY SameSets
  <1>2. \A o \in Calls : call'[o].epoch # epoch'
    <2>1. ASSUME NEW o \in Calls PROVE call'[o].epoch # epoch'
      <3>1. call[o].epoch \in Nat /\ call[o].epoch <= epoch /\ epoch \in Nat
        BY CallFields DEF TypeOK, CallsOfView, InView
      <3> QED
        BY <3>1
    <2> QED
      BY <2>1
  <1>3. AnswersRetired'
    BY <1>1, <1>2 DEF Answers, AnswersRetired
  <1>4. AnsweredNotAskedAgain'
    BY DEF AnsweredNotAskedAgain
  <1> QED
    BY <1>3, <1>4 DEF Answers

\* The invariant, in groups.
View == /\ NothingLeft /\ SameView /\ CallsOfView
        /\ MessagesOutstanding /\ CommandsBelongToView /\ NeverShownTwice

LEMMA Groups == IInv <=> TypeOK /\ Table /\ Answers /\ View
  BY DEF IInv, Table, Answers, View

\* Only drafts change.
LEMMA DraftsOnly ==
    ASSUME IInv, drafts' \in [Conversations -> Draft],
           UNCHANGED <<setup, disposed, epoch, generation, readOnly, outgoing, sending,
                       answerVars, storeVars, publishing, call>>
    PROVE  IInv'
  <1>1. UNCHANGED <<setup, disposed, epoch, generation, readOnly, outgoing, sending,
                    answering, superseded, retired, answered, shown, latest, publishing,
                    call>>
    BY DEF answerVars, storeVars
  <1>2. TypeOK'
    BY <1>1, SameSets DEF IInv, TypeOK
  <1>3. Table'
    BY <1>1, TableUnchanged, Groups
  <1>4. Answers'
    BY <1>1, AnswersKept, Groups
  <1>5. View'
    <2>1. NothingLeft' /\ SameView' /\ NeverShownTwice'
      BY <1>1 DEF IInv, NothingLeft, SameView, Settled, NeverShownTwice
    <2>2. CallsOfView' /\ MessagesOutstanding' /\ CommandsBelongToView'
      BY <1>1 DEF IInv, CallsOfView, InView, MessagesOutstanding, CommandsBelongToView, Shows
    <2> QED
      BY <2>1, <2>2 DEF View
  <1> QED
    BY <1>2, <1>3, <1>4, <1>5, Groups, PTL

\* Setting the text of a draft.
LEMMA SetDraftTyped ==
    ASSUME TypeOK, NEW c \in Conversations, NEW text \in Texts \cup {None},
           SetDraft(c, text)
    PROVE  /\ drafts' \in [Conversations -> Draft]
           /\ drafts'[c].text = text
           /\ \A d \in Conversations : d # c => drafts'[d] = drafts[d]
  <1>1. drafts \in [Conversations -> Draft] /\ drafts[c] \in Draft
    BY DEF TypeOK
  <1>2. drafts[c].life \in Nat /\ drafts[c].revision + 1 \in Nat
    BY <1>1 DEF Draft
  <1> DEFINE one == [drafts EXCEPT ![c].text = text]
  <1>3. /\ one \in [Conversations -> Draft] /\ one[c].text = text
        /\ one[c].revision = drafts[c].revision
        /\ \A d \in Conversations : d # c => one[d] = drafts[d]
    BY <1>1 DEF Draft
  <1>4. drafts' = [one EXCEPT ![c].revision = @ + 1]
    BY DEF SetDraft
  <1> HIDE DEF one
  <1>5. one[c].revision + 1 \in Nat
    BY <1>2, <1>3
  <1>6. /\ drafts' \in [Conversations -> Draft] /\ drafts'[c].text = one[c].text
        /\ \A d \in Conversations : d # c => drafts'[d] = one[d]
    BY <1>3, <1>4, <1>5 DEF Draft
  <1> QED
    BY <1>3, <1>6

LEMMA TypePreserves ==
    ASSUME IInv, NEW c \in Conversations, NEW text \in Texts, Type(c, text)
    PROVE  IInv'
  <1>1. drafts' \in [Conversations -> Draft]
    BY SetDraftTyped DEF IInv, Type
  <1> QED
    BY <1>1, DraftsOnly DEF Type

\* Discarding a draft begins another one.
LEMMA DiscardedTyped ==
    ASSUME TypeOK, NEW c \in Conversations
    PROVE  /\ Discarded(drafts, c) \in [Conversations -> Draft]
           /\ Discarded(drafts, c)[c].life # drafts[c].life
           /\ \A d \in Conversations : d # c => Discarded(drafts, c)[d] = drafts[d]
  <1>1. drafts[c] \in Draft
    BY DEF TypeOK
  <1>2. drafts[c].life \in Nat /\ drafts[c].life + 1 # drafts[c].life
    BY <1>1 DEF Draft
  <1>3. [life |-> drafts[c].life + 1, revision |-> 0, text |-> None] \in Draft
    BY <1>2 DEF Draft
  <1> QED
    BY <1>2, <1>3 DEF TypeOK, Discarded

LEMMA DiscardDraftPreserves ==
    ASSUME IInv, NEW c \in Conversations, DiscardDraft(c)
    PROVE  IInv'
  <1>1. drafts' \in [Conversations -> Draft]
    BY DiscardedTyped DEF IInv, DiscardDraft
  <1> QED
    BY <1>1, DraftsOnly DEF DiscardDraft

-----------------------------------------------------------------------------
(* The view, when it stays the same one.                                   *)

\* The calls stay in view when the view stays and each of them does.
LEMMA CallsInView ==
    ASSUME CallsOfView, UNCHANGED <<epoch, generation, readOnly>>,
           \/ latest' = latest
           \/ latest # None /\ latest' # None /\ latest'.conversation = latest.conversation,
           \A o \in Calls : call'[o] = call[o] \/ InView(call'[o])
    PROVE  CallsOfView'
  <1> SUFFICES ASSUME NEW o \in Calls PROVE InView(call[o])'
    BY DEF CallsOfView
  <1>1. InView(call'[o])
    BY DEF CallsOfView
  <1>2. \A c : Shows(latest, c) => Shows(latest, c)'
    BY DEF Shows
  <1> QED
    BY <1>1, <1>2 DEF InView

\* A call that begins in the live view.
LEMMA BeginsInView ==
    ASSUME IInv, NEW k \in CallState, k.epoch = epoch, k.generation = generation,
           Active(k.conversation)
    PROVE  InView(k) /\ Shows(latest, k.conversation) /\ ~disposed /\ ~readOnly
  <1>1. ~readOnly /\ ~disposed /\ Shows(shown, k.conversation)
    BY DEF Active
  <1>2. Shows(latest, k.conversation)
    BY <1>1 DEF IInv, SameView, Shows
  <1>3. epoch \in Nat /\ generation \in Nat
    BY DEF IInv, TypeOK
  <1> QED
    BY <1>1, <1>2, <1>3 DEF InView

\* A call that ends stays in view.
LEMMA EndsInView ==
    ASSUME IInv, NEW o \in Calls, NEW result \in Results
    PROVE  InView(Done(o, result))
  <1>1. TypeOK /\ InView(call[o]) /\ generation \in Nat
    BY DEF IInv, TypeOK, CallsOfView
  <1> QED
    BY <1>1, DoneKeeps DEF InView

\* A snapshot is committed in the view: its question may be another one only
\* when no host code runs, and its messages and failures are of calls of this
\* view.
LEMMA ViewCommitted ==
    ASSUME IInv, UNCHANGED <<setup, disposed, epoch, generation, readOnly>>,
           ~disposed, latest # None,
           NEW next \in Snapshot, next.conversation = latest.conversation,
           Settled \/ next.question = latest.question,
           Settled \/ publishing' = publishing,
           NEW m \in Messages, Commit(next, m), CallsOfView',
           \A o \in Calls : m[o] # None \/ o \in next.errors
              => call'[o].epoch = epoch /\ call'[o].conversation = latest.conversation,
           \A o \in Calls : m[o] # None => Outstanding(m[o], call'[o])
    PROVE  View'
  <1>1. TypeOK /\ None \notin Snapshot /\ None \notin Calls
    BY NoneIsNothing DEF IInv
  <1>2. /\ latest' = next /\ latest' # None /\ latest'.conversation = latest.conversation
        /\ Settled => shown' = next
        /\ ~Settled => shown' = shown
        /\ \A o \in Calls : outgoing'[o] # None => outgoing'[o] = m[o] /\ m[o] # None
        /\ NeverShownTwice'
    BY <1>1, CommitFacts
  <1>3. SameView'
    <2>1. CASE Settled
      BY <1>2, <2>1 DEF SameView
    <2>2. CASE ~Settled
      <3>1. ~Settled'
        BY <2>2 DEF Settled
      <3>2. latest'.question = latest.question
        BY <1>2, <2>2
      <3> QED
        BY <1>2, <2>2, <3>1, <3>2 DEF IInv, SameView
    <2> QED
      BY <2>1, <2>2
  <1>4. CommandsBelongToView'
    <2> SUFFICES ASSUME NEW o \in Calls,
                        outgoing'[o] # None \/ o \in latest'.errors
                 PROVE  call'[o].epoch = epoch' /\ Shows(latest', call'[o].conversation)
      BY DEF CommandsBelongToView, Shows
    <2>1. m[o] # None \/ o \in next.errors
      BY <1>2
    <2> QED
      BY <1>2, <2>1 DEF Shows
  <1>5. MessagesOutstanding'
    BY <1>2 DEF MessagesOutstanding
  <1>6. NothingLeft'
    BY DEF NothingLeft
  <1> QED
    BY <1>2, <1>3, <1>4, <1>5, <1>6 DEF View

\* Nothing is committed: a call that begins or ends keeps its messages and
\* failures in the view.
LEMMA ViewUncommitted ==
    ASSUME IInv, UNCHANGED <<setup, disposed, epoch, generation, readOnly, outgoing,
                             storeVars, publishing>>,
           disposed => sending' = {}, CallsOfView',
           \A o \in Calls : outgoing[o] # None \/ (latest # None /\ o \in latest.errors)
              => call'[o].epoch = epoch /\ Shows(latest, call'[o].conversation),
           \A o \in Calls : outgoing[o] # None => Outstanding(outgoing[o], call'[o])
    PROVE  View'
  <1>1. UNCHANGED <<shown, latest>>
    BY DEF storeVars
  <1>2. NothingLeft' /\ SameView' /\ NeverShownTwice'
    BY <1>1 DEF IInv, NothingLeft, SameView, Settled, NeverShownTwice
  <1>3. CommandsBelongToView' /\ MessagesOutstanding'
    BY <1>1 DEF CommandsBelongToView, MessagesOutstanding, Shows
  <1> QED
    BY <1>2, <1>3 DEF View

\* The messages and failures of a view are of calls given in it.
LEMMA OfThisView ==
    ASSUME IInv, latest # None
    PROVE  /\ \A o \in Calls : outgoing[o] # None \/ o \in latest.errors
                 => call[o].epoch = epoch /\ call[o].conversation = latest.conversation
           /\ \A o \in Calls : outgoing[o] # None => Outstanding(outgoing[o], call[o])
  BY DEF IInv, CommandsBelongToView, MessagesOutstanding, Shows

-----------------------------------------------------------------------------
(* Sending.                                                                *)

\* The messages of a host with one more or one less.
LEMMA MessagesWith ==
    ASSUME TypeOK, NEW o \in Calls, NEW c \in Conversations,
           NEW status \in {"sending", "accepted", "failed"}
    PROVE  /\ [outgoing EXCEPT ![o] = Outgoing(c, status)] \in Messages
           /\ [outgoing EXCEPT ![o] = Outgoing(c, status)][o].status = status
           /\ [outgoing EXCEPT ![o] = None] \in Messages
  BY DEF TypeOK, Messages, Outgoing

LEMMA DismissPreserves ==
    ASSUME IInv, NEW o \in Calls, Dismiss(o)
    PROVE  IInv'
  <1> DEFINE m == [outgoing EXCEPT ![o] = None]
  <1>1. /\ ~disposed /\ outgoing[o] # None
        /\ PublishOutgoing(m)
        /\ UNCHANGED <<setup, disposed, epoch, generation, readOnly, answering, superseded,
                       retired, answered, sending, drafts, publishing, call>>
    BY DEF Dismiss, answerVars, sendVars
  <1>2. latest # None /\ TypeOK
    BY <1>1 DEF IInv, CommandsBelongToView, Shows
  <1>3. latest \in Snapshot
    BY <1>2 DEF TypeOK
  <1>4. m \in Messages /\ m[o] = None /\ \A p \in Calls : p # o => m[p] = outgoing[p]
    BY <1>2 DEF TypeOK, Messages
  <1> HIDE DEF m
  <1>5. Commit(latest, m)
    BY <1>1, <1>2 DEF PublishOutgoing
  <1>6. /\ outgoing' \in Messages /\ latest' = latest
        /\ shown' \in Snapshot \cup {None}
    BY <1>1, <1>2, <1>3, <1>4, <1>5, CommitFacts
  <1>7. TypeOK'
    BY <1>1, <1>2, <1>3, <1>6, SameSets DEF TypeOK
  <1>8. Table'
    BY <1>1, TableUnchanged, Groups
  <1>9. Answers'
    BY <1>1, <1>2, <1>6, AnswersKept, Groups
  <1>10. View'
    <2>1. CallsOfView'
      BY <1>1, <1>6, CallsInView DEF IInv
    <2>2. \A p \in Calls : m[p] # None \/ p \in latest.errors
             => call'[p].epoch = epoch /\ call'[p].conversation = latest.conversation
      BY <1>1, <1>2, <1>4, OfThisView
    <2>3. \A p \in Calls : m[p] # None => Outstanding(m[p], call'[p])
      BY <1>1, <1>2, <1>4, OfThisView
    <2> QED
      BY <1>1, <1>2, <1>3, <1>4, <1>5, <2>1, <2>2, <2>3, ViewCommitted
  <1> QED
    BY <1>7, <1>8, <1>9, <1>10, Groups, PTL

LEMMA PublishNextPreserves ==
    ASSUME IInv, PublishNext
    PROVE  IInv'
  <1>1. /\ ~Settled /\ shown' = latest /\ latest' = latest
        /\ UNCHANGED <<setup, disposed, epoch, generation, readOnly, outgoing, answering,
                       superseded, retired, answered, sending, drafts, publishing, call>>
    BY DEF PublishNext, answerVars, sendVars
  <1>2. TypeOK'
    BY <1>1, SameSets DEF IInv, TypeOK
  <1>3. Table'
    BY <1>1, TableUnchanged, Groups
  <1>4. Answers'
    BY <1>1, AnswersKept, Groups
  <1>5. View'
    <2>1. NothingLeft' /\ SameView' /\ NeverShownTwice'
      BY <1>1 DEF IInv, NothingLeft, SameView, Settled, NeverShownTwice
    <2>2. CallsOfView' /\ MessagesOutstanding' /\ CommandsBelongToView'
      BY <1>1 DEF IInv, CallsOfView, InView, MessagesOutstanding, CommandsBelongToView, Shows
    <2> QED
      BY <2>1, <2>2 DEF View
  <1> QED
    BY <1>2, <1>3, <1>4, <1>5, Groups, PTL

\* The state of a send when it is made.
Begun(op, c, key) ==
    [Idle EXCEPT !.op = op, !.conversation = c, !.key = key,
                 !.epoch = epoch, !.generation = generation,
                 !.draft = IF op = "composer" THEN drafts[c] ELSE None,
                 !.within = Enclosing(op, c, key),
                 !.phase = IF Settled THEN "published" ELSE "requested"]

LEMMA BegunFacts ==
    ASSUME TypeOK, NEW op \in {"composer", "message", "text"}, NEW c \in Conversations,
           NEW key \in Keys \cup {None}
    PROVE  /\ Begun(op, c, key) \in CallState
           /\ Begun(op, c, key).op = op /\ Begun(op, c, key).conversation = c
           /\ Begun(op, c, key).key = key
           /\ Begun(op, c, key).epoch = epoch /\ Begun(op, c, key).generation = generation
           /\ Begun(op, c, key).within = Enclosing(op, c, key)
           /\ Begun(op, c, key).phase = IF Settled THEN "published" ELSE "requested"
  <1>1. Idle \in CallState
    BY DEF Idle, CallState
  <1> DEFINE draft == IF op = "composer" THEN drafts[c] ELSE None
             within == Enclosing(op, c, key)
             phase == IF Settled THEN "published" ELSE "requested"
             k == [Idle EXCEPT !.op = op, !.conversation = c, !.key = key]
             l == [k EXCEPT !.epoch = epoch, !.generation = generation]
  <1>2. draft \in Draft \cup {None}
    BY DEF TypeOK
  <1>3. within \in Calls \cup {None}
    BY DEF TypeOK, Enclosing, Settled
  <1>4. phase \in {"published", "requested"}
    OBVIOUS
  <1>5. op \in Ops
    BY DEF Ops
  <1>6. k \in CallState /\ k.op = op /\ k.conversation = c /\ k.key = key
    BY <1>1, <1>5 DEF CallState
  <1> HIDE DEF k
  <1>7. epoch \in Nat /\ generation \in Nat
    BY DEF TypeOK
  <1>8. /\ l \in CallState /\ l.op = k.op /\ l.conversation = k.conversation
        /\ l.key = k.key /\ l.epoch = epoch /\ l.generation = generation
    BY <1>6, <1>7 DEF CallState
  <1>9. Begun(op, c, key) = [l EXCEPT !.draft = draft, !.within = within, !.phase = phase]
    BY DEF Begun, k
  <1> HIDE DEF draft, within, phase, l
  <1>10. /\ Begun(op, c, key) \in CallState
         /\ Begun(op, c, key).op = l.op /\ Begun(op, c, key).conversation = l.conversation
         /\ Begun(op, c, key).key = l.key /\ Begun(op, c, key).epoch = l.epoch
         /\ Begun(op, c, key).generation = l.generation
         /\ Begun(op, c, key).within = within /\ Begun(op, c, key).phase = phase
    BY <1>2, <1>3, <1>4, <1>8, <1>9 DEF CallState
  <1> QED
    BY <1>6, <1>8, <1>10 DEF within, phase

\* A send enters the table, or is published first: in either case no send of
\* its message is in the table already.
LEMMA SendKeepsTable ==
    ASSUME IInv, NEW o \in Calls, NEW op \in {"composer", "message", "text"},
           NEW c \in Conversations, NEW key \in Keys \cup {None}, Send(o, op, c, key)
    PROVE  Table'
  <1> DEFINE k == Begun(op, c, key)
  <1>0. /\ TypeOK /\ None \notin Calls
        /\ call[o] = Idle /\ Active(c) /\ Duplicates(op, c, key) = {}
        /\ call' = [call EXCEPT ![o] = k]
        /\ publishing' = IF Settled THEN o ELSE publishing
        /\ sending' = IF Settled \/ ~InTable(op, key) THEN sending ELSE sending \cup {o}
        /\ disposed' = disposed
    BY NoneIsNothing DEF IInv, Send, Begun
  <1>1. /\ k.op = op /\ k.conversation = c /\ k.key = key
        /\ k.within = Enclosing(op, c, key)
        /\ k.phase = IF Settled THEN "published" ELSE "requested"
    BY <1>0, BegunFacts
  <1> HIDE DEF k
  <1>2. call'[o] = k /\ \A p \in Calls : p # o => call'[p] = call[p]
    BY <1>0 DEF TypeOK
  <1>3. call[o].phase = "idle"
    BY <1>0 DEF Idle
  <1>4. o \notin sending /\ publishing # o /\ sending \subseteq Calls
    BY <1>0, <1>3 DEF IInv, OnePublishes, TableHolds, TypeOK
  <1>5. \A p \in sending : ~Sends(p, op, c, key)
    BY <1>0 DEF Duplicates
  <1>6. OnePublishes'
    <2>1. CASE Settled
      <3>1. \A p \in Calls : call[p].phase # "published"
        BY <1>0, <2>1 DEF IInv, OnePublishes, Settled
      <3> QED
        BY <1>0, <1>1, <1>2, <2>1, <3>1 DEF OnePublishes
    <2>2. CASE ~Settled
      BY <1>0, <1>1, <1>2, <1>4, <2>2 DEF IInv, OnePublishes
    <2> QED
      BY <2>1, <2>2
  <1>7. TableHolds'
    <2>1. ASSUME NEW p \in sending'
          PROVE  call'[p].phase = "requested" /\ call'[p].op \in {"composer", "message"}
      <3>1. CASE p = o
        <4>1. ~Settled /\ InTable(op, key)
          BY <1>0, <1>4, <2>1, <3>1
        <4> QED
          BY <1>1, <1>2, <3>1, <4>1 DEF InTable
      <3>2. CASE p # o
        <4>1. p \in sending
          BY <1>0, <2>1, <3>2
        <4> QED
          BY <1>2, <1>4, <3>2, <4>1 DEF IInv, TableHolds
      <3> QED
        BY <3>1, <3>2
    <2>2. ASSUME ~disposed', NEW p \in Calls,
                 call'[p].phase = "requested", InTable(call'[p].op, call'[p].key),
                 call'[p].within = None, ~call'[p].orphan
          PROVE  p \in sending'
      <3>1. CASE p = o
        BY <1>0, <1>1, <1>2, <2>2, <3>1
      <3>2. CASE p # o
        BY <1>0, <1>2, <2>2, <3>2 DEF IInv, TableHolds
      <3> QED
        BY <3>1, <3>2
    <2>3. ASSUME NEW p \in Calls, NEW r \in Calls, publishing' = p, r \in sending',
                 Sends(r, call[p].op, call[p].conversation, call[p].key)'
          PROVE  call'[r].within # None
      <3>1. CASE Settled
        <4>1. p = o /\ r \in sending /\ r # o
          BY <1>0, <1>4, <2>3, <3>1
        <4>2. Sends(r, op, c, key)
          BY <1>1, <1>2, <2>3, <4>1 DEF Sends
        <4> QED
          BY <1>5, <4>1, <4>2
      <3>2. CASE ~Settled /\ r = o
        <4>1. p # o /\ p = publishing
          BY <1>0, <1>4, <2>3, <3>2
        <4>2. Sends(publishing, op, c, key)
          BY <1>1, <1>2, <2>3, <3>2, <4>1 DEF Sends
        <4> QED
          BY <1>0, <1>1, <1>2, <3>2, <4>1, <4>2 DEF Enclosing
      <3>3. CASE ~Settled /\ r # o
        <4>1. p # o /\ p = publishing /\ r \in sending
          BY <1>0, <1>4, <2>3, <3>3
        <4>2. Sends(r, call[p].op, call[p].conversation, call[p].key)
          BY <1>2, <2>3, <3>3, <4>1 DEF Sends
        <4> QED
          BY <1>2, <3>3, <4>1, <4>2 DEF IInv, TableHolds
      <3> QED
        BY <3>1, <3>2, <3>3
    <2> QED
      BY <2>1, <2>2, <2>3 DEF TableHolds, InTable
  <1>8. OneRequestPerMessage'
    <2>1. ASSUME NEW p \in Calls, p # o, call[p].phase = "requested", ~Settled,
                 InTable(op, key), ~call[p].orphan, call[p].within = None,
                 Sends(p, op, c, key)
          PROVE  FALSE
      <3>1. ~disposed /\ InTable(call[p].op, call[p].key)
        BY <1>0, <2>1 DEF Active, Sends
      <3>2. p \in sending
        BY <2>1, <3>1 DEF IInv, TableHolds
      <3> QED
        BY <1>5, <2>1, <3>2
    <2> SUFFICES ASSUME NEW p \in Calls, NEW r \in Calls, p # r,
                        call'[p].phase = "requested", call'[r].phase = "requested",
                        InTable(call'[p].op, call'[p].key),
                        Sends(r, call[p].op, call[p].conversation, call[p].key)',
                        ~call'[p].orphan, ~call'[r].orphan
                 PROVE  call'[p].within # None \/ call'[r].within # None
      BY DEF OneRequestPerMessage, InTable
    <2>2. CASE p # o /\ r # o
      <3>1. Sends(r, call[p].op, call[p].conversation, call[p].key)
        BY <1>2, <2>2 DEF Sends
      <3> QED
        BY <1>2, <2>2, <3>1 DEF IInv, OneRequestPerMessage
    <2>3. CASE p = o
      <3>1. ~Settled /\ InTable(op, key) /\ Sends(r, op, c, key)
        BY <1>1, <1>2, <2>3 DEF Sends
      <3> QED
        BY <1>2, <2>1, <2>3, <3>1
    <2>4. CASE r = o
      <3>1. ~Settled /\ InTable(op, key) /\ Sends(p, op, c, key)
        BY <1>1, <1>2, <2>4 DEF Sends, InTable
      <3> QED
        BY <1>2, <2>1, <2>4, <3>1
    <2> QED
      BY <2>2, <2>3, <2>4
  <1> QED
    BY <1>6, <1>7, <1>8 DEF Table

LEMMA SendPreserves ==
    ASSUME IInv, NEW o \in Calls, NEW op \in {"composer", "message", "text"},
           NEW c \in Conversations, NEW key \in Keys \cup {None}, Send(o, op, c, key)
    PROVE  IInv'
  <1> DEFINE k == Begun(op, c, key)
             m == [outgoing EXCEPT ![o] = Outgoing(c, "sending")]
  <1>0. /\ TypeOK
        /\ Active(c) /\ call' = [call EXCEPT ![o] = k] /\ PublishOutgoing(m)
        /\ publishing' = IF Settled THEN o ELSE publishing
        /\ sending' = IF Settled \/ ~InTable(op, key) THEN sending ELSE sending \cup {o}
        /\ UNCHANGED <<setup, disposed, epoch, generation, readOnly, drafts, answering,
                       superseded, retired, answered>>
    BY DEF IInv, Send, Begun, answerVars
  <1>1. /\ k \in CallState /\ k.op = op /\ k.conversation = c
        /\ k.epoch = epoch /\ k.generation = generation
        /\ k.phase \in {"published", "requested"}
    BY <1>0, BegunFacts
  <1>2. /\ m \in Messages
        /\ \A p \in Calls : p # o => m[p] = outgoing[p]
    BY <1>0, MessagesWith DEF TypeOK, Messages
  <1> HIDE DEF k, m
  <1>3. call'[o] = k /\ \A p \in Calls : p # o => call'[p] = call[p]
    BY <1>0 DEF TypeOK
  <1>4. /\ InView(k) /\ Shows(latest, c) /\ ~disposed
    BY <1>0, <1>1, BeginsInView
  <1>5. latest # None /\ latest.conversation = c /\ latest \in Snapshot
    BY <1>0, <1>4 DEF Shows, TypeOK
  <1>6. Commit(latest, m)
    BY <1>0, <1>4, <1>5 DEF PublishOutgoing
  <1>7. /\ outgoing' \in Messages /\ latest' = latest
        /\ shown' \in Snapshot \cup {None}
    BY <1>0, <1>2, <1>5, <1>6, CommitFacts
  <1>8. TypeOK'
    <2>1. call' \in [Calls -> CallState] /\ sending' \subseteq Calls
          /\ publishing' \in Calls \cup {None}
      BY <1>0, <1>1 DEF TypeOK
    <2> QED
      BY <1>0, <1>5, <1>7, <2>1, SameSets DEF TypeOK
  <1>9. Answers'
    <2>1. k.op # "answer"
      BY <1>1
    <2> QED
      BY <1>0, <1>3, <1>7, <2>1, AnswersKept, Groups
  <1>10. View'
    <2>1. CallsOfView'
      BY <1>0, <1>3, <1>4, <1>7, CallsInView DEF IInv
    <2>2. \A p \in Calls : m[p] # None \/ p \in latest.errors
             => call'[p].epoch = epoch /\ call'[p].conversation = latest.conversation
      BY <1>1, <1>2, <1>3, <1>5, OfThisView
    <2>3. \A p \in Calls : m[p] # None => Outstanding(m[p], call'[p])
      BY <1>1, <1>2, <1>3, <1>5, OfThisView DEF Outstanding
    <2> QED
      BY <1>0, <1>2, <1>4, <1>5, <1>6, <2>1, <2>2, <2>3, ViewCommitted
  <1> QED
    BY <1>8, <1>9, <1>10, SendKeepsTable, Groups, PTL

\* The publication has ended: its send is requested, in the place of those of
\* the same message that were made inside it, or it is given up.
LEMMA DispatchKeepsTable ==
    ASSUME IInv, NEW o \in Calls, publishing = o, publishing' = None,
           disposed' = disposed, disposed => Gone(o),
           NEW k \in CallState, call' = [call EXCEPT ![o] = k],
           k.op = call[o].op, k.conversation = call[o].conversation,
           \/ Gone(o) /\ k.phase = "done"
           \/ /\ ~Gone(o) /\ k.phase = "requested" /\ k.key = call[o].key
              /\ k.within = call[o].within,
           sending' = IF ~InTable(call[o].op, call[o].key) THEN sending
                      ELSE (sending \ Duplicates(call[o].op, call[o].conversation,
                                                 call[o].key))
                           \cup (IF Gone(o) THEN {} ELSE {o})
    PROVE  Table'
  <1>0. TypeOK /\ None \notin Calls
    BY NoneIsNothing DEF IInv
  <1>1. call'[o] = k /\ \A p \in Calls : p # o => call'[p] = call[p]
    BY <1>0 DEF TypeOK
  <1>2. call[o].phase = "published" /\ o \notin sending /\ sending \subseteq Calls
    BY <1>0 DEF IInv, OnePublishes, TableHolds, TypeOK
  <1>3. OnePublishes'
    BY <1>0, <1>1 DEF IInv, OnePublishes
  <1>4. \A p \in sending : p # o
    BY <1>2
  <1>5. ASSUME NEW p \in Calls, p # o, call[p].within = None, p \in sending
        PROVE  ~Sends(p, call[o].op, call[o].conversation, call[o].key)
    BY <1>5 DEF IInv, TableHolds
  <1>6. TableHolds'
    <2>1. ASSUME NEW p \in sending'
          PROVE  call'[p].phase = "requested" /\ call'[p].op \in {"composer", "message"}
      <3>1. CASE p = o
        <4>1. ~Gone(o) /\ k.phase = "requested" /\ InTable(call[o].op, call[o].key)
          BY <1>2, <2>1, <3>1
        <4>2. call[o].op \in {"composer", "message"}
          BY <1>0, <4>1, Publishers
        <4> QED
          BY <1>1, <3>1, <4>1, <4>2
      <3>2. CASE p # o
        <4>1. p \in sending
          BY <2>1, <3>2
        <4> QED
          BY <1>1, <1>2, <3>2, <4>1 DEF IInv, TableHolds
      <3> QED
        BY <3>1, <3>2
    <2>2. ASSUME ~disposed', NEW p \in Calls,
                 call'[p].phase = "requested", InTable(call'[p].op, call'[p].key),
                 call'[p].within = None, ~call'[p].orphan
          PROVE  p \in sending'
      <3>1. CASE p = o
        <4>1. ~Gone(o) /\ k.key = call[o].key
          BY <1>1, <2>2, <3>1
        <4>2. InTable(call[o].op, call[o].key)
          BY <1>1, <2>2, <3>1, <4>1
        <4> QED
          BY <3>1, <4>1, <4>2
      <3>2. CASE p # o
        <4>1. p \in sending /\ call[p].within = None
          BY <1>1, <2>2, <3>2 DEF IInv, TableHolds
        <4> QED
          BY <1>5, <3>2, <4>1 DEF Duplicates
      <3> QED
        BY <3>1, <3>2
    <2>3. \A p \in Calls : publishing' # p
      BY <1>0
    <2> QED
      BY <2>1, <2>2, <2>3 DEF TableHolds, InTable
  <1>7. OneRequestPerMessage'
    <2>1. ASSUME NEW p \in Calls, p # o, call[p].phase = "requested", ~Gone(o),
                 InTable(call[o].op, call[o].key), ~call[p].orphan,
                 call[p].within = None,
                 Sends(p, call[o].op, call[o].conversation, call[o].key)
          PROVE  FALSE
      <3>1. ~disposed /\ InTable(call[p].op, call[p].key)
        BY <2>1 DEF Sends
      <3>2. p \in sending
        BY <2>1, <3>1 DEF IInv, TableHolds
      <3> QED
        BY <1>5, <2>1, <3>2
    <2> SUFFICES ASSUME NEW p \in Calls, NEW r \in Calls, p # r,
                        call'[p].phase = "requested", call'[r].phase = "requested",
                        InTable(call'[p].op, call'[p].key),
                        Sends(r, call[p].op, call[p].conversation, call[p].key)',
                        ~call'[p].orphan, ~call'[r].orphan
                 PROVE  call'[p].within # None \/ call'[r].within # None
      BY DEF OneRequestPerMessage, InTable
    <2>2. CASE p # o /\ r # o
      <3>1. Sends(r, call[p].op, call[p].conversation, call[p].key)
        BY <1>1, <2>2 DEF Sends
      <3> QED
        BY <1>1, <2>2, <3>1 DEF IInv, OneRequestPerMessage
    <2>3. CASE p = o
      <3>1. ~Gone(o) /\ k.key = call[o].key /\ r # o
        BY <1>1, <2>3
      <3>2. /\ InTable(call[o].op, call[o].key)
            /\ Sends(r, call[o].op, call[o].conversation, call[o].key)
        BY <1>1, <2>3, <3>1 DEF Sends
      <3> QED
        BY <1>1, <2>1, <3>1, <3>2
    <2>4. CASE r = o
      <3>1. ~Gone(o) /\ k.key = call[o].key /\ p # o
        BY <1>1, <2>4
      <3>2. /\ InTable(call[o].op, call[o].key)
            /\ Sends(p, call[o].op, call[o].conversation, call[o].key)
        BY <1>1, <2>4, <3>1 DEF Sends, InTable
      <3> QED
        BY <1>1, <2>1, <3>1, <3>2
    <2> QED
      BY <2>2, <2>3, <2>4
  <1> QED
    BY <1>3, <1>6, <1>7 DEF Table

LEMMA DispatchPreserves ==
    ASSUME IInv, NEW o \in Calls, Dispatch(o)
    PROVE  IInv'
  <1> DEFINE k == IF Gone(o) THEN Done(o, "conflict")
                  ELSE [call[o] EXCEPT !.phase = "requested"]
  <1>0. /\ TypeOK /\ publishing = o /\ publishing' = None /\ shown = latest
        /\ call' = [call EXCEPT ![o] = k]
        /\ sending' = IF ~InTable(call[o].op, call[o].key) THEN sending
                      ELSE (sending \ Duplicates(call[o].op, call[o].conversation,
                                                 call[o].key))
                           \cup (IF Gone(o) THEN {} ELSE {o})
        /\ UNCHANGED <<setup, disposed, epoch, generation, readOnly, outgoing, drafts,
                       answering, superseded, retired, answered, shown, latest>>
    <2>1. call' = [call EXCEPT ![o] = k]
      <3>1. CASE Gone(o)
        BY <3>1 DEF Dispatch
      <3>2. CASE ~Gone(o)
        <4>1. call' = [call EXCEPT ![o].phase = "requested"]
          BY <3>2 DEF Dispatch
        <4>2. [call EXCEPT ![o].phase = "requested"]
                 = [call EXCEPT ![o] = [call[o] EXCEPT !.phase = "requested"]]
          OBVIOUS
        <4> QED
          BY <3>2, <4>1, <4>2
      <3> QED
        BY <3>1, <3>2
    <2> QED
      BY <2>1 DEF IInv, Dispatch, answerVars, storeVars
  <1>1. /\ k \in CallState /\ k.op = call[o].op /\ k.conversation = call[o].conversation
        /\ k.epoch = call[o].epoch
        /\ Gone(o) => k.phase = "done" /\ InView(k)
        /\ ~Gone(o) => /\ k.phase = "requested" /\ k.key = call[o].key
                       /\ k.within = call[o].within
                       /\ k.generation = call[o].generation
    <2>1. CASE Gone(o)
      <3>1. "conflict" \in Results
        BY DEF Results
      <3> QED
        BY <1>0, <2>1, <3>1, DoneKeeps, EndsInView
    <2>2. CASE ~Gone(o)
      <3>1. call[o] \in CallState
        BY <1>0 DEF TypeOK
      <3> QED
        BY <2>2, <3>1 DEF CallState
    <2> QED
      BY <2>1, <2>2
  <1> HIDE DEF k
  <1>2. call'[o] = k /\ \A p \in Calls : p # o => call'[p] = call[p]
    BY <1>0 DEF TypeOK
  <1>3. InView(k)
    <2>1. InView(call[o]) /\ call[o].phase = "published"
      BY <1>0 DEF IInv, CallsOfView, OnePublishes
    <2>2. CASE ~Gone(o)
      BY <1>1, <2>1, <2>2 DEF InView
    <2> QED
      BY <1>1, <2>2
  <1>4. TypeOK'
    <2>1. call' \in [Calls -> CallState] /\ sending' \subseteq Calls
      BY <1>0, <1>1 DEF TypeOK
    <2> QED
      BY <1>0, <2>1, SameSets DEF TypeOK
  <1>5. Table'
    <2>1. disposed => Gone(o)
      BY DEF Gone
    <2>2. \/ Gone(o) /\ k.phase = "done"
          \/ /\ ~Gone(o) /\ k.phase = "requested" /\ k.key = call[o].key
             /\ k.within = call[o].within
      BY <1>0, <1>1
    <2> QED
      BY <1>0, <1>1, <2>1, <2>2, DispatchKeepsTable
  <1>6. Answers'
    <2>1. call[o].phase = "published"
      BY <1>0 DEF IInv, OnePublishes
    <2>2. ~Gone(o) => k.op # "answer"
      BY <1>0, <1>1, Publishers
    <2> QED
      BY <1>0, <1>1, <1>2, <2>2, AnswersKept, Groups
  <1>7. View'
    <2>1. CallsOfView'
      BY <1>0, <1>2, <1>3, CallsInView DEF IInv
    <2>2. SameView' /\ NeverShownTwice'
      BY <1>0 DEF IInv, SameView, NeverShownTwice
    <2>3. NothingLeft'
      BY <1>0 DEF IInv, NothingLeft, Gone
    <2>4. CommandsBelongToView'
      BY <1>0, <1>1, <1>2 DEF IInv, CommandsBelongToView, Shows
    <2>5. MessagesOutstanding'
      <3>1. outgoing[o] # None => ~Gone(o)
        BY <1>0 DEF IInv, CommandsBelongToView, NothingLeft, Gone, Shows
      <3> QED
        BY <1>0, <1>1, <1>2, <3>1 DEF IInv, MessagesOutstanding, Outstanding
    <2> QED
      BY <2>1, <2>2, <2>3, <2>4, <2>5 DEF View
  <1> QED
    BY <1>4, <1>5, <1>6, <1>7, Groups, PTL

\* A call ends, and leaves the table of sends.
LEMMA TableEnds ==
    ASSUME Table, TypeOK, UNCHANGED <<publishing, disposed>>,
           NEW o \in Calls, publishing # o, sending' = sending \ {o},
           NEW k \in CallState, call' = [call EXCEPT ![o] = k], k.phase = "done"
    PROVE  Table'
  <1>1. call'[o] = k /\ \A p \in Calls : p # o => call'[p] = call[p]
    BY DEF TypeOK
  <1>2. OnePublishes'
    BY <1>1 DEF Table, OnePublishes
  <1>3. TableHolds'
    <2>1. \A p \in sending' : p \in sending /\ p \in Calls /\ p # o
      BY DEF TypeOK
    <2>2. \A p \in sending' : call'[p].phase = "requested"
                              /\ call'[p].op \in {"composer", "message"}
      BY <1>1, <2>1 DEF Table, TableHolds
    <2>3. ~disposed' =>
             \A p \in Calls :
                 /\ call'[p].phase = "requested" /\ InTable(call'[p].op, call'[p].key)
                 /\ call'[p].within = None /\ ~call'[p].orphan
                 => p \in sending'
      BY <1>1 DEF Table, TableHolds
    <2>4. ASSUME NEW p \in Calls, NEW r \in Calls, publishing' = p, r \in sending',
                 Sends(r, call[p].op, call[p].conversation, call[p].key)'
          PROVE  call'[r].within # None
      <3>1. p # o /\ r # o /\ r \in sending
        BY <2>1, <2>4
      <3>2. Sends(r, call[p].op, call[p].conversation, call[p].key)
        BY <1>1, <2>4, <3>1 DEF Sends
      <3> QED
        BY <1>1, <2>4, <3>1, <3>2 DEF Table, TableHolds
    <2> QED
      BY <2>2, <2>3, <2>4 DEF TableHolds, InTable
  <1>4. OneRequestPerMessage'
    <2> SUFFICES ASSUME NEW p \in Calls, NEW r \in Calls, p # r,
                        call'[p].phase = "requested", call'[r].phase = "requested",
                        InTable(call'[p].op, call'[p].key),
                        Sends(r, call[p].op, call[p].conversation, call[p].key)',
                        ~call'[p].orphan, ~call'[r].orphan
                 PROVE  call'[p].within # None \/ call'[r].within # None
      BY DEF OneRequestPerMessage, InTable
    <2>1. p # o /\ r # o
      BY <1>1
    <2>2. Sends(r, call[p].op, call[p].conversation, call[p].key)
      BY <1>1, <2>1 DEF Sends
    <2> QED
      BY <1>1, <2>1, <2>2 DEF Table, OneRequestPerMessage
  <1> QED
    BY <1>2, <1>3, <1>4 DEF Table

\* A failure is reported only to the view the command was given in.
LEMMA ReportedFacts ==
    ASSUME TypeOK, latest # None, NEW o \in Calls, NEW g
    PROVE  /\ Reported(latest, o, g) \in Snapshot
           /\ Reported(latest, o, g).conversation = latest.conversation
           /\ Reported(latest, o, g).question = latest.question
           /\ Reported(latest, o, g).errors \subseteq latest.errors \cup {o}
           /\ Reported(latest, o, g) # latest => ~disposed /\ g = generation
  <1>1. latest \in Snapshot
    BY DEF TypeOK
  <1>2. CASE disposed \/ g # generation
    BY <1>1, <1>2 DEF Reported
  <1>3. CASE ~(disposed \/ g # generation)
    <2>1. Reported(latest, o, g) = [latest EXCEPT !.errors = @ \cup {o}]
      BY <1>3 DEF Reported
    <2> DEFINE r == [latest EXCEPT !.errors = @ \cup {o}]
    <2>2. /\ r \in Snapshot /\ r.conversation = latest.conversation
          /\ r.question = latest.question /\ r.errors = latest.errors \cup {o}
      BY <1>1, WithFailure
    <2> HIDE DEF r
    <2>3. Reported(latest, o, g) = r
      BY <2>1 DEF r
    <2> QED
      BY <1>3, <2>2, <2>3
  <1> QED
    BY <1>2, <1>3

\* Setting a draft of no conversation sets none.
LEMMA SetNoDraft ==
    ASSUME TypeOK, NEW c, c \notin Conversations, SetDraft(c, None)
    PROVE  drafts' = drafts
  <1>1. drafts \in [Conversations -> Draft]
    BY DEF TypeOK
  <1> DEFINE one == [drafts EXCEPT ![c].text = None]
  <1>2. one = drafts
    BY <1>1
  <1>3. drafts' = [one EXCEPT ![c].revision = @ + 1]
    BY DEF SetDraft
  <1> HIDE DEF one
  <1> QED
    BY <1>1, <1>2, <1>3

LEMMA SendSettlesPreserves ==
    ASSUME IInv, NEW o \in Calls, NEW receipt \in {"accepted", "legacy", "failed"},
           SendSettles(o, receipt)
    PROVE  IInv'
  <1> DEFINE c == call[o].conversation
             result == IF receipt = "failed" THEN "failed" ELSE "ok"
             message == IF receipt = "legacy" THEN None ELSE Outgoing(c, receipt)
             next == IF result = "ok" THEN latest
                     ELSE Reported(latest, o, call[o].generation)
             k == Done(o, result)
             m == [outgoing EXCEPT ![o] = message]
  <1>0. /\ TypeOK /\ Settled /\ call[o].phase = "requested"
        /\ call[o].op \in {"composer", "message", "text"}
        /\ call' = [call EXCEPT ![o] = k] /\ sending' = sending \ {o}
        /\ IF Receivable(o) THEN Commit(next, m)
           ELSE IF next # latest THEN Commit(next, outgoing)
           ELSE UNCHANGED <<outgoing, storeVars>>
        /\ IF Consumed(o, result) THEN SetDraft(c, None) ELSE UNCHANGED drafts
        /\ UNCHANGED <<setup, disposed, epoch, generation, readOnly, answering,
                       superseded, retired, answered, publishing>>
    BY DEF IInv, SendSettles, answerVars
  <1>1. /\ k \in CallState /\ k.phase = "done" /\ k.op = call[o].op
        /\ k.conversation = c /\ k.epoch = call[o].epoch /\ InView(k)
    <2>1. result \in Results
      BY DEF Results
    <2> QED
      BY <1>0, <2>1, DoneKeeps, EndsInView
  <1>2. call'[o] = k /\ \A p \in Calls : p # o => call'[p] = call[p]
    BY <1>0 DEF TypeOK
  <1>3. shown = latest /\ publishing # o
    BY <1>0 DEF IInv, SameView, Settled, TypeOK, OnePublishes
  <1>4. latest # None =>
           /\ next \in Snapshot /\ next.conversation = latest.conversation
           /\ next.question = latest.question
           /\ next.errors \subseteq latest.errors \cup {o}
           /\ next # latest => call[o].generation = generation /\ ~disposed
    BY <1>0, ReportedFacts DEF TypeOK
  <1>5. next # latest => latest # None
    BY DEF Reported
  <1>6. outgoing[o] # None => Receivable(o)
    BY <1>3 DEF IInv, CommandsBelongToView, NothingLeft, Receivable, Shows
  <1>7. Receivable(o) => /\ latest # None /\ ~disposed
                         /\ call[o].epoch = epoch /\ c = latest.conversation
                         /\ m \in Messages /\ (m[o] # None => m[o].status # "sending")
                         /\ \A p \in Calls : p # o => m[p] = outgoing[p]
    <2> SUFFICES ASSUME Receivable(o)
                 PROVE  /\ latest # None /\ ~disposed
                        /\ call[o].epoch = epoch /\ c = latest.conversation
                        /\ m \in Messages /\ (m[o] # None => m[o].status # "sending")
                        /\ \A p \in Calls : p # o => m[p] = outgoing[p]
      OBVIOUS
    <2>1. /\ latest # None /\ ~disposed /\ call[o].epoch = epoch
          /\ c = latest.conversation
      BY <1>3 DEF Receivable, Shows
    <2>2. c \in Conversations
      BY <1>0, <2>1, SnapshotFields DEF TypeOK
    <2>3. \A p \in Calls : p # o => m[p] = outgoing[p]
      BY <1>0 DEF TypeOK, Messages
    <2>4. m \in Messages /\ (m[o] # None => m[o].status # "sending")
      <3>1. CASE receipt = "legacy"
        BY <1>0, <3>1 DEF TypeOK, Messages
      <3>2. CASE receipt # "legacy"
        <4>1. message = Outgoing(c, receipt) /\ receipt \in {"accepted", "failed"}
          BY <3>2
        <4>2. receipt \in {"sending", "accepted", "failed"} /\ receipt # "sending"
          BY <4>1
        <4> QED
          BY <1>0, <2>2, <4>1, <4>2, MessagesWith
      <3> QED
        BY <3>1, <3>2
    <2> QED
      BY <2>1, <2>2, <2>3, <2>4
  <1>8. ~Receivable(o) /\ next # latest =>
           ~disposed /\ call[o].epoch = epoch /\ c = latest.conversation
    BY <1>0, <1>4, <1>5 DEF IInv, CallsOfView, InView, Shows
  <1> HIDE DEF k, m, next, message
  <1>9. /\ outgoing' \in Messages /\ shown' \in Snapshot \cup {None}
        /\ latest' \in Snapshot \cup {None}
        /\ latest' = latest \/ /\ latest # None /\ latest' # None
                               /\ latest'.conversation = latest.conversation
                               /\ latest'.question = latest.question
        /\ View'
    <2>1. CASE Receivable(o)
      <3>1. Commit(next, m) /\ latest # None /\ m \in Messages /\ next \in Snapshot
        BY <1>0, <1>4, <1>7, <2>1
      <3>2. /\ outgoing' \in Messages /\ shown' \in Snapshot \cup {None} /\ latest' = next
        BY <1>0, <3>1, CommitFacts
      <3>3. None \notin Snapshot
        BY <1>0, NoneIsNothing
      <3>4. CallsOfView'
        BY <1>0, <1>1, <1>2, <1>4, <3>1, <3>2, <3>3, CallsInView DEF IInv
      <3>5. \A p \in Calls : m[p] # None \/ p \in next.errors
               => call'[p].epoch = epoch /\ call'[p].conversation = latest.conversation
        BY <1>1, <1>2, <1>4, <1>7, <2>1, <3>1, OfThisView
      <3>6. \A p \in Calls : m[p] # None => Outstanding(m[p], call'[p])
        BY <1>0, <1>1, <1>2, <1>7, <2>1, <3>1, OfThisView DEF Outstanding
      <3>7. View'
        BY <1>0, <1>4, <1>7, <2>1, <3>1, <3>4, <3>5, <3>6, ViewCommitted
      <3> QED
        BY <1>4, <3>1, <3>2, <3>3, <3>7
    <2>2. CASE ~Receivable(o) /\ next # latest
      <3>1. Commit(next, outgoing) /\ latest # None /\ next \in Snapshot
        BY <1>0, <1>4, <1>5, <2>2
      <3>2. outgoing \in Messages /\ outgoing[o] = None
        BY <1>0, <1>6, <2>2 DEF TypeOK
      <3>3. /\ outgoing' \in Messages /\ shown' \in Snapshot \cup {None} /\ latest' = next
        BY <1>0, <3>1, <3>2, CommitFacts
      <3>4. None \notin Snapshot
        BY <1>0, NoneIsNothing
      <3>5. CallsOfView'
        BY <1>0, <1>1, <1>2, <1>4, <3>1, <3>3, <3>4, CallsInView DEF IInv
      <3>6. \A p \in Calls : outgoing[p] # None \/ p \in next.errors
               => call'[p].epoch = epoch /\ call'[p].conversation = latest.conversation
        BY <1>1, <1>2, <1>4, <1>8, <2>2, <3>1, OfThisView
      <3>7. \A p \in Calls : outgoing[p] # None => Outstanding(outgoing[p], call'[p])
        BY <1>2, <3>1, <3>2, OfThisView
      <3>8. View'
        BY <1>0, <1>4, <1>8, <2>2, <3>1, <3>2, <3>5, <3>6, <3>7, ViewCommitted
      <3> QED
        BY <1>4, <3>1, <3>3, <3>4, <3>8
    <2>3. CASE ~Receivable(o) /\ next = latest
      <3>1. UNCHANGED <<outgoing, storeVars, shown, latest>>
        BY <1>0, <2>3 DEF storeVars
      <3>2. outgoing[o] = None
        BY <1>6, <2>3
      <3>3. CallsOfView'
        BY <1>0, <1>1, <1>2, <3>1, CallsInView DEF IInv
      <3>4. \A p \in Calls : outgoing[p] # None \/ (latest # None /\ p \in latest.errors)
               => call'[p].epoch = epoch /\ Shows(latest, call'[p].conversation)
        BY <1>1, <1>2 DEF IInv, CommandsBelongToView
      <3>5. \A p \in Calls : outgoing[p] # None => Outstanding(outgoing[p], call'[p])
        BY <1>2, <3>2 DEF IInv, MessagesOutstanding
      <3>6. disposed => sending' = {}
        BY <1>0 DEF IInv, NothingLeft
      <3>7. View'
        BY <1>0, <3>1, <3>3, <3>4, <3>5, <3>6, ViewUncommitted
      <3> QED
        BY <1>0, <3>1, <3>7 DEF TypeOK
    <2> QED
      BY <2>1, <2>2, <2>3
  <1>10. drafts' \in [Conversations -> Draft]
    <2>1. None \in Texts \cup {None}
      OBVIOUS
    <2>2. CASE SetDraft(c, None) /\ c \in Conversations
      BY <1>0, <2>1, <2>2, SetDraftTyped
    <2>3. CASE SetDraft(c, None) /\ c \notin Conversations
      BY <1>0, <2>3, SetNoDraft DEF TypeOK
    <2> QED
      BY <1>0, <2>2, <2>3 DEF TypeOK
  <1>11. TypeOK'
    <2>1. call' \in [Calls -> CallState] /\ sending' \subseteq Calls
      BY <1>0, <1>1 DEF TypeOK
    <2> QED
      BY <1>0, <1>9, <1>10, <2>1, SameSets DEF TypeOK
  <1>12. Table'
    BY <1>0, <1>1, <1>3, TableEnds, Groups
  <1>13. Answers'
    BY <1>0, <1>1, <1>2, <1>9, AnswersKept, Groups
  <1> QED
    BY <1>9, <1>11, <1>12, <1>13, Groups, PTL

-----------------------------------------------------------------------------
(* Answers and interruptions.                                              *)

\* The state of an answer, or of an interruption, when it is made.
Asking(op, c, target) ==
    [Idle EXCEPT !.op = op, !.conversation = c, !.target = target,
                 !.epoch = epoch, !.generation = generation, !.phase = "requested"]

LEMMA AskingFacts ==
    ASSUME TypeOK, NEW op \in {"answer", "interrupt"}, NEW c \in Conversations,
           NEW target \in Questions \cup Runs
    PROVE  /\ Asking(op, c, target) \in CallState
           /\ Asking(op, c, target).op = op /\ Asking(op, c, target).conversation = c
           /\ Asking(op, c, target).target = target
           /\ Asking(op, c, target).key = None
           /\ Asking(op, c, target).epoch = epoch
           /\ Asking(op, c, target).generation = generation
           /\ Asking(op, c, target).phase = "requested"
  <1> DEFINE k == [Idle EXCEPT !.op = op, !.conversation = c, !.target = target]
  <1>1. Idle \in CallState /\ Idle.key = None
    BY DEF Idle, CallState
  <1>2. op \in Ops
    BY DEF Ops
  <1>3. /\ k \in CallState /\ k.op = op /\ k.conversation = c /\ k.target = target
        /\ k.key = Idle.key
    BY <1>1, <1>2 DEF CallState
  <1>4. epoch \in Nat /\ generation \in Nat
    BY DEF TypeOK
  <1>5. Asking(op, c, target) =
           [k EXCEPT !.epoch = epoch, !.generation = generation, !.phase = "requested"]
    BY DEF Asking
  <1> HIDE DEF k
  <1>6. /\ Asking(op, c, target) \in CallState
        /\ Asking(op, c, target).op = k.op
        /\ Asking(op, c, target).conversation = k.conversation
        /\ Asking(op, c, target).target = k.target
        /\ Asking(op, c, target).key = k.key
        /\ Asking(op, c, target).epoch = epoch
        /\ Asking(op, c, target).generation = generation
        /\ Asking(op, c, target).phase = "requested"
    BY <1>3, <1>4, <1>5 DEF CallState
  <1> QED
    BY <1>1, <1>3, <1>6

\* An answer or an interruption begins in the live view, of which nothing else
\* changes.
LEMMA AskingKeeps ==
    ASSUME IInv, NEW o \in Calls, call[o] = Idle, NEW k \in CallState,
           call' = [call EXCEPT ![o] = k], k.phase = "requested", k.key = None,
           k.epoch = epoch, k.generation = generation, Active(k.conversation),
           UNCHANGED <<setup, disposed, epoch, generation, readOnly, outgoing, sending,
                       publishing, shown, latest>>
    PROVE  View' /\ Table' /\ call' \in [Calls -> CallState]
  <1>1. TypeOK /\ None \notin Ops
    BY NoneIsNothing DEF IInv
  <1>2. call'[o] = k /\ \A p \in Calls : p # o => call'[p] = call[p]
    BY <1>1 DEF TypeOK
  <1>3. InView(k) /\ Shows(latest, k.conversation) /\ ~disposed
    BY BeginsInView
  <1>4. call[o].op = None /\ call[o].phase = "idle"
    BY DEF Idle
  <1>5. outgoing[o] = None
    BY <1>1, <1>4 DEF IInv, MessagesOutstanding, Outstanding, Ops
  <1>6. o \notin sending /\ publishing # o
    BY <1>4 DEF IInv, TableHolds, OnePublishes
  <1>7. Table'
    BY <1>1, <1>6, TableKept, Groups
  <1>8. CallsOfView'
    BY <1>2, <1>3, CallsInView DEF IInv
  <1>9. \A p \in Calls : outgoing[p] # None \/ (latest # None /\ p \in latest.errors)
           => call'[p].epoch = epoch /\ Shows(latest, call'[p].conversation)
    BY <1>2, <1>3 DEF IInv, CommandsBelongToView
  <1>10. \A p \in Calls : outgoing[p] # None => Outstanding(outgoing[p], call'[p])
    BY <1>2, <1>5 DEF IInv, MessagesOutstanding
  <1>11. View'
    BY <1>3, <1>8, <1>9, <1>10, ViewUncommitted DEF storeVars
  <1>12. call' \in [Calls -> CallState]
    BY <1>1 DEF TypeOK
  <1> QED
    BY <1>7, <1>11, <1>12

LEMMA AnswerPreserves ==
    ASSUME IInv, NEW o \in Calls, NEW c \in Conversations, NEW q \in Questions,
           Answer(o, c, q)
    PROVE  IInv'
  <1> DEFINE k == Asking("answer", c, q)
             key == AnswerKey(epoch, c, q)
  <1>0. /\ TypeOK /\ call[o] = Idle /\ Active(c) /\ shown.question = q
        /\ answering' = answering \cup {key} /\ call' = [call EXCEPT ![o] = k]
        /\ UNCHANGED <<setup, disposed, epoch, generation, readOnly, outgoing, sending,
                       drafts, publishing, superseded, retired, shown, latest, answered>>
    BY DEF IInv, Answer, Asking, sendVars, storeVars
  <1>1. /\ k \in CallState /\ k.op = "answer" /\ k.conversation = c /\ k.target = q
        /\ k.key = None /\ k.epoch = epoch /\ k.generation = generation
        /\ k.phase = "requested"
    <2>1. "answer" \in {"answer", "interrupt"} /\ q \in Questions \cup Runs
      OBVIOUS
    <2> QED
      BY <1>0, <2>1, AskingFacts
  <1> HIDE DEF k
  <1>2. call'[o] = k /\ \A p \in Calls : p # o => call'[p] = call[p]
    BY <1>0 DEF TypeOK
  <1>3. View' /\ Table' /\ call' \in [Calls -> CallState]
    BY <1>0, <1>1, AskingKeeps
  <1>4. TypeOK'
    <2>1. key \in Nat \X Conversations \X Questions
      BY <1>0 DEF TypeOK, AnswerKey
    <2> QED
      BY <1>0, <1>3, <2>1, SameSets DEF TypeOK
  <1>5. Answers'
    <2>1. Questions' = Questions /\ Remembers' = Remembers
      BY <1>0, SameSets
    <2>2. latest # None /\ latest.question = q
      BY <1>0 DEF IInv, SameView, Active, Shows
    <2>3. AnswersRetired'
      <3>1. \A p \in Calls : call'[p].op = "answer" /\ call'[p].phase = "requested"
                                => call'[p].target \in Questions
        BY <1>1, <1>2 DEF IInv, AnswersRetired
      <3>2. Remembers =>
               \A p \in Calls :
                  /\ call'[p].op = "answer" /\ call'[p].phase = "requested"
                  /\ call'[p].epoch = epoch
                  => latest.question = call'[p].target \/ call'[p].target \in Range(retired)
        BY <1>1, <1>2, <2>2 DEF IInv, AnswersRetired
      <3> QED
        BY <1>0, <2>1, <3>1, <3>2 DEF IInv, AnswersRetired
    <2>4. AnsweredNotAskedAgain'
      BY <1>0, <2>1 DEF IInv, AnsweredNotAskedAgain
    <2> QED
      BY <2>3, <2>4 DEF Answers
  <1> QED
    BY <1>3, <1>4, <1>5, Groups, PTL

LEMMA InterruptPreserves ==
    ASSUME IInv, NEW o \in Calls, NEW c \in Conversations, Interrupt(o, c)
    PROVE  IInv'
  <1> DEFINE k == Asking("interrupt", c, shown.run)
  <1>0. /\ TypeOK /\ call[o] = Idle /\ Active(c) /\ shown.run # None
        /\ call' = [call EXCEPT ![o] = k]
        /\ UNCHANGED <<setup, disposed, epoch, generation, readOnly, outgoing, sending,
                       drafts, publishing, answering, superseded, retired, answered,
                       shown, latest>>
    BY DEF IInv, Interrupt, Asking, sendVars, storeVars, answerVars
  <1>1. shown.run \in Questions \cup Runs
    <2>1. shown \in Snapshot
      BY <1>0 DEF TypeOK, Active, Shows
    <2> QED
      BY <1>0, <2>1, SnapshotFields
  <1>2. /\ k \in CallState /\ k.op = "interrupt" /\ k.conversation = c
        /\ k.key = None /\ k.epoch = epoch /\ k.generation = generation
        /\ k.phase = "requested"
    <2>1. "interrupt" \in {"answer", "interrupt"}
      OBVIOUS
    <2> QED
      BY <1>0, <1>1, <2>1, AskingFacts
  <1> HIDE DEF k
  <1>3. call'[o] = k /\ \A p \in Calls : p # o => call'[p] = call[p]
    BY <1>0 DEF TypeOK
  <1>4. View' /\ Table' /\ call' \in [Calls -> CallState]
    BY <1>0, <1>2, AskingKeeps
  <1>5. TypeOK'
    BY <1>0, <1>4, SameSets DEF TypeOK
  <1>6. Answers'
    BY <1>0, <1>2, <1>3, AnswersKept, Groups
  <1> QED
    BY <1>4, <1>5, <1>6, Groups, PTL

\* The ends of answers and of interruptions: the call leaves no message behind,
\* and what is committed is of its view.
LEMMA EndKeepsTable ==
    ASSUME IInv, Settled, NEW o \in Calls, call[o].phase = "requested",
           call[o].op \in {"answer", "interrupt"},
           NEW k \in CallState, call' = [call EXCEPT ![o] = k], k.phase = "done",
           UNCHANGED <<disposed, sending, publishing>>
    PROVE  /\ Table' /\ call' \in [Calls -> CallState]
           /\ call'[o] = k /\ \A p \in Calls : p # o => call'[p] = call[p]
           /\ outgoing[o] = None
  <1>1. TypeOK /\ None \notin Calls
    BY NoneIsNothing DEF IInv
  <1>2. o \notin sending /\ publishing # o
    BY <1>1 DEF IInv, TableHolds, Settled
  <1>3. sending' = sending \ {o}
    BY <1>2
  <1>4. Table'
    BY <1>1, <1>2, <1>3, TableEnds, Groups
  <1>5. outgoing[o] = None
    BY DEF IInv, MessagesOutstanding, Outstanding
  <1> QED
    BY <1>1, <1>4, <1>5 DEF TypeOK

LEMMA EndUncommitted ==
    ASSUME IInv, Settled, NEW o \in Calls, call[o].phase = "requested",
           call[o].op \in {"answer", "interrupt"},
           NEW k \in CallState, call' = [call EXCEPT ![o] = k], k.phase = "done",
           k.conversation = call[o].conversation, k.epoch = call[o].epoch, InView(k),
           UNCHANGED <<setup, disposed, epoch, generation, readOnly, sending, publishing,
                       outgoing, shown, latest>>
    PROVE  View'
  <1>1. /\ call'[o] = k /\ \A p \in Calls : p # o => call'[p] = call[p]
        /\ outgoing[o] = None
    BY EndKeepsTable
  <1>2. CallsOfView'
    BY <1>1, CallsInView DEF IInv
  <1>3. \A p \in Calls : outgoing[p] # None \/ (latest # None /\ p \in latest.errors)
           => call'[p].epoch = epoch /\ Shows(latest, call'[p].conversation)
    BY <1>1 DEF IInv, CommandsBelongToView
  <1>4. \A p \in Calls : outgoing[p] # None => Outstanding(outgoing[p], call'[p])
    BY <1>1 DEF IInv, MessagesOutstanding
  <1>5. disposed => sending' = {}
    BY DEF IInv, NothingLeft
  <1> QED
    BY <1>2, <1>3, <1>4, <1>5, ViewUncommitted DEF storeVars

LEMMA EndCommitted ==
    ASSUME IInv, Settled, NEW o \in Calls, call[o].phase = "requested",
           call[o].op \in {"answer", "interrupt"},
           NEW k \in CallState, call' = [call EXCEPT ![o] = k], k.phase = "done",
           k.conversation = call[o].conversation, k.epoch = call[o].epoch, InView(k),
           UNCHANGED <<setup, disposed, epoch, generation, readOnly, sending, publishing>>,
           ~disposed, latest # None, NEW next \in Snapshot, Commit(next, outgoing),
           next.conversation = latest.conversation,
           next.errors \subseteq latest.errors \cup {o},
           call[o].epoch = epoch, call[o].conversation = latest.conversation
    PROVE  /\ View' /\ latest' = next /\ outgoing' \in Messages
           /\ shown' \in Snapshot \cup {None}
  <1>1. TypeOK /\ None \notin Snapshot /\ outgoing \in Messages
    BY NoneIsNothing DEF IInv, TypeOK
  <1>2. /\ call'[o] = k /\ \A p \in Calls : p # o => call'[p] = call[p]
        /\ outgoing[o] = None
    BY EndKeepsTable
  <1>3. /\ outgoing' \in Messages /\ latest' = next /\ latest' # None
        /\ shown' \in Snapshot \cup {None}
    BY <1>1, CommitFacts
  <1>4. CallsOfView'
    BY <1>2, <1>3, CallsInView DEF IInv
  <1>5. \A p \in Calls : outgoing[p] # None \/ p \in next.errors
           => call'[p].epoch = epoch /\ call'[p].conversation = latest.conversation
    BY <1>2, OfThisView
  <1>6. \A p \in Calls : outgoing[p] # None => Outstanding(outgoing[p], call'[p])
    BY <1>2, OfThisView
  <1>7. View'
    BY <1>1, <1>4, <1>5, <1>6, ViewCommitted
  <1> QED
    BY <1>3, <1>7

LEMMA InterruptSettlesPreserves ==
    ASSUME IInv, NEW o \in Calls, NEW result \in {"ok", "failed"},
           InterruptSettles(o, result)
    PROVE  IInv'
  <1> DEFINE k == Done(o, result)
             next == Reported(latest, o, call[o].generation)
             blamed == /\ result = "failed" /\ Shows(shown, call[o].conversation)
                       /\ shown.run = call[o].target
  <1>0. /\ TypeOK /\ Settled /\ call[o].phase = "requested" /\ call[o].op = "interrupt"
        /\ call' = [call EXCEPT ![o] = k]
        /\ IF blamed /\ next # latest THEN Commit(next, outgoing)
                     ELSE UNCHANGED <<outgoing, shown, latest>>
        /\ UNCHANGED <<setup, disposed, epoch, generation, readOnly, sending, drafts,
                       publishing, answering, superseded, retired, answered>>
    BY DEF IInv, InterruptSettles, sendVars, answerVars, storeVars
  <1>1. /\ k \in CallState /\ k.phase = "done" /\ k.conversation = call[o].conversation
        /\ k.epoch = call[o].epoch /\ InView(k)
    <2>1. result \in Results
      BY DEF Results
    <2> QED
      BY <1>0, <2>1, DoneKeeps, EndsInView
  <1> HIDE DEF k, next, blamed
  <1>2. /\ Table' /\ call' \in [Calls -> CallState]
        /\ call'[o] = k /\ \A p \in Calls : p # o => call'[p] = call[p]
    BY <1>0, <1>1, EndKeepsTable
  <1>3. /\ View' /\ outgoing' \in Messages /\ shown' \in Snapshot \cup {None}
        /\ latest' \in Snapshot \cup {None}
        /\ latest' # None => latest # None /\ latest'.question = latest.question
    <2>1. CASE blamed /\ next # latest
      <3>1. Commit(next, outgoing) /\ latest # None
        BY <1>0, <2>1 DEF next, Reported
      <3>2. /\ next \in Snapshot /\ next.conversation = latest.conversation
            /\ next.question = latest.question
            /\ next.errors \subseteq latest.errors \cup {o}
            /\ ~disposed /\ call[o].generation = generation
        BY <1>0, <2>1, <3>1, ReportedFacts DEF next
      <3>3. call[o].epoch = epoch /\ call[o].conversation = latest.conversation
        BY <1>0, <3>2 DEF IInv, CallsOfView, InView, Shows
      <3>4. /\ View' /\ latest' = next /\ outgoing' \in Messages
            /\ shown' \in Snapshot \cup {None}
        BY <1>0, <1>1, <3>1, <3>2, <3>3, EndCommitted
      <3> QED
        BY <3>1, <3>2, <3>4
    <2>2. CASE ~(blamed /\ next # latest)
      <3>1. UNCHANGED <<outgoing, shown, latest>>
        BY <1>0, <2>2
      <3>2. View'
        BY <1>0, <1>1, <3>1, EndUncommitted
      <3> QED
        BY <1>0, <3>1, <3>2 DEF TypeOK
    <2> QED
      BY <2>1, <2>2
  <1>4. TypeOK'
    BY <1>0, <1>2, <1>3, SameSets DEF TypeOK
  <1>5. Answers'
    BY <1>0, <1>1, <1>2, <1>3, AnswersKept, Groups
  <1> QED
    BY <1>2, <1>3, <1>4, <1>5, Groups, PTL

\* An answer that was acknowledged retires its question.
LEMMA AcknowledgedKeeps ==
    ASSUME IInv, NEW o \in Calls, UNCHANGED <<setup, epoch>>,
           NEW q \in Questions, answered' \subseteq answered \cup {q},
           Remembers => Range(retired') = Range(retired) \cup {q},
           latest' # None => latest # None /\ latest'.question = None,
           latest.question \in {None, q},
           call'[o].phase = "done", \A p \in Calls : p # o => call'[p] = call[p]
    PROVE  Answers'
  <1>1. Questions' = Questions /\ Remembers' = Remembers
    BY SameSets
  <1>2. TypeOK /\ None \notin Questions /\ answered \subseteq Questions
    BY NoneIsNothing DEF IInv, TypeOK
  <1>3. AnswersRetired'
    <2>1. \A p \in Calls : call'[p].op = "answer" /\ call'[p].phase = "requested"
                              => call'[p].target \in Questions
      BY DEF IInv, AnswersRetired
    <2>2. Remembers => answered' \subseteq Range(retired')
      BY DEF IInv, AnswersRetired
    <2>3. ASSUME Remembers, latest' # None, NEW p \in Calls, call'[p].op = "answer",
                 call'[p].phase = "requested", call'[p].epoch = epoch
          PROVE  call'[p].target \in Range(retired')
      <3>1. p # o /\ call'[p] = call[p] /\ latest # None
        BY <2>3
      <3>2. latest.question = call[p].target \/ call[p].target \in Range(retired)
        BY <2>3, <3>1 DEF IInv, AnswersRetired
      <3>3. call[p].target \in Questions
        BY <2>1, <2>3, <3>1
      <3>4. call[p].target = q \/ call[p].target \in Range(retired)
        BY <1>2, <3>2, <3>3
      <3> QED
        BY <2>3, <3>1, <3>4
    <2> QED
      BY <1>1, <2>1, <2>2, <2>3 DEF AnswersRetired
  <1>4. AnsweredNotAskedAgain'
    BY <1>2 DEF AnsweredNotAskedAgain
  <1> QED
    BY <1>3, <1>4 DEF Answers

LEMMA AnswerSettlesPreserves ==
    ASSUME IInv, NEW o \in Calls, NEW result \in {"ok", "failed", "mismatch"},
           AnswerSettles(o, result)
    PROVE  IInv'
  <1> DEFINE c == call[o].conversation
             q == call[o].target
             key == AnswerKey(call[o].epoch, c, q)
             cleared == [latest EXCEPT !.question = None]
             r == IF AnswerSuperseded(o) THEN "conflict" ELSE result
             k == Done(o, r)
  <1>0. /\ TypeOK /\ Settled /\ call[o].phase = "requested" /\ call[o].op = "answer"
        /\ answering' = answering \ {key} /\ superseded' = superseded \ {key}
        /\ call' = [call EXCEPT ![o] = k]
        /\ UNCHANGED <<setup, disposed, epoch, generation, readOnly, sending, drafts,
                       publishing>>
    BY DEF IInv, AnswerSettles, sendVars, Released
  <1>1. /\ k \in CallState /\ k.phase = "done" /\ k.conversation = c
        /\ k.epoch = call[o].epoch /\ InView(k)
    <2>1. r \in Results
      BY DEF Results
    <2> QED
      BY <1>0, <2>1, DoneKeeps, EndsInView
  <1>2. q \in Questions /\ None \notin Questions /\ None \notin Snapshot
    BY <1>0, NoneIsNothing DEF IInv, AnswersRetired
  <1>3. shown = latest
    BY <1>0 DEF IInv, SameView
  <1> HIDE DEF k, r
  <1>4. /\ Table' /\ call' \in [Calls -> CallState]
        /\ call'[o] = k /\ \A p \in Calls : p # o => call'[p] = call[p]
    BY <1>0, <1>1, EndKeepsTable
  <1>5. ~AnswerSuperseded(o) =>
           /\ ~disposed /\ latest # None /\ latest \in Snapshot
           /\ call[o].epoch = epoch /\ c = latest.conversation
           /\ latest.question \in {None, q}
    BY <1>0, <1>3 DEF AnswerSuperseded, Shows, TypeOK
  <1>6. ASSUME retired' \in Seq(Questions), Len(retired') <= MaxRetired,
               IsInjective(retired'), answered' \subseteq Questions,
               outgoing' \in Messages, shown' \in Snapshot \cup {None},
               latest' \in Snapshot \cup {None}
        PROVE  TypeOK'
    <2>1. /\ answering' \subseteq Nat \X Conversations \X Questions
          /\ superseded' \subseteq answering'
      BY <1>0 DEF TypeOK
    <2> QED
      BY <1>0, <1>4, <1>6, <2>1, SameSets DEF TypeOK
  <1>7. CASE AnswerSuperseded(o)
    <2>1. UNCHANGED <<outgoing, shown, latest, retired, answered>>
      BY <1>7 DEF AnswerSettles, storeVars
    <2>2. View'
      BY <1>0, <1>1, <2>1, EndUncommitted
    <2>3. Answers'
      BY <1>0, <1>1, <1>4, <2>1, AnswersKept, Groups
    <2>4. TypeOK'
      BY <1>0, <1>6, <2>1 DEF TypeOK
    <2> QED
      BY <1>4, <2>2, <2>3, <2>4, Groups, PTL
  <1>8. CASE ~AnswerSuperseded(o) /\ result = "ok" /\ latest.question = q
    <2>1. /\ answered' = answered \cup {q} /\ retired' = Retire(q)
          /\ Commit(Guarded(latest, cleared), outgoing)
      BY <1>8 DEF AnswerSettles
    <2>2. None \in Questions \cup {None} /\ latest \in Snapshot
      BY <1>5, <1>8
    <2>3. /\ cleared \in Snapshot /\ cleared.conversation = latest.conversation
          /\ cleared.question = None /\ cleared.errors = latest.errors
      BY <2>2, WithQuestion
    <2> HIDE DEF cleared
    <2>4. Guarded(latest, cleared) = cleared
      BY <2>3 DEF Guarded, IsRevival
    <2>5. /\ View' /\ latest' = cleared /\ outgoing' \in Messages
          /\ shown' \in Snapshot \cup {None}
      <3>1. Commit(cleared, outgoing) /\ cleared.errors \subseteq latest.errors \cup {o}
        BY <2>1, <2>3, <2>4
      <3> QED
        BY <1>0, <1>1, <1>5, <1>8, <2>3, <3>1, EndCommitted
    <2>6. /\ retired' \in Seq(Questions) /\ Len(retired') <= MaxRetired
          /\ IsInjective(retired')
          /\ Remembers => Range(retired') = Range(retired) \cup {q}
      BY <1>0, <1>2, <2>1, RetireFacts
    <2>7. TypeOK'
      BY <1>0, <1>2, <1>6, <2>1, <2>3, <2>5, <2>6 DEF TypeOK
    <2>8. Answers'
      <3>1. latest # None /\ latest'.question = None /\ latest.question \in {None, q}
        BY <1>5, <1>8, <2>3, <2>5
      <3>2. answered' \subseteq answered \cup {q}
        BY <2>1
      <3>3. call'[o].phase = "done" /\ \A p \in Calls : p # o => call'[p] = call[p]
        BY <1>1, <1>4
      <3> QED
        BY <1>0, <1>2, <2>6, <3>1, <3>2, <3>3, AcknowledgedKeeps
    <2> QED
      BY <1>4, <2>5, <2>7, <2>8, Groups, PTL
  <1>9. CASE ~AnswerSuperseded(o) /\ result = "ok" /\ latest.question # q
    <2>1. answered' = answered \cup {q} /\ UNCHANGED <<retired, outgoing, shown, latest>>
      BY <1>9 DEF AnswerSettles, storeVars
    <2>2. View'
      BY <1>0, <1>1, <2>1, EndUncommitted
    <2>3. latest.question = None /\ latest # None
      BY <1>5, <1>9
    <2>4. Remembers => Range(retired') = Range(retired) \cup {q}
      <3>1. Remembers => q \in Range(retired)
        BY <1>0, <1>2, <1>5, <1>9, <2>3 DEF IInv, AnswersRetired
      <3> QED
        BY <2>1, <3>1
    <2>5. TypeOK'
      BY <1>0, <1>2, <1>6, <2>1 DEF TypeOK
    <2>6. Answers'
      <3>1. call'[o].phase = "done" /\ \A p \in Calls : p # o => call'[p] = call[p]
        BY <1>1, <1>4
      <3>2. answered' \subseteq answered \cup {q}
        BY <2>1
      <3> QED
        BY <1>0, <1>2, <2>1, <2>3, <2>4, <3>1, <3>2, AcknowledgedKeeps
    <2> QED
      BY <1>4, <2>2, <2>5, <2>6, Groups, PTL
  <1>10. CASE ~AnswerSuperseded(o) /\ result # "ok"
    <2> DEFINE next == Reported(latest, o, generation)
               blamed == result = "failed" /\ shown.question = q
    <2>1. /\ UNCHANGED <<retired, answered>>
          /\ IF blamed THEN Commit(next, outgoing) ELSE UNCHANGED <<outgoing, shown, latest>>
      BY <1>10 DEF AnswerSettles, storeVars
    <2> HIDE DEF next, blamed
    <2>2. /\ View' /\ outgoing' \in Messages /\ shown' \in Snapshot \cup {None}
          /\ latest' \in Snapshot \cup {None}
          /\ latest' # None => latest # None /\ latest'.question = latest.question
      <3>1. CASE blamed
        <4>1. /\ next \in Snapshot /\ next.conversation = latest.conversation
              /\ next.question = latest.question
              /\ next.errors \subseteq latest.errors \cup {o}
          BY <1>0, <1>5, <1>10, ReportedFacts DEF next
        <4>2. /\ View' /\ latest' = next /\ outgoing' \in Messages
              /\ shown' \in Snapshot \cup {None}
          BY <1>0, <1>1, <1>5, <1>10, <2>1, <3>1, <4>1, EndCommitted
        <4> QED
          BY <1>5, <1>10, <4>1, <4>2
      <3>2. CASE ~blamed
        <4>1. UNCHANGED <<outgoing, shown, latest>>
          BY <2>1, <3>2
        <4>2. View'
          BY <1>0, <1>1, <4>1, EndUncommitted
        <4> QED
          BY <1>0, <4>1, <4>2 DEF TypeOK
      <3> QED
        BY <3>1, <3>2
    <2>3. TypeOK'
      BY <1>0, <1>6, <2>1, <2>2 DEF TypeOK
    <2>4. Answers'
      BY <1>0, <1>1, <1>4, <2>1, <2>2, AnswersKept, Groups
    <2> QED
      BY <1>4, <2>2, <2>3, <2>4, Groups, PTL
  <1> QED
    BY <1>7, <1>8, <1>9, <1>10

-----------------------------------------------------------------------------
(* What happens to the view.                                               *)

\* A transition of the snapshot under the guard shows no question that was
\* acknowledged, and retires the one that it replaces.
LEMMA GuardKeepsAnswers ==
    ASSUME IInv, latest # None, NEW current \in Snapshot, NEW candidate \in Snapshot,
           current.question = latest.question, GuardEffects(current, candidate),
           latest' = Guarded(current, candidate), UNCHANGED <<setup, epoch, answered, call>>
    PROVE  Answers'
  <1>1. Questions' = Questions /\ Remembers' = Remembers
    BY SameSets
  <1>2. TypeOK /\ None \notin Questions /\ answered \subseteq Questions
    BY NoneIsNothing DEF IInv, TypeOK
  <1>3. Remembers =>
           /\ Range(retired) \subseteq Range(retired')
           /\ \/ latest.question \in {None, latest'.question}
              \/ latest.question \in Range(retired')
    BY <1>2, GuardEffectsFacts
  <1>4. AnswersRetired'
    <2>1. Remembers => answered \subseteq Range(retired')
      BY <1>3 DEF IInv, AnswersRetired
    <2>2. ASSUME Remembers, NEW p \in Calls, call[p].op = "answer",
                 call[p].phase = "requested", call[p].epoch = epoch
          PROVE  latest'.question = call[p].target \/ call[p].target \in Range(retired')
      <3>1. latest.question = call[p].target \/ call[p].target \in Range(retired)
        BY <2>2 DEF IInv, AnswersRetired
      <3>2. call[p].target \in Questions
        BY <2>2 DEF IInv, AnswersRetired
      <3> QED
        BY <1>2, <1>3, <2>2, <3>1, <3>2
    <2> QED
      BY <1>1, <2>1, <2>2 DEF IInv, AnswersRetired
  <1>5. AnsweredNotAskedAgain'
    <2> SUFFICES ASSUME Remembers PROVE latest'.question \notin answered
      BY <1>1 DEF AnsweredNotAskedAgain, Remembers
    <2>1. \/ latest'.question = latest.question
          \/ latest'.question = None
          \/ latest'.question \notin Range(retired)
      BY GuardedFacts
    <2>2. latest.question \notin answered
      BY DEF IInv, AnsweredNotAskedAgain, Remembers
    <2>3. answered \subseteq Range(retired)
      BY DEF IInv, AnswersRetired
    <2> QED
      BY <1>2, <2>1, <2>2, <2>3
  <1> QED
    BY <1>4, <1>5 DEF Answers

\* What the gateway may make of the snapshot.
LEMMA UpdatedFacts ==
    ASSUME TypeOK, latest # None, NEW candidate \in Updated
    PROVE  /\ candidate \in Snapshot /\ candidate.conversation = latest.conversation
           /\ candidate.errors = latest.errors
  <1>1. latest \in Snapshot
    BY DEF TypeOK
  <1>2. CASE candidate \in {[latest EXCEPT !.received = @ \cup {o}] :
                               o \in Requested(latest.conversation)}
    BY <1>1, <1>2 DEF Requested, Snapshot, SnapshotsOf
  <1>3. CASE candidate \in {[latest EXCEPT !.question = q] : q \in Questions \cup {None}}
    <2>1. PICK q \in Questions \cup {None} : candidate = [latest EXCEPT !.question = q]
      BY <1>3
    <2> QED
      BY <1>1, <2>1, WithQuestion
  <1>4. CASE candidate \in {[latest EXCEPT !.run = r] : r \in Runs \cup {None}}
    BY <1>1, <1>4 DEF Snapshot, SnapshotsOf, Runs
  <1>5. CASE candidate \in {[latest EXCEPT !.operable = b] :
                               b \in IF setup.unstable THEN BOOLEAN ELSE {TRUE}}
    <2>1. PICK b \in BOOLEAN : candidate = [latest EXCEPT !.operable = b]
      BY <1>5
    <2> QED
      BY <1>1, <2>1 DEF Snapshot, SnapshotsOf
  <1> QED
    BY <1>2, <1>3, <1>4, <1>5 DEF Updated

LEMMA UpdatePreserves ==
    ASSUME IInv, Update
    PROVE  IInv'
  <1>0. /\ TypeOK /\ Settled /\ ~disposed /\ latest # None /\ latest \in Snapshot
        /\ UNCHANGED <<setup, disposed, epoch, generation, readOnly, sending, drafts,
                       publishing, answering, answered, call>>
    BY DEF IInv, Update, sendVars, TypeOK
  <1>1. PICK candidate \in Updated :
           Commit(Guarded(latest, candidate), outgoing) /\ GuardEffects(latest, candidate)
    BY DEF Update
  <1>2. /\ candidate \in Snapshot /\ candidate.conversation = latest.conversation
        /\ candidate.errors = latest.errors
    BY <1>0, UpdatedFacts
  <1> DEFINE next == Guarded(latest, candidate)
  <1>3. /\ next \in Snapshot /\ next.conversation = latest.conversation
        /\ next.errors = latest.errors
    BY <1>0, <1>2, GuardedFacts
  <1>4. outgoing \in Messages /\ None \notin Snapshot
    BY <1>0, NoneIsNothing DEF TypeOK
  <1>5. /\ outgoing' \in Messages /\ latest' = next /\ shown' \in Snapshot \cup {None}
    BY <1>0, <1>1, <1>3, <1>4, CommitFacts
  <1>6. Answers'
    BY <1>0, <1>1, <1>2, <1>5, GuardKeepsAnswers
  <1>7. /\ retired' \in Seq(Questions) /\ Len(retired') <= MaxRetired
        /\ IsInjective(retired') /\ superseded' \subseteq answering
    BY <1>0, <1>1, <1>2, GuardEffectsFacts
  <1> HIDE DEF next
  <1>8. TypeOK'
    BY <1>0, <1>3, <1>5, <1>7, SameSets DEF TypeOK
  <1>9. Table'
    BY <1>0, TableUnchanged, Groups
  <1>10. View'
    <2>1. CallsOfView'
      BY <1>0, <1>3, <1>4, <1>5, CallsInView DEF IInv
    <2>2. Commit(next, outgoing)
      BY <1>1 DEF next
    <2>3. \A p \in Calls : outgoing[p] # None \/ p \in next.errors
             => call'[p].epoch = epoch /\ call'[p].conversation = latest.conversation
      BY <1>0, <1>3, OfThisView
    <2>4. \A p \in Calls : outgoing[p] # None => Outstanding(outgoing[p], call'[p])
      BY <1>0, OfThisView
    <2> QED
      BY <1>0, <1>3, <1>4, <2>1, <2>2, <2>3, <2>4, ViewCommitted
  <1> QED
    BY <1>6, <1>8, <1>9, <1>10, Groups, PTL

\* A generation later, the calls are of an earlier one.
LEMMA GenerationPasses ==
    ASSUME IInv, generation' = generation + 1, call' = call, epoch' \in Nat,
           \/ epoch' = epoch /\ ~readOnly'
           \/ epoch' = epoch + 1
    PROVE  CallsOfView'
  <1> SUFFICES ASSUME NEW o \in Calls PROVE InView(call[o])'
    BY DEF CallsOfView
  <1>1. /\ InView(call[o]) /\ call[o].epoch \in Nat /\ call[o].generation \in Nat
        /\ epoch \in Nat /\ generation \in Nat
    BY CallFields DEF IInv, CallsOfView, TypeOK
  <1>2. call[o].generation <= generation + 1 /\ call[o].generation # generation + 1
    BY <1>1 DEF InView
  <1>3. call[o].epoch <= epoch' /\ (readOnly' => call[o].epoch < epoch')
    BY <1>1 DEF InView
  <1> QED
    BY <1>2, <1>3 DEF InView

\* The snapshot that a load commits.
Loaded(c, question, received) ==
    [conversation |-> c, question |-> question, run |-> None,
     received |-> received, errors |-> {}, operable |-> TRUE]

LEMMA LoadedFacts ==
    ASSUME NEW c \in Conversations, NEW question \in Questions \cup {None},
           NEW received \in SUBSET Calls
    PROVE  /\ Loaded(c, question, received) \in Snapshot
           /\ Loaded(c, question, received).conversation = c
           /\ Loaded(c, question, received).errors = {}
  BY DEF Loaded, Snapshot, SnapshotsOf, Conversations, Questions, Runs

\* Another view begins: what was outgoing in the earlier one is gone.
LEMMA ViewBegins ==
    ASSUME IInv, UNCHANGED <<setup, disposed, call, publishing>>, ~disposed,
           generation' = generation + 1, epoch' = epoch + 1,
           NEW next \in Snapshot, next.errors = {}, Commit(next, outgoing),
           ~Shows(shown, next.conversation) \/ readOnly,
           Settled \/ readOnly'
    PROVE  /\ View' /\ latest' = next /\ outgoing' \in Messages
           /\ shown' \in Snapshot \cup {None}
  <1>1. TypeOK /\ None \notin Snapshot /\ outgoing \in Messages /\ epoch + 1 \in Nat
    BY NoneIsNothing DEF IInv, TypeOK
  <1>2. /\ outgoing' \in Messages /\ latest' = next /\ latest' # None
        /\ shown' \in Snapshot \cup {None}
        /\ Settled => shown' = next
        /\ \A o \in Calls : outgoing'[o] # None =>
              outgoing[o] # None /\ (latest = None \/ latest.conversation = next.conversation)
        /\ NeverShownTwice'
    BY <1>1, CommitFacts
  <1>3. ASSUME NEW o \in Calls PROVE outgoing'[o] = None
    <2> SUFFICES ASSUME outgoing[o] # None,
                        latest = None \/ latest.conversation = next.conversation
                 PROVE  FALSE
      BY <1>2
    <2>1. /\ call[o].epoch = epoch /\ latest # None
          /\ latest.conversation = next.conversation
      BY DEF IInv, CommandsBelongToView, Shows
    <2>2. call[o].epoch \in Nat
      BY <1>1, CallFields DEF TypeOK
    <2>3. ~readOnly
      BY <2>1, <2>2 DEF IInv, CallsOfView, InView
    <2>4. Shows(shown, next.conversation)
      BY <2>1, <2>3 DEF IInv, SameView, Shows
    <2> QED
      BY <2>3, <2>4
  <1>4. CallsOfView'
    BY <1>1, GenerationPasses
  <1>5. SameView'
    BY <1>2 DEF SameView, Settled
  <1>6. NothingLeft' /\ MessagesOutstanding' /\ CommandsBelongToView'
    BY <1>2, <1>3 DEF NothingLeft, MessagesOutstanding, CommandsBelongToView
  <1> QED
    BY <1>2, <1>4, <1>5, <1>6 DEF View

LEMMA LoadPreserves ==
    ASSUME IInv, NEW c \in Conversations, NEW question \in Questions \cup {None},
           NEW received \in SUBSET Requested(c), Load(c, question, received)
    PROVE  IInv'
  <1> DEFINE next == Loaded(c, question, received)
  <1>0. /\ TypeOK /\ Settled /\ ~disposed /\ generation' = generation + 1
        /\ readOnly' = FALSE
        /\ UNCHANGED <<setup, disposed, sending, drafts, publishing, answering, call>>
    BY DEF IInv, Load, sendVars
  <1>1. next \in Snapshot /\ next.conversation = c /\ next.errors = {}
    <2>1. received \in SUBSET Calls
      BY DEF Requested
    <2> QED
      BY <2>1, LoadedFacts
  <1>2. /\ outgoing \in Messages /\ None \notin Snapshot /\ shown = latest
        /\ epoch \in Nat /\ generation \in Nat
    BY <1>0, NoneIsNothing DEF TypeOK, IInv, SameView
  <1>3. Table'
    BY <1>0, TableUnchanged, Groups
  <1>4. CASE Shows(shown, c)
    <2>1. /\ GuardEffects(shown, next) /\ Commit(Guarded(shown, next), outgoing)
          /\ UNCHANGED <<epoch, answered>>
      BY <1>4 DEF Load, Loaded
    <2>2. shown # None /\ shown.conversation = c /\ shown \in Snapshot
      BY <1>0, <1>4 DEF Shows, TypeOK
    <2> DEFINE new == Guarded(shown, next)
    <2>3. new \in Snapshot /\ new.conversation = c /\ new.errors = {}
      BY <1>1, <2>2, GuardedFacts
    <2>4. /\ outgoing' \in Messages /\ latest' = new /\ shown' = new
          /\ NeverShownTwice'
          /\ \A o \in Calls : outgoing'[o] # None =>
                outgoing[o] # None /\ outgoing'[o] = outgoing[o]
      BY <1>0, <1>2, <2>1, <2>3, CommitFacts
    <2>5. Answers'
      BY <1>0, <1>1, <1>2, <2>1, <2>2, <2>4, GuardKeepsAnswers
    <2>6. /\ retired' \in Seq(Questions) /\ Len(retired') <= MaxRetired
          /\ IsInjective(retired') /\ superseded' \subseteq answering
      BY <1>0, <1>1, <2>1, <2>2, GuardEffectsFacts
    <2> HIDE DEF new, next
    <2>7. TypeOK'
      <3>1. generation' \in Nat
        BY <1>0, <1>2
      <3>2. readOnly' \in BOOLEAN
        BY <1>0
      <3> QED
        BY <1>0, <2>1, <2>3, <2>4, <2>6, <3>1, <3>2, SameSets DEF TypeOK
    <2>8. View'
      <3>1. CallsOfView'
        BY <1>0, <1>2, <2>1, GenerationPasses
      <3>2. NothingLeft' /\ SameView'
        BY <1>0, <1>2, <2>3, <2>4 DEF NothingLeft, SameView
      <3>3. MessagesOutstanding'
        BY <1>0, <2>4 DEF IInv, MessagesOutstanding
      <3>4. CommandsBelongToView'
        BY <1>0, <1>2, <2>1, <2>2, <2>3, <2>4 DEF IInv, CommandsBelongToView, Shows
      <3> QED
        BY <2>4, <3>1, <3>2, <3>3, <3>4 DEF View
    <2> QED
      BY <1>3, <2>5, <2>7, <2>8, Groups, PTL
  <1>5. CASE ~Shows(shown, c)
    <2>1. /\ epoch' = epoch + 1 /\ retired' = <<>> /\ answered' = {}
          /\ Commit(next, outgoing) /\ superseded' = superseded
      BY <1>5 DEF Load, Loaded
    <2> HIDE DEF next
    <2>2. /\ View' /\ latest' = next /\ outgoing' \in Messages
          /\ shown' \in Snapshot \cup {None}
      BY <1>0, <1>1, <1>5, <2>1, ViewBegins
    <2>3. Answers'
      BY <1>0, <2>1, AnswersBegin, Groups DEF IInv
    <2>4. TypeOK'
      <3>1. epoch' \in Nat /\ generation' \in Nat
        BY <1>0, <1>2, <2>1
      <3>2. readOnly' \in BOOLEAN
        BY <1>0
      <3> QED
        BY <1>0, <1>1, <2>1, <2>2, <3>1, <3>2, NothingRetired, SameSets DEF TypeOK
    <2> QED
      BY <1>3, <2>2, <2>3, <2>4, Groups, PTL
  <1> QED
    BY <1>4, <1>5

LEMMA ShowCachedPreserves ==
    ASSUME IInv, NEW c \in Conversations, ShowCached(c)
    PROVE  IInv'
  <1> DEFINE next == Loaded(c, None, {})
  <1>0. /\ TypeOK /\ ~disposed /\ generation' = generation + 1 /\ epoch' = epoch + 1
        /\ ~Shows(shown, c) \/ readOnly
        /\ readOnly' = TRUE /\ answered' = {} /\ Commit(next, outgoing)
        /\ UNCHANGED <<setup, disposed, sending, drafts, publishing, answering, superseded,
                       retired, call>>
    BY DEF IInv, ShowCached, sendVars, Loaded
  <1>1. next \in Snapshot /\ next.conversation = c /\ next.errors = {}
    <2>1. None \in Questions \cup {None} /\ {} \in SUBSET Calls
      OBVIOUS
    <2> QED
      BY <2>1, LoadedFacts
  <1> HIDE DEF next
  <1>2. /\ View' /\ latest' = next /\ outgoing' \in Messages
        /\ shown' \in Snapshot \cup {None}
    BY <1>0, <1>1, ViewBegins
  <1>3. Answers'
    BY <1>0, AnswersBegin, Groups DEF IInv
  <1>4. TypeOK'
    <2>1. epoch' \in Nat /\ generation' \in Nat /\ readOnly' \in BOOLEAN
      BY <1>0 DEF TypeOK
    <2> QED
      BY <1>0, <1>1, <1>2, <2>1, SameSets DEF TypeOK
  <1>5. Table'
    BY <1>0, TableUnchanged, Groups
  <1> QED
    BY <1>2, <1>3, <1>4, <1>5, Groups, PTL

\* The calls of a conversation that is deleted while they wait are orphans, of
\* which nothing else changes.
LEMMA OrphanedFacts ==
    ASSUME TypeOK, NEW c,
           call' = [o \in Calls |->
                      IF call[o].conversation = c /\ call[o].phase # "done"
                      THEN [call[o] EXCEPT !.orphan = TRUE] ELSE call[o]]
    PROVE  /\ call' \in [Calls -> CallState]
           /\ \A o \in Calls :
                 /\ call'[o].op = call[o].op /\ call'[o].phase = call[o].phase
                 /\ call'[o].target = call[o].target /\ call'[o].epoch = call[o].epoch
                 /\ call'[o].conversation = call[o].conversation
                 /\ call'[o].key = call[o].key /\ call'[o].within = call[o].within
                 /\ call'[o].generation = call[o].generation
                 /\ ~call'[o].orphan =>
                       /\ ~call[o].orphan
                       /\ call[o].conversation = c => call[o].phase = "done"
  <1>1. ASSUME NEW k \in CallState
        PROVE  /\ [k EXCEPT !.orphan = TRUE] \in CallState
               /\ [k EXCEPT !.orphan = TRUE].op = k.op
               /\ [k EXCEPT !.orphan = TRUE].phase = k.phase
               /\ [k EXCEPT !.orphan = TRUE].target = k.target
               /\ [k EXCEPT !.orphan = TRUE].epoch = k.epoch
               /\ [k EXCEPT !.orphan = TRUE].conversation = k.conversation
               /\ [k EXCEPT !.orphan = TRUE].key = k.key
               /\ [k EXCEPT !.orphan = TRUE].within = k.within
               /\ [k EXCEPT !.orphan = TRUE].generation = k.generation
               /\ [k EXCEPT !.orphan = TRUE].orphan
    BY DEF CallState
  <1> SUFFICES ASSUME NEW o \in Calls
               PROVE  /\ call'[o] \in CallState
                      /\ call'[o].op = call[o].op /\ call'[o].phase = call[o].phase
                      /\ call'[o].target = call[o].target /\ call'[o].epoch = call[o].epoch
                      /\ call'[o].conversation = call[o].conversation
                      /\ call'[o].key = call[o].key /\ call'[o].within = call[o].within
                      /\ call'[o].generation = call[o].generation
                      /\ ~call'[o].orphan =>
                            /\ ~call[o].orphan
                            /\ call[o].conversation = c => call[o].phase = "done"
    OBVIOUS
  <1>2. call[o] \in CallState
    BY DEF TypeOK
  <1>3. CASE call[o].conversation = c /\ call[o].phase # "done"
    <2> DEFINE k == [call[o] EXCEPT !.orphan = TRUE]
    <2>1. call'[o] = k
      BY <1>3
    <2>2. /\ k \in CallState /\ k.op = call[o].op /\ k.phase = call[o].phase
          /\ k.target = call[o].target /\ k.epoch = call[o].epoch
          /\ k.conversation = call[o].conversation /\ k.key = call[o].key
          /\ k.within = call[o].within /\ k.generation = call[o].generation /\ k.orphan
      BY <1>1, <1>2
    <2> HIDE DEF k
    <2> QED
      BY <2>1, <2>2
  <1>4. CASE ~(call[o].conversation = c /\ call[o].phase # "done")
    <2>1. call'[o] = call[o]
      BY <1>4
    <2>2. call[o].conversation = c => call[o].phase = "done"
      BY <1>4
    <2> HIDE <1>4
    <2> QED
      BY <1>2, <2>1, <2>2
  <1> QED
    BY <1>3, <1>4

LEMMA DeletePreserves ==
    ASSUME IInv, NEW c \in Conversations, DeleteConversation(c)
    PROVE  IInv'
  <1>0. /\ TypeOK /\ Settled /\ ~disposed /\ drafts' = Discarded(drafts, c)
        /\ sending' = {o \in sending : call[o].conversation # c}
        /\ call' = [o \in Calls |->
                      IF call[o].conversation = c /\ call[o].phase # "done"
                      THEN [call[o] EXCEPT !.orphan = TRUE] ELSE call[o]]
        /\ UNCHANGED <<setup, disposed, readOnly, publishing>>
    BY DEF IInv, DeleteConversation
  <1>1. /\ call' \in [Calls -> CallState]
        /\ \A o \in Calls :
              /\ call'[o].op = call[o].op /\ call'[o].phase = call[o].phase
              /\ call'[o].target = call[o].target /\ call'[o].epoch = call[o].epoch
              /\ call'[o].conversation = call[o].conversation
              /\ call'[o].key = call[o].key /\ call'[o].within = call[o].within
              /\ call'[o].generation = call[o].generation
              /\ ~call'[o].orphan =>
                    /\ ~call[o].orphan
                    /\ call[o].conversation = c => call[o].phase = "done"
    BY <1>0, OrphanedFacts
  <1>2. /\ shown = latest /\ None \notin Calls /\ publishing = None
        /\ epoch \in Nat /\ generation \in Nat
    BY <1>0, NoneIsNothing DEF IInv, SameView, TypeOK, Settled
  <1>3. drafts' \in [Conversations -> Draft] /\ sending' \subseteq Calls
    BY <1>0, DiscardedTyped DEF TypeOK
  <1>4. Table'
    <2>1. OnePublishes'
      BY <1>0, <1>1 DEF IInv, OnePublishes
    <2>2. TableHolds'
      <3>1. \A p \in sending' : call'[p].phase = "requested"
                                /\ call'[p].op \in {"composer", "message"}
        BY <1>0, <1>1 DEF IInv, TableHolds, TypeOK
      <3>2. ASSUME NEW p \in Calls, call'[p].phase = "requested",
                   InTable(call'[p].op, call'[p].key), call'[p].within = None,
                   ~call'[p].orphan
            PROVE  p \in sending'
        <4>1. call[p].conversation # c
          BY <1>1, <3>2
        <4>2. /\ call[p].phase = "requested" /\ InTable(call[p].op, call[p].key)
              /\ call[p].within = None /\ ~call[p].orphan
          BY <1>1, <3>2
        <4>3. p \in sending
          BY <1>0, <4>2 DEF IInv, TableHolds
        <4> QED
          BY <1>0, <4>1, <4>3
      <3>3. \A p \in Calls : publishing' # p
        BY <1>0, <1>2
      <3> QED
        BY <3>1, <3>2, <3>3 DEF TableHolds, InTable
    <2>3. OneRequestPerMessage'
      <3> SUFFICES ASSUME NEW p \in Calls, NEW r \in Calls, p # r,
                          call'[p].phase = "requested", call'[r].phase = "requested",
                          InTable(call'[p].op, call'[p].key),
                          Sends(r, call[p].op, call[p].conversation, call[p].key)',
                          ~call'[p].orphan, ~call'[r].orphan
                   PROVE  call'[p].within # None \/ call'[r].within # None
        BY DEF OneRequestPerMessage, InTable
      <3>1. Sends(r, call[p].op, call[p].conversation, call[p].key)
        BY <1>1 DEF Sends
      <3>2. /\ call[p].phase = "requested" /\ call[r].phase = "requested"
            /\ InTable(call[p].op, call[p].key) /\ ~call[p].orphan /\ ~call[r].orphan
        BY <1>1
      <3>3. call[p].within # None \/ call[r].within # None
        BY <3>1, <3>2 DEF IInv, OneRequestPerMessage
      <3> QED
        BY <1>1, <3>3
    <2> QED
      BY <2>1, <2>2, <2>3 DEF Table
  <1>5. CASE Shows(shown, c)
    <2>1. /\ epoch' = epoch + 1 /\ generation' = generation + 1
          /\ answering' = {} /\ superseded' = {} /\ retired' = <<>> /\ answered' = {}
          /\ outgoing' = NoMessages /\ shown' = None /\ latest' = None
      BY <1>5 DEF DeleteConversation
    <2>2. \A o \in Calls : outgoing'[o] = None
      BY <2>1 DEF NoMessages
    <2>3. outgoing' \in Messages
      BY <2>1 DEF NoMessages, Messages
    <2>4. TypeOK'
      <3>1. epoch' \in Nat /\ generation' \in Nat
        BY <1>2, <2>1
      <3> QED
        BY <1>0, <1>1, <1>3, <2>1, <2>3, <3>1, NothingRetired, SameSets DEF TypeOK
    <2>5. Answers'
      BY <1>0, <1>1, <2>1, AnswersBegin, Groups DEF IInv
    <2>6. View'
      <3>1. CallsOfView'
        <4> SUFFICES ASSUME NEW o \in Calls PROVE InView(call[o])'
          BY DEF CallsOfView
        <4>1. /\ InView(call[o]) /\ call[o].epoch \in Nat /\ call[o].generation \in Nat
          BY <1>0, CallFields DEF IInv, CallsOfView, TypeOK
        <4>2. /\ call[o].generation <= generation + 1
              /\ call[o].generation # generation + 1
              /\ call[o].epoch <= epoch + 1 /\ call[o].epoch < epoch + 1
          BY <1>2, <4>1 DEF InView
        <4> QED
          BY <1>1, <2>1, <4>2 DEF InView
      <3>2. NothingLeft' /\ SameView' /\ NeverShownTwice'
        BY <1>0, <2>1 DEF NothingLeft, SameView, NeverShownTwice
      <3>3. MessagesOutstanding' /\ CommandsBelongToView'
        BY <2>1, <2>2 DEF MessagesOutstanding, CommandsBelongToView
      <3> QED
        BY <3>1, <3>2, <3>3 DEF View
    <2> QED
      BY <1>4, <2>4, <2>5, <2>6, Groups, PTL
  <1>6. CASE ~Shows(shown, c)
    <2>1. UNCHANGED <<epoch, generation, answering, superseded, retired, answered,
                      outgoing, shown, latest>>
      BY <1>6 DEF DeleteConversation, answerVars, storeVars
    <2>2. TypeOK'
      BY <1>0, <1>1, <1>3, <2>1, SameSets DEF TypeOK
    <2>3. Answers'
      BY <1>0, <1>1, <2>1, AnswersKept, Groups
    <2>4. View'
      <3>1. \A o \in Calls : InView(call'[o])
        BY <1>1 DEF IInv, CallsOfView, InView
      <3>2. CallsOfView'
        BY <1>0, <2>1, <3>1, CallsInView DEF IInv
      <3>3. \A o \in Calls : outgoing[o] # None \/ (latest # None /\ o \in latest.errors)
               => call'[o].epoch = epoch /\ Shows(latest, call'[o].conversation)
        BY <1>1 DEF IInv, CommandsBelongToView
      <3>4. \A o \in Calls : outgoing[o] # None => Outstanding(outgoing[o], call'[o])
        BY <1>1 DEF IInv, MessagesOutstanding, Outstanding
      <3> QED
        BY <1>0, <2>1, <3>2, <3>3, <3>4, ViewUncommitted DEF storeVars
    <2> QED
      BY <1>4, <2>2, <2>3, <2>4, Groups, PTL
  <1> QED
    BY <1>5, <1>6

LEMMA DisposePreserves ==
    ASSUME IInv, Dispose
    PROVE  IInv'
  <1>0. /\ TypeOK /\ disposed' = TRUE /\ epoch' = epoch + 1 /\ generation' = generation + 1
        /\ outgoing' = NoMessages /\ sending' = {}
        /\ drafts' = [c \in Conversations |-> Discarded(drafts, c)[c]]
        /\ answering' = {} /\ superseded' = {} /\ retired' = <<>> /\ answered' = {}
        /\ shown' = None /\ latest' = None
        /\ UNCHANGED <<setup, readOnly, publishing, call>>
    BY DEF IInv, Dispose
  <1>1. disposed' \in BOOLEAN /\ disposed'
    BY <1>0
  <1>2. outgoing' \in Messages /\ \A o \in Calls : outgoing'[o] = None
    BY <1>0 DEF NoMessages, Messages
  <1>3. drafts' \in [Conversations -> Draft]
    <2>1. ASSUME NEW c \in Conversations PROVE Discarded(drafts, c)[c] \in Draft
      <3>1. Discarded(drafts, c) \in [Conversations -> Draft]
        BY <1>0, DiscardedTyped
      <3> QED
        BY <3>1
    <2> QED
      BY <1>0, <2>1
  <1>4. TypeOK'
    <2>1. epoch' \in Nat /\ generation' \in Nat
      BY <1>0 DEF TypeOK
    <2> QED
      BY <1>0, <1>1, <1>2, <1>3, <2>1, NothingRetired, SameSets DEF TypeOK
  <1>5. Table'
    <2>1. OnePublishes' /\ OneRequestPerMessage'
      BY <1>0 DEF IInv, OnePublishes, OneRequestPerMessage, Sends
    <2>2. TableHolds'
      BY <1>0, <1>1 DEF TableHolds
    <2> QED
      BY <2>1, <2>2 DEF Table
  <1>6. Answers'
    BY <1>0, AnswersBegin, Groups DEF IInv
  <1>7. View'
    <2>1. CallsOfView'
      <3>1. epoch' \in Nat
        BY <1>0 DEF TypeOK
      <3> QED
        BY <1>0, <3>1, GenerationPasses
    <2>2. NothingLeft' /\ SameView' /\ NeverShownTwice'
      BY <1>0 DEF NothingLeft, SameView, NeverShownTwice
    <2>3. MessagesOutstanding' /\ CommandsBelongToView'
      BY <1>0, <1>2 DEF MessagesOutstanding, CommandsBelongToView
    <2> QED
      BY <2>1, <2>2, <2>3 DEF View
  <1> QED
    BY <1>4, <1>5, <1>6, <1>7, Groups, PTL

-----------------------------------------------------------------------------
(* The theorems.                                                           *)

LEMMA NextIInv == IInv /\ [Next]_vars => IInv'
  <1> SUFFICES ASSUME IInv, [Next]_vars PROVE IInv'
    OBVIOUS
  <1>1. CASE Host
    <2>1. CASE \E c \in Conversations, text \in Texts : Type(c, text)
      BY <2>1, TypePreserves
    <2>2. CASE \E o \in Calls, op \in {"composer", "message", "text"}, c \in Conversations,
                  key \in Keys \cup {None} : Send(o, op, c, key)
      BY <2>2, SendPreserves
    <2>3. CASE \E o \in Calls, c \in Conversations, q \in Questions : Answer(o, c, q)
      BY <2>3, AnswerPreserves
    <2>4. CASE \E o \in Calls, c \in Conversations : Interrupt(o, c)
      BY <2>4, InterruptPreserves
    <2>5. CASE \E o \in Calls : Dismiss(o)
      BY <2>5, DismissPreserves
    <2>6. CASE \E c \in Conversations : ShowCached(c) \/ DiscardDraft(c)
      BY <2>6, ShowCachedPreserves, DiscardDraftPreserves
    <2>7. CASE Dispose
      BY <2>7, DisposePreserves
    <2> QED
      BY <1>1, <2>1, <2>2, <2>3, <2>4, <2>5, <2>6, <2>7 DEF Host
  <1>2. CASE Gateway
    <2>1. CASE \E o \in Calls, receipt \in {"accepted", "legacy", "failed"} :
                  SendSettles(o, receipt)
      BY <2>1, SendSettlesPreserves
    <2>2. CASE \E o \in Calls, result \in {"ok", "failed", "mismatch"} :
                  AnswerSettles(o, result)
      BY <2>2, AnswerSettlesPreserves
    <2>3. CASE \E o \in Calls, result \in {"ok", "failed"} : InterruptSettles(o, result)
      BY <2>3, InterruptSettlesPreserves
    <2>4. CASE Update
      BY <2>4, UpdatePreserves
    <2>5. CASE \E c \in Conversations, q \in Questions \cup {None} :
                  \E received \in SUBSET Requested(c) : Load(c, q, received)
      BY <2>5, LoadPreserves
    <2>6. CASE \E c \in Conversations : DeleteConversation(c)
      BY <2>6, DeletePreserves
    <2> QED
      BY <1>2, <2>1, <2>2, <2>3, <2>4, <2>5, <2>6 DEF Gateway
  <1>3. CASE PublishNext
    BY <1>3, PublishNextPreserves
  <1>4. CASE \E o \in Calls : Dispatch(o)
    BY <1>4, DispatchPreserves
  <1>5. CASE UNCHANGED vars
    <2>1. drafts' \in [Conversations -> Draft]
      BY <1>5 DEF IInv, TypeOK, vars
    <2> QED
      BY <1>5, <2>1, DraftsOnly DEF vars, answerVars, storeVars
  <1> QED
    BY <1>1, <1>2, <1>3, <1>4, <1>5 DEF Next

\* The invariant of the commands.
LEMMA Invariance == Spec => []IInv
  BY InitIInv, NextIInv, PTL DEF Spec

\* Every state of the client is one its types describe: among others, the list
\* of retired questions is within its limit and repeats none
\* (retireInteractionIdentity).
THEOREM TypeCorrect == Spec => []TypeOK
  BY Invariance, PTL DEF IInv

\* A message shown as "sending" is being sent, whatever happened to the view
\* since (sendOutgoing).
THEOREM SendingEnds == Spec => []NoStuckSending
  <1>1. IInv => NoStuckSending
    BY DEF IInv, MessagesOutstanding, Outstanding, NoStuckSending
  <1> QED
    BY <1>1, Invariance, PTL

\* Messages and failures on display are of commands given since the
\* conversation was last put on display (sendOutgoing, reportError).
THEOREM BelongsToView == Spec => []CommandsBelongToView
  BY Invariance, PTL DEF IInv

\* No message is shown both in the timeline and as accepted (commitSnapshot).
THEOREM ShownOnce == Spec => []NeverShownTwice
  BY Invariance, PTL DEF IInv

\* The same message is requested once at a time, apart from what a listener
\* sends inside its publication (sendComposerDraft, sendMessage).
THEOREM RequestedOnce == Spec => []OneRequestPerMessage
  BY Invariance, PTL DEF IInv

\* A question whose answer was acknowledged is not asked again
\* (guardInteractionTransition, answerInteraction).
THEOREM NotAskedAgain == Spec => []AnsweredNotAskedAgain
  BY Invariance, PTL DEF IInv


\* A draft that a step empties was sent, as it is, by a call that succeeds.
EmptiedBySending(c) ==
    /\ drafts[c].text # None /\ drafts'[c].text = None
    /\ drafts'[c].life = drafts[c].life
    => \E o \in Calls : /\ call[o].phase = "requested" /\ call'[o].result = "ok"
                        /\ call[o].draft = drafts[c]

\* Setting a draft to a text empties none.
LEMMA TypeEmptiesNothing ==
    ASSUME IInv, NEW d \in Conversations, NEW text \in Texts, Type(d, text),
           NEW c \in Conversations
    PROVE  EmptiedBySending(c)
  <1>1. text # None
    BY SetupsAssumption DEF IInv, TypeOK, Texts
  <1>2. drafts'[d].text = text /\ (d # c => drafts'[c] = drafts[c])
    BY SetDraftTyped DEF IInv, Type
  <1> QED
    BY <1>1, <1>2 DEF EmptiedBySending

\* A send that ends empties the draft it was made with, and only if it succeeds.
LEMMA SendSettlesEmptiesItsOwn ==
    ASSUME IInv, NEW o \in Calls, NEW receipt \in {"accepted", "legacy", "failed"},
           SendSettles(o, receipt), NEW c \in Conversations
    PROVE  EmptiedBySending(c)
  <1> DEFINE result == IF receipt = "failed" THEN "failed" ELSE "ok"
             d == call[o].conversation
  <1>1. /\ TypeOK /\ call[o].phase = "requested"
        /\ call' = [call EXCEPT ![o] = Done(o, result)]
        /\ IF Consumed(o, result) THEN SetDraft(d, None) ELSE drafts' = drafts
    BY DEF IInv, SendSettles
  <1>2. CASE ~Consumed(o, result)
    BY <1>1, <1>2 DEF EmptiedBySending
  <1>3. CASE Consumed(o, result)
    <2>1. call'[o].result = "ok" /\ call[o].draft = drafts[d]
      <3>1. result = "ok" /\ drafts[d] = call[o].draft
        BY <1>3 DEF Consumed
      <3>2. call'[o] = Done(o, result)
        BY <1>1 DEF TypeOK
      <3>3. Done(o, result).result = result
        BY DEF Done, Idle
      <3> QED
        BY <3>1, <3>2, <3>3
    <2>2. CASE d \notin Conversations
      BY <1>1, <1>3, <2>2, SetNoDraft DEF EmptiedBySending
    <2>3. CASE d \in Conversations
      <3>1. None \in Texts \cup {None}
        OBVIOUS
      <3>2. d # c => drafts'[c] = drafts[c]
        BY <1>1, <1>3, <2>3, <3>1, SetDraftTyped
      <3> QED
        BY <1>1, <2>1, <3>2 DEF EmptiedBySending
    <2> QED
      BY <2>2, <2>3
  <1> QED
    BY <1>2, <1>3

\* Whatever else empties a draft discards it: the next one is another object.
LEMMA NextEmptiesBySending ==
    ASSUME IInv, Next, NEW c \in Conversations
    PROVE  EmptiedBySending(c)
  <1> TypeOK
    BY DEF IInv
  <1>1. CASE UNCHANGED drafts
    BY <1>1 DEF EmptiedBySending
  <1>2. CASE \E d \in Conversations, text \in Texts : Type(d, text)
    BY <1>2, TypeEmptiesNothing
  <1>3. CASE \E o \in Calls, receipt \in {"accepted", "legacy", "failed"} :
                SendSettles(o, receipt)
    BY <1>3, SendSettlesEmptiesItsOwn
  <1>4. CASE \E d \in Conversations : drafts' = Discarded(drafts, d)
    <2>1. PICK d \in Conversations : drafts' = Discarded(drafts, d)
      BY <1>4
    <2>2. drafts'[d].life # drafts[d].life /\ (d # c => drafts'[c] = drafts[c])
      BY <2>1, DiscardedTyped
    <2> QED
      BY <2>2 DEF EmptiedBySending
  <1>5. CASE Dispose
    <2>1. drafts'[c] = Discarded(drafts, c)[c]
      BY <1>5 DEF Dispose
    <2>2. drafts'[c].life # drafts[c].life
      BY <2>1, DiscardedTyped
    <2> QED
      BY <2>2 DEF EmptiedBySending
  <1>6. Host => \/ UNCHANGED drafts \/ Dispose
                \/ \E d \in Conversations, text \in Texts : Type(d, text)
                \/ \E d \in Conversations : drafts' = Discarded(drafts, d)
    BY DEF Host, Send, Answer, Interrupt, Dismiss, ShowCached, DiscardDraft, sendVars
  <1>7. Gateway => \/ UNCHANGED drafts
                   \/ \E o \in Calls, receipt \in {"accepted", "legacy", "failed"} :
                         SendSettles(o, receipt)
                   \/ \E d \in Conversations : drafts' = Discarded(drafts, d)
    BY DEF Gateway, AnswerSettles, InterruptSettles, Update, Load, DeleteConversation,
           sendVars
  <1>8. PublishNext \/ (\E o \in Calls : Dispatch(o)) => UNCHANGED drafts
    BY DEF PublishNext, Dispatch, sendVars
  <1> QED
    BY <1>1, <1>2, <1>3, <1>4, <1>5, <1>6, <1>7, <1>8 DEF Next

\* A draft is emptied by the success of the send of that very draft and by
\* nothing else: what is typed while a send is in flight stays
\* (sendComposerDraft).
THEOREM DraftKept == Spec => DraftNotLost
  <1>1. IInv /\ [Next]_vars
           => [\A c \in Conversations :
                  /\ drafts[c].text # None /\ drafts'[c].text = None
                  /\ drafts'[c].life = drafts[c].life
                  => \E o \in Calls :
                        /\ call[o].phase = "requested" /\ call'[o].result = "ok"
                        /\ call[o].draft = drafts[c]]_vars
    BY NextEmptiesBySending DEF EmptiedBySending
  <1> QED
    BY <1>1, Invariance, PTL DEF Spec, DraftNotLost
=============================================================================
