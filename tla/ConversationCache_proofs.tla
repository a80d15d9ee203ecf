---------------------- MODULE ConversationCache_proofs ----------------------
(***************************************************************************)
(* Proofs about ConversationCache: no save is forgotten, and what was      *)
(* cleared stays cleared.  The second is not inductive: it needs to know   *)
(* where a version that was cleared may still be, and why the tab will     *)
(* neither show nor save it.                                               *)
(***************************************************************************)
EXTENDS ConversationCache, SequenceTheorems, FiniteSetTheorems, WellFoundedInduction, TLAPS

Elements(s) == {s[i] : i \in DOMAIN s}

-----------------------------------------------------------------------------
(* Types.  The fields of a tab, and of what it queues and runs.             *)

WriteOp == [kind : {"batch", "clear"}, id : Conversations \cup {All}, bar : Nat]

Job == [kind : {"none", "batch", "clear"}, left : Seq(Entry),
        id : Conversations \cup {All}, epoch : Nat,
        stage : {"idle", "waiting", "applied", "failed"},
        committed : Scope \cup {Nothing}, bar : Nat]

TabState ==
    [memory : Seq(Entry), expired : SUBSET Conversations, pending : Seq(Entry),
     saveScheduled : BOOLEAN, epoch : Nat, scopeEpoch : Nat,
     epochs : [Conversations -> Nat], copy : Scope \cup {Nothing},
     read : {"none", "asked", "fetched", "done"}, fetched : Scope \cup {Nothing},
     writes : Seq(WriteOp), job : Job, closed : BOOLEAN, storageError : BOOLEAN,
     clearedIds : SUBSET Conversations, clearedAll : BOOLEAN,
     savedAfterClear : SUBSET Conversations]

StateTyped ==
    /\ setup \in Setups
    /\ disk \in Scope
    /\ tab \in [Tabs -> TabState]
    /\ restores \subseteq [tab : Tabs, id : Conversations, epoch : Nat]
    /\ now \in 0..MaxTime

HistoryTyped ==
    /\ puts \in Seq(Tabs) /\ Len(puts) <= MaxPuts
    /\ barred \in [Tabs -> [Conversations -> 0..Len(puts)]]
    /\ inBatch \in [Tabs -> SUBSET Nat]
    /\ diskBarred \in [Tabs -> [Conversations -> 0..Len(puts)]]

CacheTyped == StateTyped /\ HistoryTyped

-----------------------------------------------------------------------------
(* The queue of writes: at most one batch waits or runs, and it runs with   *)
(* something to save.                                                       *)

Batches(b) == {i \in DOMAIN b.writes : b.writes[i].kind = "batch"}

Coalesced(b) ==
    /\ b.pending # <<>> => b.saveScheduled
    /\ b.saveScheduled <=> (b.job.kind = "batch" \/ Batches(b) # {})
    /\ b.job.kind = "batch" => Batches(b) = {}
    /\ \A i, j \in Batches(b) : i = j

JobInOrder(b) ==
    /\ b.job.kind = "batch" <=> b.job.left # <<>>
    /\ b.job.stage \in {"applied", "failed"} => b.read = "done"
    /\ b.job.stage # "applied" => b.job.committed = Nothing
    /\ b.fetched # Nothing => b.read = "fetched"
    /\ b.copy # Nothing => b.read = "done"
    /\ b.job.epoch <= b.epoch

QueueInv == \A t \in Tabs : Coalesced(tab[t]) /\ JobInOrder(tab[t])

-----------------------------------------------------------------------------
(* What the tab knows to be cleared.                                        *)

Marked(b, c) == c \in b.clearedIds \/ (b.clearedAll /\ c \notin b.savedAfterClear)

\* Version v of conversation c was put by the tab after its last clear of c, or
\* it waited in a running batch when that happened.
Fresh(bars, batch, c, v) == v > bars[c] \/ v \in batch

\* Versions that were put.
PutVersions(p, scope) ==
    \A c \in DOMAIN scope.entries :
        scope.entries[c] # Nothing => scope.entries[c].version \in DOMAIN p

\* What scope holds of tab t's own puts is fresh, or the tab will not restore it.
Guarded(t, b, bars, batch, p, scope) ==
    \A c \in DOMAIN scope.entries :
        LET r == scope.entries[c] IN
        r # Nothing /\ p[r.version] = t => Fresh(bars, batch, c, r.version) \/ Marked(b, c)

\* The save that runs may be stale only if a clear came since it began.
JobFresh(t, b, bars, batch, p) ==
    LET left == b.job.left IN
    \A i \in DOMAIN left :
        /\ left[i].version \in DOMAIN p /\ p[left[i].version] = t
        /\ \/ Fresh(bars, batch, left[i].id, left[i].version)
           \/ i = 1 /\ b.job.epoch # b.epoch /\ Marked(b, left[i].id)

\* What was committed of the conversation that is saved is what was saved.
SavedIs(t, b, p, scope) ==
    b.job.kind = "batch" /\ b.job.stage = "applied" /\ b.job.committed # Nothing =>
        LET e == b.job.left[1]
            r == scope.entries[e.id]
        IN  r # Nothing /\ p[r.version] = t => r.version = e.version

PendingFresh(t, b, bars, p) ==
    \A e \in Elements(b.pending) :
        /\ e.version \in DOMAIN p /\ p[e.version] = t
        /\ e.version > bars[e.id]

MemoryFresh(t, b, bars, batch, p) ==
    \A e \in Elements(b.memory) :
        /\ e.version \in DOMAIN p
        /\ p[e.version] = t => Fresh(bars, batch, e.id, e.version)

\* The scopes a tab knows, or is about to know, and the scope on the disk.
ScopesOf(b, scope) == {scope} \cup ({b.copy, b.fetched, b.job.committed} \ {Nothing})

ScopesFresh(t, b, bars, batch, p, scope) ==
    /\ \A s \in ScopesOf(b, scope) : PutVersions(p, s) /\ Guarded(t, b, bars, batch, p, s)
    /\ SavedIs(t, b, p, scope) /\ SavedIs(t, b, p, b.job.committed)

TabFresh(t, b, bars, batch, p, scope) ==
    /\ MemoryFresh(t, b, bars, batch, p)
    /\ PendingFresh(t, b, bars, p)
    /\ JobFresh(t, b, bars, batch, p)
    /\ ScopesFresh(t, b, bars, batch, p, scope)

FreshInv == \A t \in Tabs : TabFresh(t, tab[t], barred[t], inBatch[t], puts, disk)

-----------------------------------------------------------------------------
(* What may still be written to the disk.                                   *)

\* The clears that a tab has queued, or runs, are no later than it remembers.
ClearsBounded(b, bars) ==
    /\ \A i \in DOMAIN b.writes : b.writes[i].kind = "clear" =>
         \A c \in DOMAIN bars : b.writes[i].id \in {All, c} => b.writes[i].bar <= bars[c]
    /\ b.job.kind = "clear" =>
         \A c \in DOMAIN bars : b.job.id \in {All, c} => b.job.bar <= bars[c]

\* The epochs of the scopes a tab knows, or is about to know.
EpochsWithin(b, e) ==
    /\ DiskEpoch(b.copy) <= e
    /\ DiskEpoch(b.fetched) <= e
    /\ DiskEpoch(b.job.committed) <= e

\* The scope was cleared after the tab had read it: its saves conflict.
Outdated(b, e) ==
    /\ b.read \in {"fetched", "done"}
    /\ DiskEpoch(b.copy) < e
    /\ DiskEpoch(b.fetched) < e
    /\ DiskEpoch(b.job.committed) < e

MayWrite(b, bars, batch) ==
    \A e \in Elements(b.pending) \cup Elements(b.job.left) :
        e.version > bars[e.id] \/ e.version \in batch

TabWrites(b, bars, dbars, batch, e) ==
    /\ ClearsBounded(b, bars)
    /\ EpochsWithin(b, e)
    /\ b.read \in {"none", "asked"} => \A c \in DOMAIN dbars : dbars[c] = 0
    /\ Outdated(b, e) \/ MayWrite(b, dbars, batch)

WritesInv ==
    /\ \A t \in Tabs : TabWrites(tab[t], barred[t], diskBarred[t], inBatch[t], disk.epoch)
    /\ NoStaleWrite

CacheInv == CacheTyped /\ QueueInv /\ FreshInv /\ WritesInv

-----------------------------------------------------------------------------
(* Sequences of entries.                                                    *)

\* How many of the indices K come up to i.
UpTo(K, i) == {j \in K : j <= i}

\* K has a k-th index for each k up to its size: the first one that so many
\* indices come up to.
LEMMA NthExists ==
    ASSUME NEW n \in Nat, NEW K \in SUBSET (1..n), NEW k \in 1..Cardinality(K)
    PROVE  Nth(K, k) \in K
<1> DEFINE R == OpToRel(<, Nat)
           T == {i \in Nat : k <= Cardinality(UpTo(K, i))}
<1>1. IsWellFoundedOn(R, Nat)
    BY NatLessThanWellFounded
<1>2. \A x, y \in Nat : x < y => <<x, y>> \in R
    BY DEF OpToRel
<1> HIDE DEF R
<1>3. IsFiniteSet(K) /\ Cardinality(K) \in Nat
  <2>1. IsFiniteSet(1..n)
      BY FS_Interval
  <2> QED
      BY <2>1, FS_Subset, FS_CardinalityType
<1>4. \A i \in Nat : IsFiniteSet(UpTo(K, i)) /\ Cardinality(UpTo(K, i)) \in Nat
  <2> SUFFICES ASSUME NEW i \in Nat
               PROVE  IsFiniteSet(UpTo(K, i)) /\ Cardinality(UpTo(K, i)) \in Nat
      OBVIOUS
  <2>1. UpTo(K, i) \in SUBSET K
      BY DEF UpTo
  <2> QED
      BY <1>3, <2>1, FS_Subset, FS_CardinalityType
<1>5. n \in T
  <2>1. \A j \in K : j \in Nat /\ j <= n
      OBVIOUS
  <2>2. UpTo(K, n) = K
      BY <2>1 DEF UpTo
  <2> QED
      BY <1>3, <2>2
<1>6. PICK m \in T : \A y \in T : ~ (<<y, m>> \in R)
    BY <1>1, <1>5, WFMin
<1> HIDE DEF T
<1>7. m \in Nat /\ k <= Cardinality(UpTo(K, m))
    BY <1>6 DEF T
<1>8. m # 0
  <2>1. UpTo(K, 0) = {}
    <3>1. \A j \in K : ~ (j <= 0)
        OBVIOUS
    <3> QED
        BY <3>1 DEF UpTo
  <2>2. Cardinality(UpTo(K, 0)) = 0
      BY <2>1, FS_EmptySet
  <2> QED
      BY <1>3, <1>7, <2>2
<1>9. m - 1 \in Nat /\ m - 1 < m
    BY <1>7, <1>8
<1>10. ~ (k <= Cardinality(UpTo(K, m - 1)))
  <2>1. m - 1 \notin T
      BY <1>2, <1>6, <1>7, <1>9
  <2> QED
      BY <1>9, <2>1 DEF T
<1>11. m \in K
  <2>1. SUFFICES ASSUME m \notin K PROVE FALSE
      OBVIOUS
  <2>2. \A j \in K : j <= m <=> j <= m - 1
    <3> SUFFICES ASSUME NEW j \in K PROVE j <= m <=> j <= m - 1
        OBVIOUS
    <3>1. j \in Nat /\ j # m
        BY <2>1
    <3> QED
        BY <1>7, <3>1
  <2>3. UpTo(K, m) = UpTo(K, m - 1)
      BY <2>2 DEF UpTo
  <2> QED
      BY <1>7, <1>10, <2>3
<1>12. UpTo(K, m) = UpTo(K, m - 1) \cup {m} /\ m \notin UpTo(K, m - 1)
  <2>1. \A j \in K : j \in Nat /\ (j <= m <=> j <= m - 1 \/ j = m)
      BY <1>7
  <2>2. ~ (m <= m - 1)
      BY <1>7
  <2> QED
      BY <1>11, <2>1, <2>2 DEF UpTo
<1>13. Cardinality(UpTo(K, m)) = Cardinality(UpTo(K, m - 1)) + 1
    BY <1>4, <1>9, <1>12, FS_AddElement
<1>14. Cardinality({j \in K : j <= m}) = k
  <2>1. Cardinality(UpTo(K, m)) = k
      BY <1>4, <1>7, <1>9, <1>10, <1>13
  <2> QED
      BY <2>1 DEF UpTo
<1> QED
    BY <1>11, <1>14 DEF Nth

\* What Without leaves of a sequence.
LEMMA WithoutKeeps ==
    ASSUME NEW S, NEW s \in Seq(S), NEW C
    PROVE  /\ Without(s, C) \in Seq(S)
           /\ \A e \in Elements(Without(s, C)) : e \in Elements(s) /\ e.id \notin C
<1> DEFINE kept == {i \in DOMAIN s : s[i].id \notin C}
<1>1. Len(s) \in Nat /\ DOMAIN s = 1..Len(s)
    OBVIOUS
<1>2. kept \in SUBSET (1..Len(s))
    BY <1>1
<1>3. Cardinality(kept) \in Nat
  <2>1. IsFiniteSet(1..Len(s))
      BY <1>1, FS_Interval
  <2> QED
      BY <1>2, <2>1, FS_Subset, FS_CardinalityType
<1>4. \A k \in 1..Cardinality(kept) : Nth(kept, k) \in kept
  <2> HIDE DEF kept
  <2> QED
      BY <1>1, <1>2, NthExists
<1>5. Without(s, C) = [k \in 1..Cardinality(kept) |-> s[Nth(kept, k)]]
    BY DEF Without
<1>6. \A k \in 1..Cardinality(kept) : /\ s[Nth(kept, k)] \in S
                                      /\ s[Nth(kept, k)] \in Elements(s)
                                      /\ s[Nth(kept, k)].id \notin C
  <2> SUFFICES ASSUME NEW k \in 1..Cardinality(kept)
               PROVE  /\ s[Nth(kept, k)] \in S
                      /\ s[Nth(kept, k)] \in Elements(s)
                      /\ s[Nth(kept, k)].id \notin C
      OBVIOUS
  <2>1. Nth(kept, k) \in kept
      BY <1>4
  <2>2. PICK i \in kept : i = Nth(kept, k)
      BY <2>1
  <2>3. i \in 1..Len(s) /\ s[i].id \notin C
      BY <1>1, <2>2
  <2> HIDE DEF kept
  <2>4. s[i] \in S /\ s[i] \in Elements(s)
      BY <1>1, <2>3 DEF Elements
  <2> QED
      BY <2>2, <2>3, <2>4
<1> HIDE DEF kept
<1>7. Without(s, C) \in Seq(S)
    BY <1>3, <1>5, <1>6
<1> QED
    BY <1>5, <1>6, <1>7 DEF Elements

\* Elements are the values at the positions of a sequence.
LEMMA ElementsAt ==
    ASSUME NEW S, NEW s \in Seq(S)
    PROVE  /\ Elements(s) \subseteq S
           /\ s # <<>> => 1 \in DOMAIN s /\ Head(s) = s[1] /\ s[1] \in S
           /\ \A i \in DOMAIN s : s[i] \in Elements(s)
    BY DEF Elements

\* Map.set adds its entry, or puts it in the place of another.
LEMMA SetInKeeps ==
    ASSUME NEW S, NEW s \in Seq(S), NEW e \in S
    PROVE  /\ SetIn(s, e) \in Seq(S)
           /\ \A x \in Elements(SetIn(s, e)) : x \in Elements(s) \cup {e}
<1>1. CASE e.id \in Ids(s)
  <2>1. SetIn(s, e) = [i \in DOMAIN s |-> IF s[i].id = e.id THEN e ELSE s[i]]
      BY <1>1 DEF SetIn
  <2>2. Len(s) \in Nat /\ DOMAIN s = 1..Len(s)
      OBVIOUS
  <2>3. \A i \in DOMAIN s : s[i] \in S
      OBVIOUS
  <2>4. SetIn(s, e) \in Seq(S)
      BY <2>1, <2>2, <2>3
  <2> QED
      BY <2>1, <2>4 DEF Elements
<1>2. CASE e.id \notin Ids(s)
  <2>1. SetIn(s, e) = Append(s, e)
      BY <1>2 DEF SetIn
  <2> QED
      BY <2>1, AppendProperties DEF Elements
<1> QED
    BY <1>1, <1>2

\* What an append adds.
LEMMA AppendKeeps ==
    ASSUME NEW S, NEW s \in Seq(S), NEW e \in S
    PROVE  /\ Append(s, e) \in Seq(S)
           /\ \A x \in Elements(Append(s, e)) : x \in Elements(s) \cup {e}
           /\ DOMAIN s \subseteq DOMAIN Append(s, e)
           /\ \A i \in DOMAIN s : Append(s, e)[i] = s[i]
           /\ \A i \in DOMAIN Append(s, e) : i \in DOMAIN s \/ Append(s, e)[i] = e
           /\ Len(s) + 1 \in DOMAIN Append(s, e) /\ Append(s, e)[Len(s) + 1] = e
<1>1. /\ Append(s, e) \in Seq(S)
      /\ Len(Append(s, e)) = Len(s) + 1
      /\ \A i \in 1 .. Len(s) : Append(s, e)[i] = s[i]
      /\ Append(s, e)[Len(s) + 1] = e
    BY AppendProperties
<1>2. DOMAIN Append(s, e) = 1 .. Len(s) + 1 /\ DOMAIN s = 1 .. Len(s) /\ Len(s) \in Nat
    BY <1>1
<1> QED
    BY <1>1, <1>2 DEF Elements

\* The entry of a conversation that has one.
LEMMA LookupIs ==
    ASSUME NEW s, NEW c \in Ids(s)
    PROVE  Lookup(s, c) \in Elements(s) /\ Lookup(s, c).id = c
<1>1. \E e \in Elements(s) : e.id = c
    BY DEF Ids, Elements
<1>2. Lookup(s, c) = CHOOSE e \in Elements(s) : e.id = c
    BY DEF Lookup, Elements
<1> QED
    BY <1>1, <1>2

\* What is left behind the head.
LEMMA TailKeeps ==
    ASSUME NEW S, NEW s \in Seq(S), s # <<>>
    PROVE  /\ Tail(s) \in Seq(S)
           /\ Len(s) # 1 => Tail(s) # <<>>
           /\ \A i \in DOMAIN Tail(s) : i + 1 \in DOMAIN s /\ i + 1 # 1 /\ Tail(s)[i] = s[i + 1]
<1>1. Tail(s) \in Seq(S) /\ Len(Tail(s)) = Len(s) - 1
      /\ \A i \in 1 .. Len(Tail(s)) : Tail(s)[i] = s[i+1]
    BY HeadTailProperties
<1>2. Len(s) \in Nat /\ Len(s) # 0 /\ DOMAIN s = 1..Len(s) /\ DOMAIN Tail(s) = 1..Len(Tail(s))
    BY <1>1
<1>3. ASSUME Len(s) # 1 PROVE Tail(s) # <<>>
  <2>1. Len(Tail(s)) # 0
      BY <1>1, <1>2, <1>3
  <2> QED
      BY <2>1, EmptySeq
<1> QED
    BY <1>1, <1>2, <1>3

-----------------------------------------------------------------------------
(* What the operations make of the fields of a tab.  Each of them leaves    *)
(* most of the fields alone.                                                *)

SameContent(b, d) == d.memory = b.memory /\ d.pending = b.pending

SameJob(b, d) == d.job = b.job /\ d.epoch = b.epoch

SameScopes(b, d) == d.copy = b.copy /\ d.fetched = b.fetched /\ d.read = b.read

SameMarks(b, d) ==
    /\ d.clearedIds = b.clearedIds /\ d.clearedAll = b.clearedAll
    /\ d.savedAfterClear = b.savedAfterClear

SameQueue(b, d) == d.writes = b.writes /\ d.saveScheduled = b.saveScheduled

\* Only batches are added to the queue.
SameClears(b, d) ==
    \A i \in DOMAIN d.writes : d.writes[i].kind = "clear" =>
        i \in DOMAIN b.writes /\ d.writes[i] = b.writes[i]

\* The queue agrees with saveScheduled, but for what was just put.
AlmostCoalesced(b) ==
    /\ b.saveScheduled <=> (b.job.kind = "batch" \/ Batches(b) # {})
    /\ b.job.kind = "batch" => Batches(b) = {}
    /\ \A i, j \in Batches(b) : i = j

\* Scheduling a batch changes the queue only, and makes it agree.
LEMMA ScheduledFields ==
    ASSUME NEW b \in TabState
    PROVE  /\ Scheduled(b) \in TabState
           /\ SameContent(b, Scheduled(b)) /\ SameJob(b, Scheduled(b))
           /\ SameScopes(b, Scheduled(b)) /\ SameMarks(b, Scheduled(b))
           /\ SameClears(b, Scheduled(b))
           /\ AlmostCoalesced(b) => Coalesced(Scheduled(b))
<1> DEFINE op == [kind |-> "batch", id |-> All, bar |-> 0]
           d == [b EXCEPT !.saveScheduled = TRUE, !.writes = Append(@, op)]
<1>1. op \in WriteOp /\ op.kind = "batch"
    BY DEF WriteOp
<1>2. b.writes \in Seq(WriteOp)
    BY DEF TabState
<1> HIDE DEF op
<1>3. /\ Append(b.writes, op) \in Seq(WriteOp)
      /\ DOMAIN b.writes \subseteq DOMAIN Append(b.writes, op)
      /\ \A i \in DOMAIN b.writes : Append(b.writes, op)[i] = b.writes[i]
      /\ \A i \in DOMAIN Append(b.writes, op) : i \in DOMAIN b.writes \/ Append(b.writes, op)[i] = op
      /\ Len(b.writes) + 1 \in DOMAIN Append(b.writes, op)
      /\ Append(b.writes, op)[Len(b.writes) + 1] = op
      /\ \A i \in DOMAIN Append(b.writes, op) : i \in DOMAIN b.writes \/ i = Len(b.writes) + 1
  <2>1. DOMAIN Append(b.writes, op) = 1 .. Len(b.writes) + 1 /\ DOMAIN b.writes = 1 .. Len(b.writes)
      BY <1>1, <1>2, AppendProperties
  <2>2. \A i \in DOMAIN Append(b.writes, op) : i \in DOMAIN b.writes \/ i = Len(b.writes) + 1
      BY <1>2, <2>1
  <2> QED
      BY <1>1, <1>2, <2>2, AppendKeeps
<1>4. CASE b.saveScheduled \/ b.pending = <<>>
  <2>1. Scheduled(b) = b
      BY <1>4 DEF Scheduled
  <2> QED
      BY <1>4, <2>1 DEF SameContent, SameJob, SameScopes, SameMarks, SameClears, AlmostCoalesced,
                        Coalesced
<1>5. CASE ~ (b.saveScheduled \/ b.pending = <<>>)
  <2>1. Scheduled(b) = d
      BY <1>5 DEF Scheduled, op
  <2>2. d \in TabState
      BY <1>3 DEF TabState
  <2>3. /\ d.writes = Append(b.writes, op) /\ d.saveScheduled = TRUE
        /\ SameContent(b, d) /\ SameJob(b, d) /\ SameScopes(b, d) /\ SameMarks(b, d)
      BY DEF TabState, SameContent, SameJob, SameScopes, SameMarks
  <2> HIDE DEF d
  <2>4. SameClears(b, d)
      BY <1>1, <1>3, <2>3 DEF SameClears
  <2>5. ASSUME AlmostCoalesced(b) PROVE Coalesced(d)
    <3>1. b.saveScheduled = FALSE
        BY <1>5 DEF TabState
    <3>2. b.job.kind # "batch" /\ Batches(b) = {}
        BY <2>5, <3>1 DEF AlmostCoalesced
    <3>3. \A i \in DOMAIN b.writes : b.writes[i].kind # "batch"
        BY <3>2 DEF Batches
    <3>4. Batches(d) = {Len(b.writes) + 1}
        BY <1>1, <1>3, <2>3, <3>3 DEF Batches
    <3>5. d.job.kind # "batch"
        BY <2>3, <3>2 DEF SameJob
    <3> QED
        BY <2>3, <3>4, <3>5 DEF Coalesced
  <2> QED
      BY <2>1, <2>2, <2>3, <2>4, <2>5
<1> QED
    BY <1>4, <1>5

\* Trimming only takes entries away.
LEMMA TrimmedFields ==
    ASSUME NEW b \in TabState, NEW active
    PROVE  /\ Trimmed(b, active) \in TabState
           /\ SameQueue(b, Trimmed(b, active)) /\ SameJob(b, Trimmed(b, active))
           /\ SameScopes(b, Trimmed(b, active)) /\ SameMarks(b, Trimmed(b, active))
           /\ Elements(Trimmed(b, active).memory) \subseteq Elements(b.memory)
           /\ Elements(Trimmed(b, active).pending) \subseteq Elements(b.pending)
<1> DEFINE out == Evicted(b.memory, active)
           d == [b EXCEPT !.memory = Without(@, out), !.pending = Without(@, out)]
<1>1. Trimmed(b, active) = d
    BY DEF Trimmed
<1>2. b.memory \in Seq(Entry) /\ b.pending \in Seq(Entry)
    BY DEF TabState
<1> HIDE DEF out
<1>3. /\ Without(b.memory, out) \in Seq(Entry) /\ Without(b.pending, out) \in Seq(Entry)
      /\ Elements(Without(b.memory, out)) \subseteq Elements(b.memory)
      /\ Elements(Without(b.pending, out)) \subseteq Elements(b.pending)
    BY <1>2, WithoutKeeps
<1>4. d \in TabState
    BY <1>3 DEF TabState
<1>5. /\ d.memory = Without(b.memory, out) /\ d.pending = Without(b.pending, out)
      /\ SameQueue(b, d) /\ SameJob(b, d) /\ SameScopes(b, d) /\ SameMarks(b, d)
    BY DEF TabState, SameQueue, SameJob, SameScopes, SameMarks
<1> QED
    BY <1>1, <1>3, <1>4, <1>5

\* Asking for the scope to be read changes nothing else.
LEMMA AskingFields ==
    ASSUME NEW b \in TabState
    PROVE  /\ Asking(b) \in TabState
           /\ SameContent(b, Asking(b)) /\ SameQueue(b, Asking(b))
           /\ SameJob(b, Asking(b)) /\ SameMarks(b, Asking(b))
           /\ Asking(b).copy = b.copy /\ Asking(b).fetched = b.fetched
           /\ Asking(b).read = b.read \/ (b.read = "none" /\ Asking(b).read = "asked")
    BY DEF Asking, TabState, SameContent, SameQueue, SameJob, SameMarks

\* No write runs.
LEMMA NoJobTyped == NoJob \in Job /\ NoJob.kind = "none" /\ NoJob.left = <<>>
                    /\ NoJob.committed = Nothing /\ NoJob.stage = "idle" /\ NoJob.epoch = 0
<1>1. <<>> \in Seq(Entry)
    BY EmptySeq
<1> QED
    BY <1>1 DEF NoJob, Job

\* A sequence without elements is empty.
LEMMA NoElements ==
    ASSUME NEW S, NEW s \in Seq(S)
    PROVE  s = <<>> <=> Elements(s) = {}
<1>1. ASSUME s # <<>> PROVE Elements(s) # {}
    BY <1>1, ElementsAt
<1>2. ASSUME s = <<>> PROVE Elements(s) = {}
    BY <1>2 DEF Elements
<1> QED
    BY <1>1, <1>2

\* The end of a batch: what was put meanwhile is scheduled.
LEMMA BatchEndsFields ==
    ASSUME NEW b \in TabState, b.job.kind = "batch", AlmostCoalesced(b)
    PROVE  /\ BatchEnds(b) \in TabState
           /\ SameContent(b, BatchEnds(b)) /\ SameScopes(b, BatchEnds(b))
           /\ SameMarks(b, BatchEnds(b)) /\ SameClears(b, BatchEnds(b))
           /\ BatchEnds(b).epoch = b.epoch /\ BatchEnds(b).job = NoJob
           /\ Coalesced(BatchEnds(b))
<1> DEFINE d == [b EXCEPT !.job = NoJob, !.saveScheduled = FALSE]
<1>1. d \in TabState
    BY NoJobTyped DEF TabState
<1>2. /\ d.job = NoJob /\ d.saveScheduled = FALSE /\ d.epoch = b.epoch /\ d.writes = b.writes
      /\ SameContent(b, d) /\ SameScopes(b, d) /\ SameMarks(b, d)
    BY DEF TabState, SameContent, SameScopes, SameMarks
<1>3. BatchEnds(b) = Scheduled(d)
    BY DEF BatchEnds
<1> HIDE DEF d
<1>4. AlmostCoalesced(d)
  <2>1. Batches(b) = {} /\ Batches(d) = Batches(b)
      BY <1>2 DEF AlmostCoalesced, Batches
  <2> QED
      BY <1>2, <2>1, NoJobTyped DEF AlmostCoalesced
<1>5. /\ Scheduled(d) \in TabState
      /\ SameContent(d, Scheduled(d)) /\ SameJob(d, Scheduled(d))
      /\ SameScopes(d, Scheduled(d)) /\ SameMarks(d, Scheduled(d))
      /\ SameClears(d, Scheduled(d))
      /\ Coalesced(Scheduled(d))
    BY <1>1, <1>4, ScheduledFields
<1> QED
    BY <1>2, <1>3, <1>5 DEF SameContent, SameJob, SameScopes, SameMarks, SameClears

\* The job after a save has settled: none, or the next save of the batch.
JobGoesOn(b, job) ==
    \/ job = NoJob
    \/ /\ job.kind = "batch" /\ job.left = Tail(b.job.left) /\ job.left # <<>>
       /\ job.epoch = b.epoch /\ job.stage = "waiting" /\ job.committed = Nothing

LEMMA BatchGoesOnFields ==
    ASSUME NEW b \in TabState, b.job.kind = "batch", b.job.left # <<>>, AlmostCoalesced(b)
    PROVE  /\ BatchGoesOn(b) \in TabState
           /\ SameContent(b, BatchGoesOn(b)) /\ SameScopes(b, BatchGoesOn(b))
           /\ SameMarks(b, BatchGoesOn(b)) /\ SameClears(b, BatchGoesOn(b))
           /\ BatchGoesOn(b).epoch = b.epoch /\ JobGoesOn(b, BatchGoesOn(b).job)
           /\ Coalesced(BatchGoesOn(b))
<1>1. CASE Len(b.job.left) = 1
    BY <1>1, BatchEndsFields DEF BatchGoesOn, JobGoesOn
<1>2. CASE Len(b.job.left) # 1
  <2> DEFINE d == BatchGoesOn(b)
             j == d.job
  <2>1. d = [b EXCEPT !.job = [@ EXCEPT !.left = Tail(b.job.left), !.epoch = b.epoch,
                                        !.stage = "waiting", !.committed = Nothing]]
      BY <1>2 DEF BatchGoesOn
  <2>2. b.job \in Job /\ b.job.left \in Seq(Entry) /\ b.epoch \in Nat
      BY DEF TabState, Job
  <2>3. Tail(b.job.left) \in Seq(Entry) /\ Tail(b.job.left) # <<>>
      BY <1>2, <2>2, TailKeeps
  <2> HIDE DEF d
  <2>4. /\ j \in Job /\ j.kind = b.job.kind /\ j.left = Tail(b.job.left)
        /\ j.epoch = b.epoch /\ j.stage = "waiting" /\ j.committed = Nothing
      BY <2>1, <2>2, <2>3 DEF Job, TabState
  <2>5. d \in TabState
      BY <2>1, <2>2, <2>3 DEF TabState, Job
  <2>6. /\ d.epoch = b.epoch /\ SameQueue(b, d)
        /\ SameContent(b, d) /\ SameScopes(b, d) /\ SameMarks(b, d)
      BY <2>1 DEF TabState, SameContent, SameScopes, SameMarks, SameQueue
  <2> HIDE DEF j
  <2>7. Coalesced(d) /\ SameClears(b, d)
      BY <2>4, <2>6 DEF j, Coalesced, AlmostCoalesced, SameQueue, Batches, SameClears
  <2> QED
      BY <2>3, <2>4, <2>5, <2>6, <2>7 DEF d, j, JobGoesOn
<1> QED
    BY <1>1, <1>2

\* A commit is adopted; it lifts the mark of its conversation if no clear came.
LEMMA SaveCommittedFields ==
    ASSUME NEW b \in TabState, NEW c \in Conversations
    PROVE  /\ SaveCommitted(b, c) \in TabState
           /\ SameContent(b, SaveCommitted(b, c)) /\ SameQueue(b, SaveCommitted(b, c))
           /\ SameJob(b, SaveCommitted(b, c))
           /\ SaveCommitted(b, c).copy = b.job.committed
           /\ SaveCommitted(b, c).fetched = b.fetched /\ SaveCommitted(b, c).read = b.read
           /\ \A k : Marked(b, k) =>
                 Marked(SaveCommitted(b, c), k) \/ (k = c /\ b.job.epoch = b.epoch)
<1> DEFINE d == SaveCommitted(b, c)
<1>1. b.job.committed \in Scope \cup {Nothing}
    BY DEF TabState, Job
<1>2. d \in TabState
  <2>1. (IF b.job.epoch = b.epoch THEN b.clearedIds \ {c} ELSE b.clearedIds) \in SUBSET Conversations
      BY DEF TabState
  <2>2. (IF b.job.epoch = b.epoch THEN b.savedAfterClear \cup {c} ELSE b.savedAfterClear)
            \in SUBSET Conversations
      BY DEF TabState
  <2> QED
      BY <1>1, <2>1, <2>2 DEF SaveCommitted, TabState
<1>3. /\ SameContent(b, d) /\ SameQueue(b, d) /\ SameJob(b, d)
      /\ d.copy = b.job.committed /\ d.fetched = b.fetched /\ d.read = b.read
      /\ d.clearedIds = (IF b.job.epoch = b.epoch THEN b.clearedIds \ {c} ELSE b.clearedIds)
      /\ d.clearedAll = b.clearedAll
      /\ d.savedAfterClear = (IF b.job.epoch = b.epoch THEN b.savedAfterClear \cup {c}
                              ELSE b.savedAfterClear)
    BY DEF SaveCommitted, TabState, SameContent, SameQueue, SameJob
<1> HIDE DEF d
<1>4. \A k : Marked(b, k) => Marked(d, k) \/ (k = c /\ b.job.epoch = b.epoch)
    BY <1>3 DEF Marked
<1> QED
    BY <1>2, <1>3, <1>4 DEF d

-----------------------------------------------------------------------------
(* What stays fresh.                                                        *)

\* What is not about the contents depends on the job, the scopes and the marks.
LEMMA ScopesFreshSame ==
    ASSUME NEW t, NEW b, NEW d, NEW bars, NEW batch, NEW p, NEW scope,
           JobFresh(t, b, bars, batch, p), ScopesFresh(t, b, bars, batch, p, scope),
           SameJob(b, d), SameMarks(b, d), d.copy = b.copy, d.fetched = b.fetched
    PROVE  JobFresh(t, d, bars, batch, p) /\ ScopesFresh(t, d, bars, batch, p, scope)
<1>1. \A c : Marked(d, c) <=> Marked(b, c)
    BY DEF Marked, SameMarks
<1>2. d.job = b.job /\ d.epoch = b.epoch
    BY DEF SameJob
<1>3. JobFresh(t, d, bars, batch, p)
    BY <1>1, <1>2 DEF JobFresh
<1>4. ASSUME NEW s \in ScopesOf(d, scope)
      PROVE  PutVersions(p, s) /\ Guarded(t, d, bars, batch, p, s)
  <2>1. PutVersions(p, s) /\ Guarded(t, b, bars, batch, p, s)
      BY <1>2 DEF ScopesFresh, ScopesOf
  <2> QED
      BY <1>1, <2>1 DEF Guarded
<1>5. SavedIs(t, d, p, scope) /\ SavedIs(t, d, p, d.job.committed)
    BY <1>2 DEF ScopesFresh, SavedIs
<1> QED
    BY <1>3, <1>4, <1>5 DEF ScopesFresh

\* A put of any tab changes nothing for what was put before.
LEMMA PutsGrow ==
    ASSUME NEW T, NEW p \in Seq(T), NEW x \in T, NEW t, NEW b \in TabState, NEW bars, NEW batch,
           NEW scope \in Scope, TabFresh(t, b, bars, batch, p, scope), JobInOrder(b)
    PROVE  TabFresh(t, b, bars, batch, Append(p, x), scope)
<1> DEFINE q == Append(p, x)
<1>1. DOMAIN p \subseteq DOMAIN q /\ \A i \in DOMAIN p : q[i] = p[i]
    BY AppendKeeps
<1> HIDE DEF q
<1>2. MemoryFresh(t, b, bars, batch, q)
    BY <1>1 DEF TabFresh, MemoryFresh
<1>3. PendingFresh(t, b, bars, q)
    BY <1>1 DEF TabFresh, PendingFresh
<1>4. JobFresh(t, b, bars, batch, q)
    BY <1>1 DEF TabFresh, JobFresh
<1>5. ASSUME NEW s \in ScopesOf(b, scope)
      PROVE  PutVersions(q, s) /\ Guarded(t, b, bars, batch, q, s)
  <2>1. PutVersions(p, s) /\ Guarded(t, b, bars, batch, p, s)
      BY <1>5 DEF TabFresh, ScopesFresh
  <2> QED
      BY <1>1, <2>1 DEF PutVersions, Guarded
<1>6. ASSUME NEW s \in {scope, b.job.committed}, SavedIs(t, b, p, s) PROVE SavedIs(t, b, q, s)
  <2> SUFFICES ASSUME b.job.kind = "batch", b.job.stage = "applied", b.job.committed # Nothing,
                      b.job.left # <<>>
               PROVE  SavedIs(t, b, q, s)
      BY DEF SavedIs, JobInOrder
  <2>1. PutVersions(p, s)
      BY <1>6 DEF TabFresh, ScopesFresh, ScopesOf
  <2>2. s \in Scope
      BY <1>6 DEF TabState, Job
  <2>3. b.job.left[1] \in Entry
      BY ElementsAt DEF TabState, Job
  <2>4. b.job.left[1].id \in DOMAIN s.entries
      BY <2>2, <2>3 DEF Scope, Entry
  <2>5. ASSUME s.entries[b.job.left[1].id] # Nothing
        PROVE  q[s.entries[b.job.left[1].id].version] = p[s.entries[b.job.left[1].id].version]
      BY <1>1, <2>1, <2>4, <2>5 DEF PutVersions
  <2> QED
      BY <1>6, <2>5 DEF SavedIs
<1> QED
    BY <1>2, <1>3, <1>4, <1>5, <1>6 DEF TabFresh, ScopesFresh, q

\* The scope of the host loses records, or gets one that another tab put.
LEMMA ScopeChanges ==
    ASSUME NEW t, NEW b \in TabState, NEW bars, NEW batch, NEW p,
           NEW old \in Scope, NEW scope \in Scope, JobInOrder(b),
           TabFresh(t, b, bars, batch, p, old),
           \A c \in Conversations : scope.entries[c] # Nothing =>
               \/ scope.entries[c] = old.entries[c]
               \/ scope.entries[c].version \in DOMAIN p /\ p[scope.entries[c].version] # t
    PROVE  TabFresh(t, b, bars, batch, p, scope)
<1>1. DOMAIN scope.entries = Conversations /\ DOMAIN old.entries = Conversations
    BY DEF Scope
<1>2. PutVersions(p, old) /\ Guarded(t, b, bars, batch, p, old) /\ SavedIs(t, b, p, old)
    BY DEF TabFresh, ScopesFresh, ScopesOf
<1>3. PutVersions(p, scope)
    BY <1>1, <1>2 DEF PutVersions
<1>4. Guarded(t, b, bars, batch, p, scope)
    BY <1>1, <1>2 DEF Guarded
<1>5. SavedIs(t, b, p, scope)
  <2> SUFFICES ASSUME b.job.kind = "batch", b.job.stage = "applied", b.job.committed # Nothing,
                      b.job.left # <<>>
               PROVE  SavedIs(t, b, p, scope)
      BY DEF SavedIs, JobInOrder
  <2>1. b.job.left[1] \in Entry
      BY ElementsAt DEF TabState, Job
  <2>2. b.job.left[1].id \in Conversations
      BY <2>1 DEF Entry
  <2> QED
      BY <1>2, <2>2 DEF SavedIs
<1>6. \A s \in ScopesOf(b, scope) : PutVersions(p, s) /\ Guarded(t, b, bars, batch, p, s)
    BY <1>3, <1>4 DEF TabFresh, ScopesFresh, ScopesOf
<1> QED
    BY <1>5, <1>6 DEF TabFresh, ScopesFresh

\* What may be written still may, when what is added to the pending saves may.
LEMMA WritesSame ==
    ASSUME NEW b, NEW d, NEW bars, NEW dbars, NEW batch, NEW e,
           TabWrites(b, bars, dbars, batch, e), SameClears(b, d), d.job = b.job,
           d.copy = b.copy, d.fetched = b.fetched,
           d.read = b.read \/ (b.read = "none" /\ d.read = "asked"),
           \A x \in Elements(d.pending) : x \in Elements(b.pending) \/ x.version > dbars[x.id]
    PROVE  TabWrites(d, bars, dbars, batch, e)
<1>1. ClearsBounded(d, bars)
    BY DEF TabWrites, ClearsBounded, SameClears
<1>2. EpochsWithin(d, e)
    BY DEF TabWrites, EpochsWithin
<1>3. d.read \in {"none", "asked"} => \A c \in DOMAIN dbars : dbars[c] = 0
    BY DEF TabWrites
<1>4. Outdated(b, e) => Outdated(d, e)
    BY DEF Outdated
<1>5. MayWrite(b, dbars, batch) => MayWrite(d, dbars, batch)
    BY DEF MayWrite
<1> QED
    BY <1>1, <1>2, <1>3, <1>4, <1>5 DEF TabWrites

\* The settings do not change, so neither do the types.
LEMMA SameTypes ==
    ASSUME setup' = setup
    PROVE  /\ Tabs' = Tabs /\ Conversations' = Conversations /\ MaxTime' = MaxTime
           /\ Scope' = Scope /\ TabState' = TabState
<1>1. Tabs' = Tabs /\ Conversations' = Conversations /\ MaxTime' = MaxTime
    BY DEF Tabs, Conversations, MaxTime
<1>2. Entry' = Entry /\ Record' = Record
    BY <1>1 DEF Entry, Record
<1>3. Scope' = Scope /\ WriteOp' = WriteOp
    BY <1>1, <1>2 DEF Scope, WriteOp
<1>4. Job' = Job
    BY <1>1, <1>2, <1>3 DEF Job
<1> QED
    BY <1>1, <1>2, <1>3, <1>4 DEF TabState

\* A step of one tab keeps the invariant if the tab's new fields satisfy it and
\* the others' still do.
LEMMA TabStep ==
    ASSUME NEW t \in Tabs, NEW d \in TabState, CacheTyped, QueueInv,
           setup' = setup, tab' = [tab EXCEPT ![t] = d], disk' \in Scope,
           restores' \subseteq [tab : Tabs, id : Conversations, epoch : Nat], now' = now,
           puts' \in Seq(Tabs), Len(puts') <= MaxPuts,
           barred' \in [Tabs -> [Conversations -> 0..Len(puts')]],
           inBatch' \in [Tabs -> SUBSET Nat],
           diskBarred' \in [Tabs -> [Conversations -> 0..Len(puts')]],
           Coalesced(d), JobInOrder(d),
           TabFresh(t, d, barred'[t], inBatch'[t], puts', disk'),
           TabWrites(d, barred'[t], diskBarred'[t], inBatch'[t], disk'.epoch),
           \A u \in Tabs : u # t =>
              /\ TabFresh(u, tab[u], barred'[u], inBatch'[u], puts', disk')
              /\ TabWrites(tab[u], barred'[u], diskBarred'[u], inBatch'[u], disk'.epoch),
           NoStaleWrite'
    PROVE  CacheInv'
<1>1. /\ Tabs' = Tabs /\ Conversations' = Conversations /\ MaxTime' = MaxTime
      /\ Scope' = Scope /\ TabState' = TabState
    BY SameTypes
<1>2. tab \in [Tabs -> TabState]
    BY DEF CacheTyped, StateTyped
<1>3. tab' \in [Tabs -> TabState] /\ \A u \in Tabs : tab'[u] = IF u = t THEN d ELSE tab[u]
    BY <1>2
<1>4. StateTyped'
    BY <1>1, <1>3 DEF CacheTyped, StateTyped
<1>5. HistoryTyped'
    BY <1>1 DEF HistoryTyped
<1>6. ASSUME NEW u \in Tabs PROVE Coalesced(tab'[u]) /\ JobInOrder(tab'[u])
    BY <1>3 DEF QueueInv
<1>7. ASSUME NEW u \in Tabs PROVE TabFresh(u, tab'[u], barred'[u], inBatch'[u], puts', disk')
    BY <1>3
<1>8. ASSUME NEW u \in Tabs
      PROVE  TabWrites(tab'[u], barred'[u], diskBarred'[u], inBatch'[u], disk'.epoch)
    BY <1>3
<1>9. QueueInv' /\ FreshInv' /\ WritesInv'
    BY <1>1, <1>6, <1>7, <1>8 DEF QueueInv, FreshInv, WritesInv
<1> QED
    BY <1>4, <1>5, <1>9 DEF CacheInv, CacheTyped

\* A step that changes the fields of one tab only.
LEMMA LocalStep ==
    ASSUME NEW t \in Tabs, NEW d \in TabState, CacheInv,
           setup' = setup, tab' = [tab EXCEPT ![t] = d],
           restores' \subseteq [tab : Tabs, id : Conversations, epoch : Nat],
           UNCHANGED <<disk, now, puts, barred, inBatch, diskBarred>>,
           Coalesced(d), JobInOrder(d),
           TabFresh(t, d, barred[t], inBatch[t], puts, disk),
           TabWrites(d, barred[t], diskBarred[t], inBatch[t], disk.epoch)
    PROVE  CacheInv'
<1>1. /\ CacheTyped /\ QueueInv
      /\ disk \in Scope /\ puts \in Seq(Tabs) /\ Len(puts) <= MaxPuts
      /\ barred \in [Tabs -> [Conversations -> 0..Len(puts)]]
      /\ inBatch \in [Tabs -> SUBSET Nat]
      /\ diskBarred \in [Tabs -> [Conversations -> 0..Len(puts)]]
    BY DEF CacheInv, CacheTyped, StateTyped, HistoryTyped
<1>2. \A u \in Tabs : TabFresh(u, tab[u], barred[u], inBatch[u], puts, disk)
    BY DEF CacheInv, FreshInv
<1>3. \A u \in Tabs : TabWrites(tab[u], barred[u], diskBarred[u], inBatch[u], disk.epoch)
    BY DEF CacheInv, WritesInv
<1>4. NoStaleWrite'
    BY SameTypes DEF CacheInv, WritesInv, NoStaleWrite
<1> QED
    BY <1>1, <1>2, <1>3, <1>4, TabStep

\* What the invariant says of one tab.
LEMMA OfTab ==
    ASSUME CacheInv, NEW t \in Tabs
    PROVE  /\ tab[t] \in TabState
           /\ Coalesced(tab[t]) /\ JobInOrder(tab[t])
           /\ TabFresh(t, tab[t], barred[t], inBatch[t], puts, disk)
           /\ TabWrites(tab[t], barred[t], diskBarred[t], inBatch[t], disk.epoch)
           /\ disk \in Scope /\ puts \in Seq(Tabs) /\ Len(puts) \in Nat
           /\ Len(puts) <= MaxPuts /\ MaxPuts \in Nat
           /\ restores \subseteq [tab : Tabs, id : Conversations, epoch : Nat]
           /\ barred[t] \in [Conversations -> 0..Len(puts)]
           /\ diskBarred[t] \in [Conversations -> 0..Len(puts)]
           /\ inBatch[t] \in SUBSET Nat
           /\ now \in 0..MaxTime
    BY CacheAssumption
       DEF CacheInv, CacheTyped, StateTyped, HistoryTyped, QueueInv, FreshInv, WritesInv

\* The queue still agrees when entries are taken from what waits to be saved.
LEMMA CoalescedShrinks ==
    ASSUME NEW b \in TabState, NEW d \in TabState, Coalesced(b), SameQueue(b, d), d.job = b.job,
           Elements(d.pending) \subseteq Elements(b.pending)
    PROVE  Coalesced(d)
<1>1. b.pending \in Seq(Entry) /\ d.pending \in Seq(Entry)
    BY DEF TabState
<1>2. d.pending # <<>> => b.pending # <<>>
    BY <1>1, NoElements
<1>3. Batches(d) = Batches(b)
    BY DEF Batches, SameQueue
<1> QED
    BY <1>2, <1>3 DEF Coalesced, SameQueue

\* A step of one tab on its contents, whose memory stays fresh.
LEMMA QuietStep ==
    ASSUME NEW t \in Tabs, NEW d \in TabState, CacheInv,
           setup' = setup, tab' = [tab EXCEPT ![t] = d],
           restores' \subseteq [tab : Tabs, id : Conversations, epoch : Nat],
           UNCHANGED <<disk, now, puts, barred, inBatch, diskBarred>>,
           SameJob(tab[t], d), SameQueue(tab[t], d), SameMarks(tab[t], d),
           d.copy = tab[t].copy, d.fetched = tab[t].fetched,
           d.read = tab[t].read \/ (tab[t].read = "none" /\ d.read = "asked"),
           MemoryFresh(t, d, barred[t], inBatch[t], puts),
           Elements(d.pending) \subseteq Elements(tab[t].pending)
    PROVE  CacheInv'
<1> DEFINE b == tab[t]
<1>1. /\ b \in TabState /\ Coalesced(b) /\ JobInOrder(b)
      /\ TabFresh(t, b, barred[t], inBatch[t], puts, disk)
      /\ TabWrites(b, barred[t], diskBarred[t], inBatch[t], disk.epoch)
    BY OfTab
<1>2. Coalesced(d)
    BY <1>1, CoalescedShrinks DEF SameJob
<1>3. JobInOrder(d)
    BY <1>1 DEF JobInOrder, SameJob
<1>4. PendingFresh(t, d, barred[t], puts)
    BY <1>1 DEF TabFresh, PendingFresh
<1>5. JobFresh(t, d, barred[t], inBatch[t], puts)
      /\ ScopesFresh(t, d, barred[t], inBatch[t], puts, disk)
  <2>1. JobFresh(t, b, barred[t], inBatch[t], puts)
        /\ ScopesFresh(t, b, barred[t], inBatch[t], puts, disk)
      BY <1>1 DEF TabFresh
  <2> QED
      BY <2>1, ScopesFreshSame
<1>6. TabFresh(t, d, barred[t], inBatch[t], puts, disk)
    BY <1>4, <1>5 DEF TabFresh
<1>7. SameClears(b, d) /\ d.job = b.job
    BY DEF SameClears, SameQueue, SameJob
<1>8. TabWrites(d, barred[t], diskBarred[t], inBatch[t], disk.epoch)
    BY <1>1, <1>7, WritesSame
<1> QED
    BY <1>2, <1>3, <1>6, <1>8, LocalStep

LEMMA PeekStep ==
    ASSUME CacheInv, setup' = setup, NEW t \in Tabs, NEW c \in Conversations, Peek(t, c)
    PROVE  CacheInv'
<1> DEFINE b == tab[t]
           e == Lookup(b.memory, c)
           rest == Without(b.memory, {c})
           d == IF Expired(e.savedAt) THEN [b EXCEPT !.memory = rest, !.expired = @ \cup {c}]
                ELSE [b EXCEPT !.memory = Append(rest, e)]
<1>1. /\ b \in TabState /\ MemoryFresh(t, b, barred[t], inBatch[t], puts)
      /\ restores \subseteq [tab : Tabs, id : Conversations, epoch : Nat]
    BY OfTab DEF TabFresh
<1>2. b.memory \in Seq(Entry) /\ c \in Ids(b.memory)
    BY <1>1 DEF TabState, Peek
<1>3. e \in Elements(b.memory) /\ e \in Entry
    BY <1>2, LookupIs, ElementsAt
<1>4. rest \in Seq(Entry) /\ Elements(rest) \subseteq Elements(b.memory)
    BY <1>2, WithoutKeeps
<1>6. tab' = [tab EXCEPT ![t] = d]
    BY DEF Peek
<1> HIDE DEF e, rest
<1>5. Append(rest, e) \in Seq(Entry) /\ Elements(Append(rest, e)) \subseteq Elements(b.memory)
    BY <1>3, <1>4, AppendKeeps
<1>7. /\ d \in TabState /\ SameJob(b, d) /\ SameQueue(b, d) /\ SameMarks(b, d)
      /\ SameScopes(b, d) /\ d.pending = b.pending
      /\ d.memory = rest \/ d.memory = Append(rest, e)
  <2>1. CASE Expired(e.savedAt)
    <3>1. d = [b EXCEPT !.memory = rest, !.expired = @ \cup {c}]
        BY <2>1
    <3> QED
        BY <1>1, <1>4, <3>1 DEF TabState, SameJob, SameQueue, SameMarks, SameScopes
  <2>2. CASE ~Expired(e.savedAt)
    <3>1. d = [b EXCEPT !.memory = Append(rest, e)]
        BY <2>2
    <3> QED
        BY <1>1, <1>5, <3>1 DEF TabState, SameJob, SameQueue, SameMarks, SameScopes
  <2> QED
      BY <2>1, <2>2
<1> HIDE DEF d
<1>8. MemoryFresh(t, d, barred[t], inBatch[t], puts)
    BY <1>1, <1>4, <1>5, <1>7 DEF MemoryFresh
<1>9. UNCHANGED <<disk, restores, now, puts, barred, inBatch, diskBarred>>
    BY DEF Peek
<1> QED
    BY <1>1, <1>6, <1>7, <1>8, <1>9, QuietStep DEF SameScopes

LEMMA RestoreEntryStep ==
    ASSUME CacheInv, setup' = setup, NEW t \in Tabs, NEW c \in Conversations, RestoreEntry(t, c)
    PROVE  CacheInv'
<1> DEFINE b == tab[t]
<1>1. /\ b \in TabState /\ MemoryFresh(t, b, barred[t], inBatch[t], puts)
      /\ restores \subseteq [tab : Tabs, id : Conversations, epoch : Nat]
    BY OfTab DEF TabFresh
<1>2. EpochFor(b, c) \in Nat
    BY <1>1 DEF EpochFor, TabState
<1>3. restores' \subseteq [tab : Tabs, id : Conversations, epoch : Nat]
    BY <1>1, <1>2 DEF RestoreEntry
<1>4. /\ tab' = [tab EXCEPT ![t] = Asking(b)]
      /\ UNCHANGED <<disk, now, puts, barred, inBatch, diskBarred>>
    BY DEF RestoreEntry
<1>5. /\ Asking(b) \in TabState
      /\ SameContent(b, Asking(b)) /\ SameQueue(b, Asking(b))
      /\ SameJob(b, Asking(b)) /\ SameMarks(b, Asking(b))
      /\ Asking(b).copy = b.copy /\ Asking(b).fetched = b.fetched
      /\ Asking(b).read = b.read \/ (b.read = "none" /\ Asking(b).read = "asked")
    BY <1>1, AskingFields
<1>6. MemoryFresh(t, Asking(b), barred[t], inBatch[t], puts)
    BY <1>1, <1>5 DEF MemoryFresh, SameContent
<1> QED
    BY <1>3, <1>4, <1>5, <1>6, QuietStep DEF SameContent

LEMMA RestoreSettlesStep ==
    ASSUME CacheInv, setup' = setup, NEW r \in restores, RestoreSettles(r)
    PROVE  CacheInv'
<1> DEFINE t == r.tab
           b == tab[t]
           record == b.copy.entries[r.id]
           e == [id |-> r.id, version |-> record.version, savedAt |-> record.savedAt]
           m == SetIn(b.memory, e)
           d == IF ~Restorable(r) THEN b
                ELSE IF Expired(record.savedAt) THEN [b EXCEPT !.expired = @ \cup {r.id}]
                ELSE Trimmed([b EXCEPT !.memory = SetIn(@, e)], r.id)
<1>1. t \in Tabs /\ r.id \in Conversations
    BY DEF CacheInv, CacheTyped, StateTyped
<1>2. /\ b \in TabState /\ TabFresh(t, b, barred[t], inBatch[t], puts, disk)
      /\ restores \subseteq [tab : Tabs, id : Conversations, epoch : Nat]
    BY <1>1, OfTab
<1>3. /\ tab' = [tab EXCEPT ![t] = d]
      /\ UNCHANGED <<disk, now, puts, barred, inBatch, diskBarred>>
      /\ restores' \subseteq [tab : Tabs, id : Conversations, epoch : Nat]
    BY <1>2 DEF RestoreSettles
<1>4. /\ d \in TabState /\ SameJob(b, d) /\ SameQueue(b, d) /\ SameMarks(b, d)
      /\ SameScopes(b, d) /\ Elements(d.pending) \subseteq Elements(b.pending)
      /\ MemoryFresh(t, d, barred[t], inBatch[t], puts)
  <2>1. CASE ~Restorable(r)
    <3>1. d = b
        BY <2>1
    <3> QED
        BY <1>2, <3>1 DEF SameJob, SameQueue, SameMarks, SameScopes, TabFresh
  <2>2. CASE Restorable(r) /\ Expired(record.savedAt)
    <3>1. d = [b EXCEPT !.expired = @ \cup {r.id}]
        BY <2>2
    <3> HIDE DEF d
    <3>2. d \in TabState
      <4>1. b.expired \cup {r.id} \in SUBSET Conversations
          BY <1>1, <1>2 DEF TabState
      <4> QED
          BY <1>2, <3>1, <4>1 DEF TabState
    <3>3. /\ SameJob(b, d) /\ SameQueue(b, d) /\ SameMarks(b, d) /\ SameScopes(b, d)
          /\ d.pending = b.pending /\ d.memory = b.memory
        BY <1>2, <3>1 DEF TabState, SameJob, SameQueue, SameMarks, SameScopes
    <3> QED
        BY <1>2, <3>2, <3>3 DEF TabFresh, MemoryFresh
  <2>3. CASE Restorable(r) /\ ~Expired(record.savedAt)
    <3> DEFINE f == [b EXCEPT !.memory = m]
    <3>1. d = Trimmed(f, r.id)
        BY <2>3
    <3>2. b.copy # Nothing /\ record # Nothing /\ ~Marked(b, r.id) /\ b.copy \in Scope
        BY <1>2, <2>3 DEF Restorable, TabState, Marked
    <3>3. record \in Record /\ r.id \in DOMAIN b.copy.entries
        BY <1>1, <3>2 DEF Scope
    <3>4. e \in Entry /\ b.memory \in Seq(Entry)
        BY <1>1, <1>2, <3>3 DEF Record, Entry, TabState
    <3>5. PutVersions(puts, b.copy) /\ Guarded(t, b, barred[t], inBatch[t], puts, b.copy)
        BY <1>2, <3>2 DEF TabFresh, ScopesFresh, ScopesOf
    <3>6. /\ record.version \in DOMAIN puts
          /\ puts[record.version] = t => Fresh(barred[t], inBatch[t], r.id, record.version)
        BY <3>2, <3>3, <3>5 DEF PutVersions, Guarded
    <3>7. e.id = r.id /\ e.version = record.version
        OBVIOUS
    <3> HIDE DEF e
    <3>8. m \in Seq(Entry) /\ Elements(m) \subseteq Elements(b.memory) \cup {e}
        BY <3>4, SetInKeeps
    <3>9. MemoryFresh(t, b, barred[t], inBatch[t], puts)
        BY <1>2 DEF TabFresh
    <3> HIDE DEF m, record
    <3>10. f \in TabState
        BY <1>2, <3>8 DEF TabState
    <3>11. /\ SameJob(b, f) /\ SameQueue(b, f) /\ SameMarks(b, f) /\ SameScopes(b, f)
           /\ f.pending = b.pending /\ f.memory = m
        BY <1>2 DEF TabState, SameJob, SameQueue, SameMarks, SameScopes
    <3> HIDE DEF f, d
    <3>12. /\ d \in TabState /\ SameQueue(f, d) /\ SameJob(f, d)
           /\ SameScopes(f, d) /\ SameMarks(f, d)
           /\ Elements(d.memory) \subseteq Elements(f.memory)
           /\ Elements(d.pending) \subseteq Elements(f.pending)
        BY <3>1, <3>10, TrimmedFields
    <3>13. /\ SameJob(b, d) /\ SameQueue(b, d) /\ SameMarks(b, d) /\ SameScopes(b, d)
           /\ Elements(d.pending) \subseteq Elements(b.pending)
        BY <3>11, <3>12 DEF SameJob, SameQueue, SameMarks, SameScopes
    <3>14. \A x \in Elements(d.memory) : x \in Elements(b.memory) \/ x = e
        BY <3>8, <3>11, <3>12
    <3>15. MemoryFresh(t, d, barred[t], inBatch[t], puts)
        BY <3>6, <3>7, <3>9, <3>14 DEF MemoryFresh
    <3> QED
        BY <3>12, <3>13, <3>15
  <2> QED
      BY <2>1, <2>2, <2>3
<1> HIDE DEF d
<1> QED
    BY <1>1, <1>3, <1>4, QuietStep DEF SameScopes

\* A put: what is new in the tab is of the put's version.
LEMMA PutsStep ==
    ASSUME NEW t \in Tabs, NEW d \in TabState, CacheInv,
           setup' = setup, tab' = [tab EXCEPT ![t] = d],
           Len(puts) < MaxPuts, puts' = Append(puts, t),
           UNCHANGED <<disk, restores, now, barred, inBatch, diskBarred>>,
           SameJob(tab[t], d), SameMarks(tab[t], d), SameScopes(tab[t], d),
           SameClears(tab[t], d), Coalesced(d),
           \A x \in Elements(d.memory) : x.version = Len(puts) + 1 \/ x \in Elements(tab[t].memory),
           \A x \in Elements(d.pending) : x.version = Len(puts) + 1 \/ x \in Elements(tab[t].pending)
    PROVE  CacheInv'
<1> DEFINE b == tab[t]
           n == Len(puts) + 1
           q == Append(puts, t)
<1>1. /\ b \in TabState /\ Coalesced(b) /\ JobInOrder(b)
      /\ TabFresh(t, b, barred[t], inBatch[t], puts, disk)
      /\ TabWrites(b, barred[t], diskBarred[t], inBatch[t], disk.epoch)
      /\ disk \in Scope /\ puts \in Seq(Tabs) /\ Len(puts) \in Nat /\ MaxPuts \in Nat
      /\ restores \subseteq [tab : Tabs, id : Conversations, epoch : Nat]
      /\ barred[t] \in [Conversations -> 0..Len(puts)]
      /\ diskBarred[t] \in [Conversations -> 0..Len(puts)]
    BY OfTab
<1>2. /\ q \in Seq(Tabs) /\ Len(q) = n /\ DOMAIN puts \subseteq DOMAIN q
      /\ n \in DOMAIN q /\ q[n] = t /\ \A i \in DOMAIN puts : q[i] = puts[i]
  <2>1. q \in Seq(Tabs) /\ Len(q) = n
      BY <1>1, AppendProperties
  <2> QED
      BY <1>1, <2>1, AppendKeeps
<1> HIDE DEF q
<1>3. \A u \in Tabs : TabFresh(u, tab[u], barred[u], inBatch[u], q, disk)
  <2> SUFFICES ASSUME NEW u \in Tabs
               PROVE  TabFresh(u, tab[u], barred[u], inBatch[u], q, disk)
      OBVIOUS
  <2>1. /\ tab[u] \in TabState /\ JobInOrder(tab[u])
        /\ TabFresh(u, tab[u], barred[u], inBatch[u], puts, disk)
      BY OfTab
  <2> QED
      BY <1>1, <2>1, PutsGrow DEF q
<1>4. \A x \in Elements(d.memory) \cup Elements(d.pending) :
         x.id \in Conversations /\ (x.version = n => x.version > barred[t][x.id]
                                                     /\ x.version > diskBarred[t][x.id])
  <2>1. d.memory \in Seq(Entry) /\ d.pending \in Seq(Entry)
      BY DEF TabState
  <2>2. Elements(d.memory) \subseteq Entry /\ Elements(d.pending) \subseteq Entry
      BY <2>1, ElementsAt
  <2>4. \A x \in Entry : x.id \in Conversations
      BY DEF Entry
  <2>3. \A c \in Conversations : n > barred[t][c] /\ n > diskBarred[t][c]
      BY <1>1
  <2> QED
      BY <2>2, <2>3, <2>4
<1> HIDE DEF n
<1>5. MemoryFresh(t, d, barred[t], inBatch[t], q)
  <2>1. MemoryFresh(t, b, barred[t], inBatch[t], q)
      BY <1>3 DEF TabFresh
  <2> QED
      BY <1>2, <1>4, <2>1 DEF MemoryFresh, Fresh, n
<1>6. PendingFresh(t, d, barred[t], q)
  <2>1. PendingFresh(t, b, barred[t], q)
      BY <1>3 DEF TabFresh
  <2> QED
      BY <1>2, <1>4, <2>1 DEF PendingFresh, n
<1>7. JobFresh(t, d, barred[t], inBatch[t], q) /\ ScopesFresh(t, d, barred[t], inBatch[t], q, disk)
  <2>1. JobFresh(t, b, barred[t], inBatch[t], q) /\ ScopesFresh(t, b, barred[t], inBatch[t], q, disk)
      BY <1>3 DEF TabFresh
  <2> QED
      BY <2>1, ScopesFreshSame DEF SameScopes
<1>8. TabFresh(t, d, barred[t], inBatch[t], q, disk)
    BY <1>5, <1>6, <1>7 DEF TabFresh
<1>9. TabWrites(d, barred[t], diskBarred[t], inBatch[t], disk.epoch)
  <2>1. \A x \in Elements(d.pending) : x \in Elements(b.pending) \/ x.version > diskBarred[t][x.id]
      BY <1>4 DEF n
  <2> QED
      BY <1>1, <2>1, WritesSame DEF SameJob, SameScopes
<1>10. JobInOrder(d)
    BY <1>1 DEF JobInOrder, SameJob, SameScopes
<1>11. NoStaleWrite'
  <2> SUFFICES ASSUME NEW c \in Conversations, disk.entries[c] # Nothing
               PROVE  LET v == disk.entries[c].version
                      IN  v > diskBarred[q[v]][c] \/ v \in inBatch[q[v]]
      BY SameTypes DEF NoStaleWrite, q
  <2>1. PutVersions(puts, disk) /\ c \in DOMAIN disk.entries
      BY <1>1 DEF TabFresh, ScopesFresh, ScopesOf, Scope
  <2>2. q[disk.entries[c].version] = puts[disk.entries[c].version]
      BY <1>2, <2>1 DEF PutVersions
  <2> QED
      BY <2>2 DEF CacheInv, WritesInv, NoStaleWrite
<1>12. /\ CacheTyped /\ QueueInv
       /\ barred \in [Tabs -> [Conversations -> 0..Len(puts)]]
       /\ inBatch \in [Tabs -> SUBSET Nat]
       /\ diskBarred \in [Tabs -> [Conversations -> 0..Len(puts)]]
    BY DEF CacheInv, CacheTyped, StateTyped, HistoryTyped
<1>13. 0..Len(puts) \subseteq 0..Len(q) /\ Len(q) <= MaxPuts
    BY <1>1, <1>2 DEF n
<1>14. /\ barred \in [Tabs -> [Conversations -> 0..Len(q)]]
       /\ diskBarred \in [Tabs -> [Conversations -> 0..Len(q)]]
    BY <1>12, <1>13
<1>15. \A u \in Tabs : TabWrites(tab[u], barred[u], diskBarred[u], inBatch[u], disk.epoch)
    BY DEF CacheInv, WritesInv
<1>16. puts' = q
    BY DEF q
<1>17. /\ TabFresh(t, d, barred'[t], inBatch'[t], puts', disk')
       /\ TabWrites(d, barred'[t], diskBarred'[t], inBatch'[t], disk'.epoch)
       /\ \A u \in Tabs : u # t =>
             /\ TabFresh(u, tab[u], barred'[u], inBatch'[u], puts', disk')
             /\ TabWrites(tab[u], barred'[u], diskBarred'[u], inBatch'[u], disk'.epoch)
    BY <1>3, <1>8, <1>9, <1>15, <1>16
<1>18. /\ disk' \in Scope
       /\ restores' \subseteq [tab : Tabs, id : Conversations, epoch : Nat] /\ now' = now
       /\ puts' \in Seq(Tabs) /\ Len(puts') <= MaxPuts
       /\ barred' \in [Tabs -> [Conversations -> 0..Len(puts')]]
       /\ inBatch' \in [Tabs -> SUBSET Nat]
       /\ diskBarred' \in [Tabs -> [Conversations -> 0..Len(puts')]]
    BY <1>1, <1>2, <1>12, <1>13, <1>14, <1>16
<1> QED
    BY <1>10, <1>11, <1>12, <1>17, <1>18, TabStep

\* What a put of an entry makes of the tab.
LEMMA PutEntryStep ==
    ASSUME CacheInv, setup' = setup, NEW t \in Tabs, NEW e \in Entry, PutEntry(t, e),
           e.version = Len(puts) + 1, Len(puts) < MaxPuts, puts' = Append(puts, t),
           UNCHANGED <<disk, restores, now, barred, inBatch, diskBarred>>
    PROVE  CacheInv'
<1> DEFINE b == tab[t]
           rest == Without(b.memory, {e.id})
           m == Append(rest, e)
           stored == [b EXCEPT !.memory = m, !.expired = @ \ {e.id}]
           kept == Trimmed(stored, e.id)
           p == SetIn(kept.pending, e)
           put == [kept EXCEPT !.pending = p]
           d == Scheduled(put)
<1>1. b \in TabState /\ Coalesced(b)
    BY OfTab
<1>2. tab' = [tab EXCEPT ![t] = d]
    BY DEF PutEntry
<1>3. m \in Seq(Entry) /\ \A x \in Elements(m) : x = e \/ x \in Elements(b.memory)
  <2>1. b.memory \in Seq(Entry)
      BY <1>1 DEF TabState
  <2>2. rest \in Seq(Entry) /\ Elements(rest) \subseteq Elements(b.memory)
      BY <2>1, WithoutKeeps
  <2> HIDE DEF rest
  <2>3. m \in Seq(Entry) /\ \A x \in Elements(m) : x \in Elements(rest) \cup {e}
      BY <2>2, AppendKeeps
  <2> HIDE DEF m
  <2> QED
      BY <2>2, <2>3
<1> HIDE DEF m
<1>4. /\ stored \in TabState
      /\ stored.memory = m /\ stored.pending = b.pending /\ SameQueue(b, stored)
      /\ SameJob(b, stored) /\ SameScopes(b, stored) /\ SameMarks(b, stored)
  <2>1. b.expired \ {e.id} \in SUBSET Conversations
      BY <1>1 DEF TabState
  <2>2. stored \in TabState
      BY <1>1, <1>3, <2>1 DEF TabState
  <2> QED
      BY <1>1, <2>2 DEF TabState, SameQueue, SameJob, SameScopes, SameMarks
<1> HIDE DEF stored
<1>5. /\ kept \in TabState /\ SameQueue(stored, kept)
      /\ SameJob(stored, kept) /\ SameScopes(stored, kept) /\ SameMarks(stored, kept)
      /\ Elements(kept.memory) \subseteq Elements(m)
      /\ Elements(kept.pending) \subseteq Elements(b.pending)
    BY <1>4, TrimmedFields
<1> HIDE DEF kept
<1>6. p \in Seq(Entry) /\ \A x \in Elements(p) : x = e \/ x \in Elements(b.pending)
  <2>1. kept.pending \in Seq(Entry)
      BY <1>5 DEF TabState
  <2> QED
      BY <1>5, <2>1, SetInKeeps
<1> HIDE DEF p
<1>7. /\ put \in TabState
      /\ put.memory = kept.memory /\ put.pending = p /\ SameQueue(kept, put)
      /\ SameJob(kept, put) /\ SameScopes(kept, put) /\ SameMarks(kept, put)
  <2>1. put \in TabState
      BY <1>5, <1>6 DEF TabState
  <2> QED
      BY <1>5, <2>1 DEF TabState, SameQueue, SameJob, SameScopes, SameMarks
<1> HIDE DEF put
<1>8. SameQueue(b, put) /\ SameJob(b, put) /\ SameScopes(b, put) /\ SameMarks(b, put)
    BY <1>4, <1>5, <1>7 DEF SameQueue, SameJob, SameScopes, SameMarks
<1>9. AlmostCoalesced(put)
    BY <1>1, <1>8 DEF AlmostCoalesced, Coalesced, Batches, SameQueue, SameJob
<1>10. /\ d \in TabState
       /\ SameContent(put, d) /\ SameJob(put, d)
       /\ SameScopes(put, d) /\ SameMarks(put, d)
       /\ SameClears(put, d) /\ Coalesced(d)
    BY <1>7, <1>9, ScheduledFields
<1> HIDE DEF d
<1>11. SameJob(b, d) /\ SameScopes(b, d) /\ SameMarks(b, d) /\ SameClears(b, d)
    BY <1>8, <1>10 DEF SameQueue, SameJob, SameScopes, SameMarks, SameClears
<1>12. \A x \in Elements(d.memory) : x.version = Len(puts) + 1 \/ x \in Elements(b.memory)
    BY <1>3, <1>5, <1>7, <1>10 DEF SameContent
<1>13. \A x \in Elements(d.pending) : x.version = Len(puts) + 1 \/ x \in Elements(b.pending)
    BY <1>6, <1>7, <1>10 DEF SameContent
<1> QED
    BY <1>2, <1>10, <1>11, <1>12, <1>13, PutsStep

LEMMA PutTooLargeStep ==
    ASSUME CacheInv, setup' = setup, NEW t \in Tabs, NEW c \in Conversations, PutTooLarge(t, c),
           Len(puts) < MaxPuts, puts' = Append(puts, t),
           UNCHANGED <<disk, restores, now, barred, inBatch, diskBarred>>
    PROVE  CacheInv'
<1> DEFINE b == tab[t]
           d == [b EXCEPT !.memory = Without(@, {c})]
<1>1. b \in TabState /\ Coalesced(b) /\ tab \in [Tabs -> TabState]
    BY OfTab DEF CacheInv, CacheTyped, StateTyped
<1>2. tab' = [tab EXCEPT ![t] = d]
    BY <1>1 DEF PutTooLarge
<1>3. b.memory \in Seq(Entry)
    BY <1>1 DEF TabState
<1>4. Without(b.memory, {c}) \in Seq(Entry)
      /\ Elements(Without(b.memory, {c})) \subseteq Elements(b.memory)
    BY <1>3, WithoutKeeps
<1>5. /\ d \in TabState /\ d.memory = Without(b.memory, {c}) /\ d.pending = b.pending
      /\ SameQueue(b, d) /\ SameJob(b, d) /\ SameScopes(b, d) /\ SameMarks(b, d)
    BY <1>1, <1>4 DEF TabState, SameQueue, SameJob, SameScopes, SameMarks
<1> HIDE DEF d
<1>6. Coalesced(d) /\ SameClears(b, d)
    BY <1>1, <1>5 DEF Coalesced, Batches, SameQueue, SameJob, SameClears
<1>7. /\ \A x \in Elements(d.memory) : x.version = Len(puts) + 1 \/ x \in Elements(b.memory)
      /\ \A x \in Elements(d.pending) : x.version = Len(puts) + 1 \/ x \in Elements(b.pending)
    BY <1>4, <1>5
<1> QED
    BY <1>2, <1>5, <1>6, <1>7, PutsStep

LEMMA PutStep ==
    ASSUME CacheInv, setup' = setup, NEW t \in Tabs, NEW c \in Conversations, Put(t, c)
    PROVE  CacheInv'
<1> DEFINE e == [id |-> c, version |-> Len(puts) + 1, savedAt |-> now]
<1>1. Len(puts) \in Nat /\ MaxPuts \in Nat /\ now \in 0..MaxTime
    BY OfTab
<1>2. /\ Len(puts) < MaxPuts /\ puts' = Append(puts, t)
      /\ UNCHANGED <<disk, restores, now, barred, inBatch, diskBarred>>
      /\ PutEntry(t, e) \/ PutTooLarge(t, c)
    BY DEF Put
<1>3. e \in Entry /\ e.version = Len(puts) + 1
    BY <1>1, <1>2 DEF Entry
<1> HIDE DEF e
<1> QED
    BY <1>2, <1>3, PutEntryStep, PutTooLargeStep

\* The new version of an entry in memory.
LEMMA NextVersion ==
    ASSUME CacheInv, NEW t \in Tabs, NEW c \in Ids(tab[t].memory), Len(puts) < MaxPuts
    PROVE  LET e == [Lookup(tab[t].memory, c) EXCEPT !.version = Len(puts) + 1]
           IN  e \in Entry /\ e.version = Len(puts) + 1
<1>1. tab[t] \in TabState /\ Len(puts) \in Nat /\ MaxPuts \in Nat
    BY OfTab
<1>2. tab[t].memory \in Seq(Entry)
    BY <1>1 DEF TabState
<1>3. Lookup(tab[t].memory, c) \in Entry
    BY <1>2, LookupIs, ElementsAt
<1> QED
    BY <1>1, <1>3 DEF Entry

LEMMA UpdateDraftStep ==
    ASSUME CacheInv, setup' = setup, NEW t \in Tabs, NEW c \in Conversations, UpdateDraft(t, c)
    PROVE  CacheInv'
<1> DEFINE e == [Lookup(tab[t].memory, c) EXCEPT !.version = Len(puts) + 1]
<1>1. /\ Len(puts) < MaxPuts /\ puts' = Append(puts, t) /\ c \in Ids(tab[t].memory)
      /\ UNCHANGED <<disk, restores, now, barred, inBatch, diskBarred>>
      /\ PutEntry(t, e)
    BY DEF UpdateDraft
<1>2. e \in Entry /\ e.version = Len(puts) + 1
    BY <1>1, NextVersion
<1> HIDE DEF e
<1> QED
    BY <1>1, <1>2, PutEntryStep

LEMMA UnavailableStep ==
    ASSUME CacheInv, setup' = setup, NEW t \in Tabs, NEW c \in Conversations,
           SetUnavailableAttachments(t, c)
    PROVE  CacheInv'
<1> DEFINE b == tab[t]
           e == [Lookup(b.memory, c) EXCEPT !.version = Len(puts) + 1]
           m == SetIn(b.memory, e)
           p == SetIn(b.pending, e)
           put == [b EXCEPT !.memory = m, !.pending = p]
           d == Scheduled(put)
<1>1. /\ Len(puts) < MaxPuts /\ puts' = Append(puts, t) /\ c \in Ids(b.memory)
      /\ UNCHANGED <<disk, restores, now, barred, inBatch, diskBarred>>
      /\ tab' = [tab EXCEPT ![t] = d]
    BY DEF SetUnavailableAttachments
<1>2. e \in Entry /\ e.version = Len(puts) + 1
    BY <1>1, NextVersion
<1> HIDE DEF e
<1>3. b \in TabState /\ Coalesced(b)
    BY OfTab
<1>4. /\ m \in Seq(Entry) /\ \A x \in Elements(m) : x = e \/ x \in Elements(b.memory)
      /\ p \in Seq(Entry) /\ \A x \in Elements(p) : x = e \/ x \in Elements(b.pending)
  <2>1. b.memory \in Seq(Entry) /\ b.pending \in Seq(Entry)
      BY <1>3 DEF TabState
  <2> QED
      BY <1>2, <2>1, SetInKeeps
<1> HIDE DEF m, p
<1>5. /\ put \in TabState /\ put.memory = m /\ put.pending = p /\ SameQueue(b, put)
      /\ SameJob(b, put) /\ SameScopes(b, put) /\ SameMarks(b, put)
    BY <1>3, <1>4 DEF TabState, SameQueue, SameJob, SameScopes, SameMarks
<1> HIDE DEF put
<1>6. AlmostCoalesced(put)
    BY <1>3, <1>5 DEF AlmostCoalesced, Coalesced, Batches, SameQueue, SameJob
<1>7. /\ d \in TabState
      /\ SameContent(put, d) /\ SameJob(put, d)
      /\ SameScopes(put, d) /\ SameMarks(put, d)
      /\ SameClears(put, d) /\ Coalesced(d)
    BY <1>5, <1>6, ScheduledFields
<1> HIDE DEF d
<1>8. SameJob(b, d) /\ SameScopes(b, d) /\ SameMarks(b, d) /\ SameClears(b, d)
    BY <1>5, <1>7 DEF SameQueue, SameJob, SameScopes, SameMarks, SameClears
<1>9. /\ \A x \in Elements(d.memory) : x.version = Len(puts) + 1 \/ x \in Elements(b.memory)
      /\ \A x \in Elements(d.pending) : x.version = Len(puts) + 1 \/ x \in Elements(b.pending)
    BY <1>2, <1>4, <1>5, <1>7 DEF SameContent
<1> QED
    BY <1>1, <1>7, <1>8, <1>9, PutsStep

-----------------------------------------------------------------------------
(* Steps on one tab that touch its scopes or its job.                       *)

LEMMA CloseCacheStep ==
    ASSUME CacheInv, setup' = setup, NEW t \in Tabs, CloseCache(t)
    PROVE  CacheInv'
<1> DEFINE b == tab[t]
           d == tab'[t]
<1>1. /\ b \in TabState /\ Coalesced(b) /\ JobInOrder(b) /\ tab \in [Tabs -> TabState]
      /\ TabFresh(t, b, barred[t], inBatch[t], puts, disk)
      /\ TabWrites(b, barred[t], diskBarred[t], inBatch[t], disk.epoch)
      /\ restores \subseteq [tab : Tabs, id : Conversations, epoch : Nat]
    BY OfTab DEF CacheInv, CacheTyped, StateTyped
<1>2. <<>> \in Seq(Entry) /\ Elements(<<>>) = {}
    BY EmptySeq DEF Elements
<1>3. d = [b EXCEPT !.closed = TRUE, !.epoch = @ + 1, !.memory = <<>>]
    BY <1>1 DEF CloseCache
<1>4. tab' = [tab EXCEPT ![t] = d]
    BY <1>1 DEF CloseCache
<1>5. b.epoch \in Nat /\ b.job.epoch \in Nat
    BY <1>1 DEF TabState, Job
<1> HIDE DEF d
<1>6. /\ d \in TabState /\ d.epoch = b.epoch + 1 /\ d.memory = <<>> /\ d.pending = b.pending
      /\ d.job = b.job /\ SameQueue(b, d) /\ SameScopes(b, d) /\ SameMarks(b, d)
  <2>0. b.epoch + 1 \in Nat
      BY <1>5
  <2>1. d \in TabState
      BY <1>1, <1>2, <1>3, <2>0 DEF TabState
  <2>2. d.epoch = b.epoch + 1 /\ d.memory = <<>> /\ d.pending = b.pending /\ d.job = b.job
      BY <1>1, <1>3 DEF TabState
  <2>3. SameQueue(b, d) /\ SameScopes(b, d) /\ SameMarks(b, d)
      BY <1>1, <1>3 DEF TabState, SameQueue, SameScopes, SameMarks
  <2> QED
      BY <2>1, <2>2, <2>3
<1>7. Coalesced(d) /\ SameClears(b, d)
    BY <1>1, <1>6 DEF Coalesced, Batches, SameQueue, SameClears
<1>8. JobInOrder(d)
    BY <1>1, <1>5, <1>6 DEF JobInOrder, SameScopes
<1>9. \A c : Marked(d, c) <=> Marked(b, c)
    BY <1>6 DEF Marked, SameMarks
<1>10. JobFresh(t, d, barred[t], inBatch[t], puts)
  <2>1. b.job.epoch # b.epoch => d.job.epoch # d.epoch
      BY <1>1, <1>5, <1>6 DEF JobInOrder
  <2>2. JobFresh(t, b, barred[t], inBatch[t], puts)
      BY <1>1 DEF TabFresh
  <2> QED
      BY <1>6, <1>9, <2>1, <2>2 DEF JobFresh
<1>11. ScopesFresh(t, d, barred[t], inBatch[t], puts, disk)
  <2>1. ScopesOf(d, disk) = ScopesOf(b, disk)
      BY <1>6 DEF ScopesOf, SameScopes
  <2>2. ScopesFresh(t, b, barred[t], inBatch[t], puts, disk)
      BY <1>1 DEF TabFresh
  <2> QED
      BY <1>6, <1>9, <2>1, <2>2 DEF ScopesFresh, Guarded, SavedIs
<1>12. MemoryFresh(t, d, barred[t], inBatch[t], puts) /\ PendingFresh(t, d, barred[t], puts)
    BY <1>1, <1>2, <1>6 DEF TabFresh, MemoryFresh, PendingFresh
<1>13. TabFresh(t, d, barred[t], inBatch[t], puts, disk)
    BY <1>10, <1>11, <1>12 DEF TabFresh
<1>14. TabWrites(d, barred[t], diskBarred[t], inBatch[t], disk.epoch)
    BY <1>1, <1>6, <1>7, WritesSame DEF SameScopes
<1>15. UNCHANGED <<disk, restores, now, puts, barred, inBatch, diskBarred>>
    BY DEF CloseCache
<1> QED
    BY <1>1, <1>4, <1>6, <1>7, <1>8, <1>13, <1>14, <1>15, LocalStep

\* Content, queue, job and marks stay; the scopes are among those known.
LEMMA ScopesStep ==
    ASSUME NEW t \in Tabs, NEW d \in TabState, CacheInv,
           setup' = setup, tab' = [tab EXCEPT ![t] = d],
           UNCHANGED <<disk, restores, now, puts, barred, inBatch, diskBarred>>,
           SameContent(tab[t], d), SameQueue(tab[t], d), SameMarks(tab[t], d),
           SameJob(tab[t], d), JobInOrder(d),
           d.copy \in {tab[t].copy, tab[t].fetched, Nothing},
           d.fetched \in {tab[t].fetched, disk, Nothing},
           TabWrites(d, barred[t], diskBarred[t], inBatch[t], disk.epoch)
    PROVE  CacheInv'
<1> DEFINE b == tab[t]
<1>1. /\ b \in TabState /\ Coalesced(b) /\ JobInOrder(b)
      /\ TabFresh(t, b, barred[t], inBatch[t], puts, disk)
      /\ restores \subseteq [tab : Tabs, id : Conversations, epoch : Nat]
    BY OfTab
<1>2. Coalesced(d)
    BY <1>1 DEF Coalesced, Batches, SameQueue, SameContent, SameJob
<1>3. \A c : Marked(d, c) <=> Marked(b, c)
    BY DEF Marked, SameMarks
<1>4. d.job = b.job /\ d.epoch = b.epoch
    BY DEF SameJob
<1>5. ScopesFresh(t, d, barred[t], inBatch[t], puts, disk)
  <2>1. ScopesOf(d, disk) \subseteq ScopesOf(b, disk)
      BY <1>4 DEF ScopesOf
  <2>2. ScopesFresh(t, b, barred[t], inBatch[t], puts, disk)
      BY <1>1 DEF TabFresh
  <2>3. \A s \in ScopesOf(d, disk) : PutVersions(puts, s)
                                     /\ Guarded(t, d, barred[t], inBatch[t], puts, s)
      BY <1>3, <2>1, <2>2 DEF ScopesFresh, Guarded
  <2>4. SavedIs(t, d, puts, disk) /\ SavedIs(t, d, puts, d.job.committed)
      BY <1>4, <2>2 DEF ScopesFresh, SavedIs
  <2> QED
      BY <2>3, <2>4 DEF ScopesFresh
<1>6. JobFresh(t, d, barred[t], inBatch[t], puts)
    BY <1>1, <1>3, <1>4 DEF TabFresh, JobFresh
<1>7. MemoryFresh(t, d, barred[t], inBatch[t], puts) /\ PendingFresh(t, d, barred[t], puts)
    BY <1>1 DEF TabFresh, MemoryFresh, PendingFresh, SameContent
<1>8. TabFresh(t, d, barred[t], inBatch[t], puts, disk)
    BY <1>5, <1>6, <1>7 DEF TabFresh
<1>9. restores' \subseteq [tab : Tabs, id : Conversations, epoch : Nat]
    BY <1>1
<1> QED
    BY <1>2, <1>8, <1>9, LocalStep

\* The epochs of scopes are natural numbers.
LEMMA EpochsTyped ==
    ASSUME NEW s \in Scope \cup {Nothing}
    PROVE  DiskEpoch(s) \in Nat
    BY DEF DiskEpoch, Scope

LEMMA ReadHappensStep ==
    ASSUME CacheInv, setup' = setup, NEW t \in Tabs, ReadHappens(t)
    PROVE  CacheInv'
<1> DEFINE b == tab[t]
           d == tab'[t]
<1>1. /\ b \in TabState /\ JobInOrder(b) /\ tab \in [Tabs -> TabState]
      /\ TabWrites(b, barred[t], diskBarred[t], inBatch[t], disk.epoch) /\ disk \in Scope
      /\ diskBarred[t] \in [Conversations -> 0..Len(puts)]
    BY OfTab DEF CacheInv, CacheTyped, StateTyped
<1>2. d = [b EXCEPT !.read = "fetched", !.fetched = disk] /\ b.read = "asked"
    BY <1>1 DEF ReadHappens
<1>3. tab' = [tab EXCEPT ![t] = d]
    BY <1>1 DEF ReadHappens
<1> HIDE DEF d
<1>4. /\ d \in TabState /\ d.read = "fetched" /\ d.fetched = disk /\ d.copy = b.copy
      /\ SameContent(b, d) /\ SameQueue(b, d) /\ SameMarks(b, d) /\ SameJob(b, d)
  <2>1. d \in TabState
      BY <1>1, <1>2 DEF TabState
  <2> QED
      BY <1>1, <1>2, <2>1 DEF TabState, SameContent, SameQueue, SameMarks, SameJob
<1>5. JobInOrder(d)
    BY <1>1, <1>2, <1>4 DEF JobInOrder, SameJob
<1>6. TabWrites(d, barred[t], diskBarred[t], inBatch[t], disk.epoch)
  <2>1. ClearsBounded(d, barred[t])
      BY <1>1, <1>4 DEF TabWrites, ClearsBounded, SameQueue, SameJob
  <2>2. EpochsWithin(d, disk.epoch)
    <3>1. disk.epoch \in Nat
        BY <1>1 DEF Scope
    <3>2. DiskEpoch(disk) <= disk.epoch
        BY <3>1 DEF DiskEpoch
    <3> QED
        BY <1>1, <1>4, <3>2 DEF TabWrites, EpochsWithin, SameJob
  <2>3. MayWrite(d, diskBarred[t], inBatch[t])
    <3>1. \A c \in Conversations : diskBarred[t][c] = 0
        BY <1>1, <1>2 DEF TabWrites
    <3>2. d.pending \in Seq(Entry) /\ d.job.left \in Seq(Entry)
        BY <1>4 DEF TabState, Job
    <3>3. Elements(d.pending) \cup Elements(d.job.left) \subseteq Entry
        BY <3>2, ElementsAt
    <3>4. \A x \in Entry : x.id \in Conversations /\ x.version > 0
        BY CacheAssumption DEF Entry
    <3> QED
        BY <3>1, <3>3, <3>4 DEF MayWrite
  <2> QED
      BY <1>4, <2>1, <2>2, <2>3 DEF TabWrites
<1>7. UNCHANGED <<disk, restores, now, puts, barred, inBatch, diskBarred>>
    BY DEF ReadHappens
<1> QED
    BY <1>3, <1>4, <1>5, <1>6, <1>7, ScopesStep

LEMMA ReadSettlesStep ==
    ASSUME CacheInv, setup' = setup, NEW t \in Tabs, ReadSettles(t)
    PROVE  CacheInv'
<1> DEFINE b == tab[t]
           d == tab'[t]
<1>1. /\ b \in TabState /\ JobInOrder(b) /\ tab \in [Tabs -> TabState]
      /\ TabWrites(b, barred[t], diskBarred[t], inBatch[t], disk.epoch) /\ disk \in Scope
    BY OfTab DEF CacheInv, CacheTyped, StateTyped
<1>2. /\ b.read = "fetched"
      /\ \/ d = [b EXCEPT !.read = "done", !.copy = b.fetched, !.fetched = Nothing]
         \/ d = [b EXCEPT !.read = "done", !.fetched = Nothing, !.storageError = TRUE]
    BY <1>1 DEF ReadSettles
<1>3. tab' = [tab EXCEPT ![t] = d]
    BY <1>1 DEF ReadSettles
<1> HIDE DEF d
<1>4. /\ d \in TabState /\ d.read = "done" /\ d.fetched = Nothing
      /\ d.copy \in {b.copy, b.fetched}
      /\ SameContent(b, d) /\ SameQueue(b, d) /\ SameMarks(b, d) /\ SameJob(b, d)
  <2>1. CASE d = [b EXCEPT !.read = "done", !.copy = b.fetched, !.fetched = Nothing]
    <3>1. d \in TabState
        BY <1>1, <2>1 DEF TabState
    <3> QED
        BY <1>1, <2>1, <3>1 DEF TabState, SameContent, SameQueue, SameMarks, SameJob
  <2>2. CASE d = [b EXCEPT !.read = "done", !.fetched = Nothing, !.storageError = TRUE]
    <3>1. d \in TabState
        BY <1>1, <2>2 DEF TabState
    <3> QED
        BY <1>1, <2>2, <3>1 DEF TabState, SameContent, SameQueue, SameMarks, SameJob
  <2> QED
      BY <1>2, <2>1, <2>2
<1>5. JobInOrder(d)
    BY <1>1, <1>2, <1>4 DEF JobInOrder, SameJob
<1>6. TabWrites(d, barred[t], diskBarred[t], inBatch[t], disk.epoch)
  <2> DEFINE n == disk.epoch
  <2>0. DiskEpoch(Nothing) = 0 /\ DiskEpoch(b.copy) \in Nat /\ n \in Nat
    <3>1. b.copy \in Scope \cup {Nothing} /\ n \in Nat
        BY <1>1 DEF TabState, Scope
    <3> QED
        BY <3>1, EpochsTyped DEF DiskEpoch
  <2>1. ClearsBounded(d, barred[t])
      BY <1>1, <1>4 DEF TabWrites, ClearsBounded, SameQueue, SameJob
  <2>2. EpochsWithin(d, n)
      BY <1>1, <1>4, <2>0 DEF TabWrites, EpochsWithin, SameJob
  <2>3. Outdated(b, n) => Outdated(d, n)
      BY <1>1, <1>4, <2>0 DEF Outdated, SameJob
  <2>4. MayWrite(b, diskBarred[t], inBatch[t]) => MayWrite(d, diskBarred[t], inBatch[t])
      BY <1>4 DEF MayWrite, SameContent, SameJob
  <2> QED
      BY <1>1, <1>4, <2>1, <2>2, <2>3, <2>4 DEF TabWrites
<1>7. UNCHANGED <<disk, restores, now, puts, barred, inBatch, diskBarred>>
    BY DEF ReadSettles
<1> QED
    BY <1>3, <1>4, <1>5, <1>6, <1>7, ScopesStep

LEMMA ClearSettlesStep ==
    ASSUME CacheInv, setup' = setup, NEW t \in Tabs, ClearSettles(t)
    PROVE  CacheInv'
<1> DEFINE b == tab[t]
           d == tab'[t]
<1>1. /\ b \in TabState /\ Coalesced(b) /\ JobInOrder(b) /\ tab \in [Tabs -> TabState]
      /\ TabFresh(t, b, barred[t], inBatch[t], puts, disk)
      /\ TabWrites(b, barred[t], diskBarred[t], inBatch[t], disk.epoch) /\ disk \in Scope
      /\ restores \subseteq [tab : Tabs, id : Conversations, epoch : Nat]
    BY OfTab DEF CacheInv, CacheTyped, StateTyped
<1>2. /\ b.job.kind = "clear" /\ b.job.stage \in {"applied", "failed"}
      /\ \/ d = [b EXCEPT !.job = NoJob, !.storageError = TRUE]
         \/ d = [b EXCEPT !.job = NoJob, !.copy = b.job.committed]
    BY <1>1 DEF ClearSettles
<1>3. tab' = [tab EXCEPT ![t] = d]
    BY <1>1 DEF ClearSettles
<1> HIDE DEF d
<1>4. /\ d \in TabState /\ d.job = NoJob /\ d.epoch = b.epoch
      /\ d.copy \in {b.copy, b.job.committed} /\ d.fetched = b.fetched /\ d.read = b.read
      /\ SameContent(b, d) /\ SameQueue(b, d) /\ SameMarks(b, d)
  <2>1. CASE d = [b EXCEPT !.job = NoJob, !.storageError = TRUE]
    <3>1. d \in TabState
        BY <1>1, <2>1, NoJobTyped DEF TabState
    <3> QED
        BY <1>1, <2>1, <3>1 DEF TabState, SameContent, SameQueue, SameMarks
  <2>2. CASE d = [b EXCEPT !.job = NoJob, !.copy = b.job.committed]
    <3>0. b.job.committed \in Scope \cup {Nothing}
        BY <1>1 DEF TabState, Job
    <3>1. d \in TabState
        BY <1>1, <2>2, <3>0, NoJobTyped DEF TabState
    <3> QED
        BY <1>1, <2>2, <3>1 DEF TabState, SameContent, SameQueue, SameMarks
  <2> QED
      BY <1>2, <2>1, <2>2
<1>5. /\ NoJob.kind = "none" /\ NoJob.left = <<>> /\ NoJob.committed = Nothing
      /\ NoJob.stage = "idle" /\ NoJob.epoch = 0 /\ Elements(NoJob.left) = {}
      /\ DOMAIN NoJob.left = {}
    BY NoJobTyped, EmptySeq DEF Elements
<1>6. b.epoch \in Nat
    BY <1>1 DEF TabState
<1>7. JobInOrder(d)
    BY <1>1, <1>2, <1>4, <1>5, <1>6 DEF JobInOrder
<1>8. Coalesced(d)
    BY <1>1, <1>2, <1>4, <1>5 DEF Coalesced, Batches, SameQueue, SameContent
<1>9. ScopesFresh(t, d, barred[t], inBatch[t], puts, disk)
  <2>1. ScopesOf(d, disk) \subseteq ScopesOf(b, disk)
      BY <1>4, <1>5 DEF ScopesOf
  <2>2. ScopesFresh(t, b, barred[t], inBatch[t], puts, disk)
      BY <1>1 DEF TabFresh
  <2>3. \A c : Marked(d, c) <=> Marked(b, c)
      BY <1>4 DEF Marked, SameMarks
  <2>4. \A s \in ScopesOf(d, disk) : PutVersions(puts, s)
                                     /\ Guarded(t, d, barred[t], inBatch[t], puts, s)
      BY <2>1, <2>2, <2>3 DEF ScopesFresh, Guarded
  <2>5. SavedIs(t, d, puts, disk) /\ SavedIs(t, d, puts, d.job.committed)
      BY <1>4, <1>5 DEF SavedIs
  <2> QED
      BY <2>4, <2>5 DEF ScopesFresh
<1>10. TabFresh(t, d, barred[t], inBatch[t], puts, disk)
  <2>1. JobFresh(t, d, barred[t], inBatch[t], puts)
      BY <1>4, <1>5 DEF JobFresh
  <2>2. MemoryFresh(t, d, barred[t], inBatch[t], puts) /\ PendingFresh(t, d, barred[t], puts)
      BY <1>1, <1>4 DEF TabFresh, MemoryFresh, PendingFresh, SameContent
  <2> QED
      BY <1>9, <2>1, <2>2 DEF TabFresh
<1>11. TabWrites(d, barred[t], diskBarred[t], inBatch[t], disk.epoch)
  <2> DEFINE n == disk.epoch
  <2>0. DiskEpoch(Nothing) = 0 /\ DiskEpoch(b.copy) \in Nat /\ n \in Nat
    <3>1. b.copy \in Scope \cup {Nothing} /\ n \in Nat
        BY <1>1 DEF TabState, Scope
    <3> QED
        BY <3>1, EpochsTyped DEF DiskEpoch
  <2>1. ClearsBounded(d, barred[t])
      BY <1>1, <1>4, <1>5 DEF TabWrites, ClearsBounded, SameQueue
  <2>2. EpochsWithin(d, n)
      BY <1>1, <1>4, <1>5, <2>0 DEF TabWrites, EpochsWithin
  <2>3. Outdated(b, n) => Outdated(d, n)
      BY <1>1, <1>4, <1>5, <2>0 DEF Outdated
  <2>4. MayWrite(b, diskBarred[t], inBatch[t]) => MayWrite(d, diskBarred[t], inBatch[t])
      BY <1>4, <1>5 DEF MayWrite, SameContent
  <2> QED
      BY <1>1, <1>4, <2>1, <2>2, <2>3, <2>4 DEF TabWrites
<1>12. UNCHANGED <<disk, restores, now, puts, barred, inBatch, diskBarred>>
    BY DEF ClearSettles
<1> QED
    BY <1>1, <1>3, <1>4, <1>7, <1>8, <1>10, <1>11, <1>12, LocalStep

\* A write begins: the first of the queue becomes the job.
LEMMA BegunFields ==
    ASSUME NEW b \in TabState, b.writes # <<>>, b.job.kind = "none", Coalesced(b), JobInOrder(b),
           NEW job \in Job, job.kind = Head(b.writes).kind, job.left = <<>>
    PROVE  LET d == [b EXCEPT !.writes = Tail(@), !.job = job]
           IN  /\ d \in TabState /\ d.job = job /\ d.epoch = b.epoch
               /\ SameContent(b, d) /\ SameScopes(b, d) /\ SameMarks(b, d)
               /\ d.writes = Tail(b.writes) /\ d.saveScheduled = b.saveScheduled
               /\ AlmostCoalesced(d)
               /\ b.writes[1] \in WriteOp /\ Head(b.writes) = b.writes[1]
               /\ \A i \in DOMAIN d.writes : i + 1 \in DOMAIN b.writes
                                             /\ d.writes[i] = b.writes[i + 1]
<1> DEFINE d == [b EXCEPT !.writes = Tail(@), !.job = job]
<1>1. b.writes \in Seq(WriteOp)
    BY DEF TabState
<1>2. /\ Tail(b.writes) \in Seq(WriteOp)
      /\ \A i \in DOMAIN Tail(b.writes) : i + 1 \in DOMAIN b.writes /\ i + 1 # 1
                                          /\ Tail(b.writes)[i] = b.writes[i + 1]
    BY <1>1, TailKeeps
<1>3. 1 \in DOMAIN b.writes /\ Head(b.writes) = b.writes[1] /\ b.writes[1] \in WriteOp
    BY <1>1, ElementsAt
<1>4. /\ d \in TabState /\ d.job = job /\ d.epoch = b.epoch
      /\ d.writes = Tail(b.writes) /\ d.saveScheduled = b.saveScheduled
      /\ SameContent(b, d) /\ SameScopes(b, d) /\ SameMarks(b, d)
  <2>1. d \in TabState
      BY <1>2 DEF TabState
  <2> QED
      BY <2>1 DEF TabState, SameContent, SameScopes, SameMarks
<1> HIDE DEF d
<1>5. AlmostCoalesced(d)
  <2>1. \A i \in Batches(d) : i + 1 \in Batches(b) /\ i + 1 # 1 /\ i \in Int
    <3> SUFFICES ASSUME NEW i \in Batches(d)
                 PROVE  i + 1 \in Batches(b) /\ i + 1 # 1 /\ i \in Int
        OBVIOUS
    <3>1. i \in DOMAIN Tail(b.writes) /\ Tail(b.writes)[i].kind = "batch"
        BY <1>4 DEF Batches
    <3>2. DOMAIN Tail(b.writes) = 1..Len(Tail(b.writes)) /\ Len(Tail(b.writes)) \in Nat
        BY <1>2, LenProperties
    <3> QED
        BY <1>2, <3>1, <3>2 DEF Batches
  <2>2. \A i, j \in Batches(d) : i = j
    <3> SUFFICES ASSUME NEW i \in Batches(d), NEW j \in Batches(d) PROVE i = j
        OBVIOUS
    <3>1. i + 1 = j + 1
        BY <2>1 DEF Coalesced
    <3> QED
        BY <2>1, <3>1
  <2>3. b.writes[1].kind = "batch" <=> 1 \in Batches(b)
      BY <1>3 DEF Batches
  <2>4. CASE job.kind = "batch"
    <3>1. 1 \in Batches(b)
        BY <1>3, <2>3, <2>4
    <3>2. Batches(d) = {}
        BY <2>1, <3>1 DEF Coalesced
    <3>3. b.saveScheduled
        BY <3>1 DEF Coalesced
    <3> QED
        BY <1>4, <2>4, <3>2, <3>3 DEF AlmostCoalesced
  <2>5. CASE job.kind # "batch"
    <3>1. 1 \notin Batches(b)
        BY <1>3, <2>3, <2>5
    <3>2. ASSUME NEW k \in Batches(b) PROVE Batches(d) # {}
      <4>0. DOMAIN b.writes = 1..Len(b.writes) /\ Len(b.writes) \in Nat
            /\ DOMAIN Tail(b.writes) = 1..Len(Tail(b.writes))
            /\ Len(Tail(b.writes)) = Len(b.writes) - 1
          BY <1>1, LenProperties, HeadTailProperties
      <4>1. k \in 1..Len(b.writes) /\ k # 1 /\ b.writes[k].kind = "batch"
          BY <3>1, <4>0 DEF Batches
      <4>2. k - 1 \in DOMAIN Tail(b.writes) /\ (k - 1) + 1 = k
          BY <4>0, <4>1
      <4>3. Tail(b.writes)[k - 1] = b.writes[k]
          BY <1>2, <4>2
      <4> QED
          BY <1>4, <4>1, <4>2, <4>3 DEF Batches
    <3>3. Batches(d) # {} <=> Batches(b) # {}
        BY <2>1, <3>2
    <3>4. b.saveScheduled <=> Batches(b) # {}
        BY DEF Coalesced
    <3> QED
        BY <1>4, <2>2, <2>5, <3>3, <3>4 DEF AlmostCoalesced
  <2> QED
      BY <2>4, <2>5
<1> QED
    BY <1>2, <1>3, <1>4, <1>5 DEF d

\* The job of a tab is replaced by one that has nothing to save, or what waited;
\* scopes and marks stay.
LEMMA BeginStep ==
    ASSUME NEW t \in Tabs, NEW d \in TabState, CacheInv, setup' = setup,
           tab' = [tab EXCEPT ![t] = d],
           UNCHANGED <<disk, restores, now, puts, barred, inBatch, diskBarred>>,
           tab[t].job.kind = "none", d.epoch = tab[t].epoch, d.memory = tab[t].memory,
           SameMarks(tab[t], d), d.copy = tab[t].copy, d.fetched = tab[t].fetched,
           d.read = tab[t].read \/ (tab[t].read = "none" /\ d.read = "asked"),
           d.job.stage \notin {"applied", "failed"}, d.job.committed = Nothing,
           d.job.epoch <= d.epoch, d.job.kind = "batch" <=> d.job.left # <<>>,
           Elements(d.pending) \subseteq Elements(tab[t].pending),
           Elements(d.job.left) \subseteq Elements(tab[t].pending),
           Coalesced(d), ClearsBounded(d, barred[t])
    PROVE  CacheInv'
<1> DEFINE b == tab[t]
<1>1. /\ b \in TabState /\ JobInOrder(b)
      /\ TabFresh(t, b, barred[t], inBatch[t], puts, disk)
      /\ TabWrites(b, barred[t], diskBarred[t], inBatch[t], disk.epoch) /\ disk \in Scope
      /\ restores \subseteq [tab : Tabs, id : Conversations, epoch : Nat]
    BY OfTab
<1>2. JobInOrder(d)
    BY <1>1 DEF JobInOrder
<1>3. PendingFresh(t, d, barred[t], puts)
    BY <1>1 DEF TabFresh, PendingFresh
<1>4. JobFresh(t, d, barred[t], inBatch[t], puts)
  <2>1. d.job.left \in Seq(Entry)
      BY DEF TabState, Job
  <2>2. \A i \in DOMAIN d.job.left : d.job.left[i] \in Elements(b.pending)
      BY <2>1, ElementsAt
  <2>3. PendingFresh(t, b, barred[t], puts)
      BY <1>1 DEF TabFresh
  <2> QED
      BY <2>2, <2>3 DEF PendingFresh, JobFresh, Fresh
<1>5. MemoryFresh(t, d, barred[t], inBatch[t], puts)
    BY <1>1 DEF TabFresh, MemoryFresh
<1>6. ScopesFresh(t, d, barred[t], inBatch[t], puts, disk)
  <2>1. ScopesOf(d, disk) \subseteq ScopesOf(b, disk)
      BY DEF ScopesOf
  <2>2. ScopesFresh(t, b, barred[t], inBatch[t], puts, disk)
      BY <1>1 DEF TabFresh
  <2>3. \A c : Marked(d, c) <=> Marked(b, c)
      BY DEF Marked, SameMarks
  <2>4. \A s \in ScopesOf(d, disk) : PutVersions(puts, s)
                                     /\ Guarded(t, d, barred[t], inBatch[t], puts, s)
      BY <2>1, <2>2, <2>3 DEF ScopesFresh, Guarded
  <2>5. SavedIs(t, d, puts, disk) /\ SavedIs(t, d, puts, d.job.committed)
      BY DEF SavedIs
  <2> QED
      BY <2>4, <2>5 DEF ScopesFresh
<1>7. TabFresh(t, d, barred[t], inBatch[t], puts, disk)
    BY <1>3, <1>4, <1>5, <1>6 DEF TabFresh
<1>8. TabWrites(d, barred[t], diskBarred[t], inBatch[t], disk.epoch)
  <2> DEFINE n == disk.epoch
  <2>0. DiskEpoch(Nothing) = 0 /\ DiskEpoch(b.copy) \in Nat /\ n \in Nat
    <3>1. b.copy \in Scope \cup {Nothing} /\ n \in Nat
        BY <1>1 DEF TabState, Scope
    <3> QED
        BY <3>1, EpochsTyped DEF DiskEpoch
  <2>2. EpochsWithin(d, n)
      BY <1>1, <2>0 DEF TabWrites, EpochsWithin
  <2>3. Outdated(b, n) => Outdated(d, n)
      BY <1>1, <2>0 DEF Outdated
  <2>4. MayWrite(b, diskBarred[t], inBatch[t]) => MayWrite(d, diskBarred[t], inBatch[t])
      BY DEF MayWrite
  <2>5. d.read \in {"none", "asked"} => \A c \in DOMAIN diskBarred[t] : diskBarred[t][c] = 0
      BY <1>1 DEF TabWrites
  <2> QED
      BY <1>1, <2>2, <2>3, <2>4, <2>5 DEF TabWrites
<1>9. restores' \subseteq [tab : Tabs, id : Conversations, epoch : Nat]
    BY <1>1
<1> QED
    BY <1>2, <1>7, <1>8, <1>9, LocalStep

LEMMA BeginWriteStep ==
    ASSUME CacheInv, setup' = setup, NEW t \in Tabs, BeginWrite(t)
    PROVE  CacheInv'
<1> DEFINE b == tab[t]
           op == Head(b.writes)
           job == [NoJob EXCEPT !.kind = op.kind, !.id = op.id, !.bar = op.bar,
                                !.epoch = b.epoch, !.stage = "waiting"]
           begun == [b EXCEPT !.writes = Tail(@), !.job = job]
           loaded == [begun EXCEPT !.job = [@ EXCEPT !.left = b.pending], !.pending = <<>>]
<1>1. /\ b \in TabState /\ Coalesced(b) /\ JobInOrder(b)
      /\ TabWrites(b, barred[t], diskBarred[t], inBatch[t], disk.epoch)
      /\ barred[t] \in [Conversations -> 0..Len(puts)]
    BY OfTab
<1>2. /\ b.writes # <<>> /\ b.job.kind = "none"
      /\ tab' = [tab EXCEPT ![t] =
             IF op.kind = "clear" THEN Asking(begun)
             ELSE IF b.pending = <<>> THEN BatchEnds(begun) ELSE Asking(loaded)]
      /\ UNCHANGED <<disk, restores, now, puts, barred, inBatch, diskBarred>>
    BY DEF BeginWrite
<1>3. b.writes \in Seq(WriteOp) /\ b.epoch \in Nat /\ b.pending \in Seq(Entry)
    BY <1>1 DEF TabState
<1>4. op \in WriteOp
    BY <1>2, <1>3, ElementsAt
<1> HIDE DEF op
<1>5. /\ job \in Job /\ job.kind = op.kind /\ job.id = op.id /\ job.bar = op.bar
      /\ job.left = <<>> /\ job.epoch = b.epoch /\ job.stage = "waiting"
      /\ job.committed = Nothing
    BY <1>3, <1>4, NoJobTyped DEF Job, WriteOp
<1> HIDE DEF job
<1>6. /\ begun \in TabState /\ begun.job = job /\ begun.epoch = b.epoch
      /\ SameContent(b, begun) /\ SameScopes(b, begun) /\ SameMarks(b, begun)
      /\ begun.writes = Tail(b.writes) /\ begun.saveScheduled = b.saveScheduled
      /\ AlmostCoalesced(begun)
      /\ op = b.writes[1]
      /\ \A i \in DOMAIN begun.writes : i + 1 \in DOMAIN b.writes
                                        /\ begun.writes[i] = b.writes[i + 1]
    BY <1>1, <1>2, <1>5, BegunFields DEF op
<1> HIDE DEF begun
<1>7. ClearsBounded(begun, barred[t])
  <2>1. ClearsBounded(b, barred[t])
      BY <1>1 DEF TabWrites
  <2>2. 1 \in DOMAIN b.writes
      BY <1>2, <1>3, ElementsAt
  <2> QED
      BY <1>5, <1>6, <2>1, <2>2 DEF ClearsBounded
<1>8. begun.pending = b.pending /\ begun.memory = b.memory
    BY <1>6 DEF SameContent
<1>9. Elements(<<>>) = {}
    BY EmptySeq DEF Elements
<1>10. CASE op.kind = "clear"
  <2> DEFINE d == Asking(begun)
  <2>1. /\ d \in TabState
        /\ SameContent(begun, d) /\ SameQueue(begun, d)
        /\ SameJob(begun, d) /\ SameMarks(begun, d)
        /\ d.copy = begun.copy /\ d.fetched = begun.fetched
        /\ d.read = begun.read \/ (begun.read = "none" /\ d.read = "asked")
      BY <1>6, AskingFields
  <2>2. tab' = [tab EXCEPT ![t] = d]
      BY <1>2, <1>10
  <2> HIDE DEF d
  <2>3. /\ d.memory = b.memory /\ d.pending = b.pending /\ SameMarks(b, d) /\ d.epoch = b.epoch
        /\ d.copy = b.copy /\ d.fetched = b.fetched /\ d.job = job
        /\ d.read = b.read \/ (b.read = "none" /\ d.read = "asked")
      BY <1>6, <1>8, <2>1 DEF SameContent, SameMarks, SameScopes, SameJob
  <2>4. Coalesced(d)
    <3>1. AlmostCoalesced(d)
        BY <1>6, <2>1 DEF AlmostCoalesced, SameQueue, SameJob, Batches
    <3>2. d.pending # <<>> => d.saveScheduled
        BY <1>1, <1>6, <2>1, <2>3 DEF Coalesced, SameQueue
    <3> QED
        BY <3>1, <3>2 DEF AlmostCoalesced, Coalesced
  <2>5. ClearsBounded(d, barred[t])
      BY <1>7, <2>1 DEF ClearsBounded, SameQueue, SameJob
  <2>6. Elements(d.job.left) \subseteq Elements(b.pending)
      BY <1>5, <1>9, <2>3
  <2>7. d.job.epoch <= d.epoch
      BY <1>3, <1>5, <2>3
  <2> QED
      BY <1>2, <1>5, <1>10, <2>1, <2>2, <2>3, <2>4, <2>5, <2>6, <2>7, BeginStep
<1>11. CASE op.kind # "clear" /\ b.pending = <<>>
  <2> DEFINE d == BatchEnds(begun)
  <2>0. begun.job.kind = "batch"
      BY <1>4, <1>5, <1>6, <1>11 DEF WriteOp
  <2>1. /\ d \in TabState
        /\ SameContent(begun, d) /\ SameScopes(begun, d)
        /\ SameMarks(begun, d) /\ SameClears(begun, d)
        /\ d.epoch = begun.epoch /\ d.job = NoJob /\ Coalesced(d)
      BY <1>6, <2>0, BatchEndsFields
  <2>2. tab' = [tab EXCEPT ![t] = d]
      BY <1>2, <1>11
  <2> HIDE DEF d
  <2>3. /\ d.memory = b.memory /\ d.pending = b.pending /\ SameMarks(b, d) /\ d.epoch = b.epoch
        /\ d.copy = b.copy /\ d.fetched = b.fetched /\ d.read = b.read
      BY <1>6, <1>8, <2>1 DEF SameContent, SameMarks, SameScopes
  <2>4. ClearsBounded(d, barred[t])
      BY <1>7, <2>1, NoJobTyped DEF ClearsBounded, SameClears
  <2>5. Elements(d.job.left) \subseteq Elements(b.pending)
      BY <1>9, <2>1, NoJobTyped
  <2>6. d.job.epoch <= d.epoch
      BY <1>3, <2>1, <2>3, NoJobTyped
  <2> QED
      BY <1>2, <2>1, <2>2, <2>3, <2>4, <2>5, <2>6, NoJobTyped, BeginStep
<1>12. CASE op.kind # "clear" /\ b.pending # <<>>
  <2> DEFINE d == Asking(loaded)
  <2>0. begun.job.kind = "batch" /\ job \in Job
      BY <1>4, <1>5, <1>6, <1>12 DEF WriteOp
  <2>1. loaded = [begun EXCEPT !.job = [job EXCEPT !.left = b.pending], !.pending = <<>>]
      BY <1>6
  <2> DEFINE j == [job EXCEPT !.left = b.pending]
  <2>2. /\ j \in Job /\ j.left = b.pending /\ j.kind = job.kind /\ j.epoch = job.epoch
        /\ j.stage = job.stage /\ j.committed = job.committed
      BY <1>3, <2>0 DEF Job
  <2> HIDE DEF j
  <2>3. <<>> \in Seq(Entry)
      BY EmptySeq
  <2>4. loaded = [begun EXCEPT !.job = j, !.pending = <<>>]
      BY <2>1 DEF j
  <2> HIDE DEF loaded
  <2>5. /\ loaded \in TabState /\ loaded.job = j /\ loaded.pending = <<>>
        /\ loaded.memory = b.memory /\ loaded.epoch = begun.epoch
        /\ SameQueue(begun, loaded) /\ SameScopes(begun, loaded) /\ SameMarks(begun, loaded)
    <3>1. loaded \in TabState
        BY <1>6, <2>2, <2>3, <2>4 DEF TabState
    <3> QED
        BY <1>6, <1>8, <2>4, <3>1 DEF TabState, SameQueue, SameScopes, SameMarks
  <2>6. /\ d \in TabState
        /\ SameContent(loaded, d) /\ SameQueue(loaded, d)
        /\ SameJob(loaded, d) /\ SameMarks(loaded, d)
        /\ d.copy = loaded.copy /\ d.fetched = loaded.fetched
        /\ d.read = loaded.read \/ (loaded.read = "none" /\ d.read = "asked")
      BY <2>5, AskingFields
  <2>7. tab' = [tab EXCEPT ![t] = d]
      BY <1>2, <1>12
  <2> HIDE DEF d
  <2>8. /\ d.memory = b.memory /\ d.pending = <<>> /\ SameMarks(b, d) /\ d.epoch = b.epoch
        /\ d.copy = b.copy /\ d.fetched = b.fetched /\ d.job = j
        /\ d.read = b.read \/ (b.read = "none" /\ d.read = "asked")
      BY <1>6, <2>5, <2>6 DEF SameContent, SameMarks, SameScopes, SameJob
  <2>9. Coalesced(d)
    <3>1. j.kind = begun.job.kind /\ SameQueue(begun, d)
        BY <1>6, <2>2, <2>5, <2>6 DEF SameQueue
    <3> QED
        BY <1>6, <2>8, <3>1 DEF AlmostCoalesced, Coalesced, SameQueue, Batches
  <2>10. ClearsBounded(d, barred[t])
    <3>1. j.kind # "clear" /\ d.writes = begun.writes
        BY <1>6, <2>0, <2>2, <2>5, <2>6 DEF SameQueue
    <3> QED
        BY <1>7, <2>8, <3>1 DEF ClearsBounded
  <2>11. Elements(d.job.left) \subseteq Elements(b.pending)
         /\ Elements(d.pending) \subseteq Elements(b.pending)
      BY <1>9, <2>2, <2>8
  <2>12. d.job.epoch <= d.epoch /\ d.job.kind = "batch" /\ d.job.left # <<>>
      BY <1>3, <1>5, <1>6, <1>12, <2>0, <2>2, <2>8
  <2>13. d.job.stage \notin {"applied", "failed"} /\ d.job.committed = Nothing
      BY <1>5, <2>2, <2>8
  <2> QED
      BY <1>2, <2>6, <2>7, <2>8, <2>9, <2>10, <2>11, <2>12, <2>13, BeginStep
<1> QED
    BY <1>10, <1>11, <1>12

-----------------------------------------------------------------------------
(* A save settles.                                                          *)

\* The job ends or goes on with the saves after the first; scopes and marks are
\* such that what they hold of the tab's own puts is fresh or marked.
LEMMA AfterSave ==
    ASSUME NEW t \in Tabs, NEW d \in TabState, CacheInv, setup' = setup,
           tab' = [tab EXCEPT ![t] = d],
           UNCHANGED <<disk, restores, now, puts, barred, inBatch, diskBarred>>,
           tab[t].job.kind = "batch", tab[t].read = "done",
           SameContent(tab[t], d), SameClears(tab[t], d), d.epoch = tab[t].epoch,
           d.read = tab[t].read, d.fetched = tab[t].fetched,
           d.copy \in {tab[t].copy, tab[t].job.committed},
           JobGoesOn(tab[t], d.job), Coalesced(d),
           \A c \in Conversations : Marked(tab[t], c) =>
               \/ Marked(d, c)
               \/ /\ c = tab[t].job.left[1].id /\ tab[t].job.epoch = tab[t].epoch
                  /\ tab[t].job.stage = "applied" /\ tab[t].job.committed # Nothing
                  /\ d.copy = tab[t].job.committed
    PROVE  CacheInv'
<1> DEFINE b == tab[t]
           first == b.job.left[1]
<1>1. /\ b \in TabState /\ JobInOrder(b)
      /\ TabFresh(t, b, barred[t], inBatch[t], puts, disk)
      /\ TabWrites(b, barred[t], diskBarred[t], inBatch[t], disk.epoch) /\ disk \in Scope
      /\ restores \subseteq [tab : Tabs, id : Conversations, epoch : Nat]
    BY OfTab
<1>2. /\ b.epoch \in Nat /\ b.job.left \in Seq(Entry) /\ b.fetched = Nothing
      /\ b.job.left # <<>>
    BY <1>1 DEF TabState, Job, JobInOrder
<1>3. /\ Tail(b.job.left) \in Seq(Entry)
      /\ \A i \in DOMAIN Tail(b.job.left) : i + 1 \in DOMAIN b.job.left /\ i + 1 # 1
                                            /\ Tail(b.job.left)[i] = b.job.left[i + 1]
      /\ 1 \in DOMAIN b.job.left
    BY <1>2, TailKeeps, ElementsAt
<1>4. /\ NoJob.kind = "none" /\ NoJob.left = <<>> /\ NoJob.committed = Nothing
      /\ NoJob.stage = "idle" /\ NoJob.epoch = 0 /\ DOMAIN NoJob.left = {}
    BY NoJobTyped, EmptySeq
<1>5. /\ d.job.committed = Nothing /\ d.job.stage \in {"idle", "waiting"}
      /\ d.job.kind \in {"none", "batch"}
      /\ d.job.kind = "batch" <=> d.job.left # <<>>
      /\ d.job.epoch <= d.epoch
    BY <1>2, <1>4 DEF JobGoesOn
<1>6. \A i \in DOMAIN d.job.left :
         i + 1 \in DOMAIN b.job.left /\ i + 1 # 1 /\ d.job.left[i] = b.job.left[i + 1]
    BY <1>3, <1>4 DEF JobGoesOn
<1>7. JobInOrder(d)
    BY <1>1, <1>2, <1>5 DEF JobInOrder
<1>8. JobFresh(t, d, barred[t], inBatch[t], puts)
  <2>1. JobFresh(t, b, barred[t], inBatch[t], puts)
      BY <1>1 DEF TabFresh
  <2>2. \A i \in DOMAIN d.job.left :
           /\ d.job.left[i].version \in DOMAIN puts /\ puts[d.job.left[i].version] = t
           /\ Fresh(barred[t], inBatch[t], d.job.left[i].id, d.job.left[i].version)
      BY <1>6, <2>1 DEF JobFresh
  <2> QED
      BY <2>2 DEF JobFresh
<1>9. MemoryFresh(t, d, barred[t], inBatch[t], puts) /\ PendingFresh(t, d, barred[t], puts)
    BY <1>1 DEF TabFresh, MemoryFresh, PendingFresh, SameContent
<1>10. ASSUME NEW s \in ScopesOf(d, disk)
       PROVE  PutVersions(puts, s) /\ Guarded(t, d, barred[t], inBatch[t], puts, s)
  <2>1. s \in ScopesOf(b, disk) /\ s \in {disk, b.copy, b.job.committed}
      BY <1>2, <1>5 DEF ScopesOf
  <2>2. PutVersions(puts, s) /\ Guarded(t, b, barred[t], inBatch[t], puts, s)
      BY <1>1, <2>1 DEF TabFresh, ScopesFresh
  <2>3. s \in Scope
      BY <1>1, <2>1 DEF ScopesOf, TabState, Job
  <2>4. CASE \A c \in Conversations : Marked(b, c) => Marked(d, c)
      BY <2>2, <2>3, <2>4 DEF Guarded, Scope
  <2>5. CASE ~ \A c \in Conversations : Marked(b, c) => Marked(d, c)
    <3>1. /\ b.job.epoch = b.epoch
          /\ b.job.stage = "applied" /\ b.job.committed # Nothing
          /\ d.copy = b.job.committed
          /\ \A c \in Conversations : c # first.id => (Marked(b, c) => Marked(d, c))
        BY <2>5
    <3>2. s \in {disk, b.job.committed}
        BY <1>2, <1>5, <3>1 DEF ScopesOf
    <3>3. SavedIs(t, b, puts, s)
        BY <1>1, <3>2 DEF TabFresh, ScopesFresh
    <3>4. Fresh(barred[t], inBatch[t], first.id, first.version)
      <4>1. JobFresh(t, b, barred[t], inBatch[t], puts)
          BY <1>1 DEF TabFresh
      <4> QED
          BY <1>3, <3>1, <4>1 DEF JobFresh
    <3>5. s.entries[first.id] # Nothing /\ puts[s.entries[first.id].version] = t
            => s.entries[first.id].version = first.version
        BY <3>1, <3>3 DEF SavedIs
    <3>6. Guarded(t, d, barred[t], inBatch[t], puts, s)
        BY <2>2, <2>3, <3>1, <3>4, <3>5 DEF Guarded, Scope
    <3> QED
        BY <2>2, <3>6
  <2> QED
      BY <2>4, <2>5
<1>11. ScopesFresh(t, d, barred[t], inBatch[t], puts, disk)
  <2>1. SavedIs(t, d, puts, disk) /\ SavedIs(t, d, puts, d.job.committed)
      BY <1>5 DEF SavedIs
  <2> QED
      BY <1>10, <2>1 DEF ScopesFresh
<1>12. TabFresh(t, d, barred[t], inBatch[t], puts, disk)
    BY <1>8, <1>9, <1>11 DEF TabFresh
<1>13. TabWrites(d, barred[t], diskBarred[t], inBatch[t], disk.epoch)
  <2> DEFINE n == disk.epoch
  <2>0. DiskEpoch(Nothing) = 0 /\ DiskEpoch(b.copy) \in Nat /\ n \in Nat
    <3>1. b.copy \in Scope \cup {Nothing} /\ n \in Nat
        BY <1>1 DEF TabState, Scope
    <3> QED
        BY <3>1, EpochsTyped DEF DiskEpoch
  <2>1. ClearsBounded(d, barred[t])
      BY <1>1, <1>5 DEF TabWrites, ClearsBounded, SameClears
  <2>2. EpochsWithin(d, n)
      BY <1>1, <1>5, <2>0 DEF TabWrites, EpochsWithin
  <2>3. Outdated(b, n) => Outdated(d, n)
      BY <1>1, <1>5, <2>0 DEF Outdated
  <2>4. MayWrite(b, diskBarred[t], inBatch[t]) => MayWrite(d, diskBarred[t], inBatch[t])
    <3>1. Elements(d.job.left) \subseteq Elements(b.job.left)
        BY <1>6 DEF Elements
    <3> QED
        BY <3>1 DEF MayWrite, SameContent
  <2> QED
      BY <1>1, <2>1, <2>2, <2>3, <2>4 DEF TabWrites
<1>14. restores' \subseteq [tab : Tabs, id : Conversations, epoch : Nat]
    BY <1>1
<1> QED
    BY <1>7, <1>12, <1>13, <1>14, LocalStep

LEMMA SaveSettlesStep ==
    ASSUME CacheInv, setup' = setup, NEW t \in Tabs, SaveSettles(t)
    PROVE  CacheInv'
<1> DEFINE b == tab[t]
           c == Head(b.job.left).id
           f == [b EXCEPT !.storageError = TRUE]
           s == SaveCommitted(b, c)
<1>1. b \in TabState /\ Coalesced(b) /\ JobInOrder(b)
    BY OfTab
<1>2. /\ b.job.kind = "batch" /\ b.job.stage \in {"applied", "failed"}
      /\ tab' = [tab EXCEPT ![t] =
             IF b.job.stage = "failed" THEN BatchEnds(f)
             ELSE IF b.job.committed = Nothing THEN BatchGoesOn(b) ELSE BatchGoesOn(s)]
      /\ UNCHANGED <<disk, restores, now, puts, barred, inBatch, diskBarred>>
    BY DEF SaveSettles
<1>3. b.read = "done" /\ b.job.left # <<>> /\ b.job.left \in Seq(Entry) /\ AlmostCoalesced(b)
    BY <1>1, <1>2 DEF JobInOrder, TabState, Job, AlmostCoalesced, Coalesced
<1>4. c = b.job.left[1].id /\ c \in Conversations
  <2>1. Head(b.job.left) = b.job.left[1] /\ b.job.left[1] \in Entry
      BY <1>3, ElementsAt
  <2> QED
      BY <2>1 DEF Entry
<1> HIDE DEF c
<1>5. CASE b.job.stage = "failed"
  <2> DEFINE d == BatchEnds(f)
  <2>1. /\ f \in TabState /\ f.job = b.job /\ f.epoch = b.epoch /\ f.fetched = b.fetched
        /\ f.copy = b.copy /\ f.read = b.read
        /\ SameContent(b, f) /\ SameQueue(b, f) /\ SameMarks(b, f)
    <3>1. f \in TabState
        BY <1>1 DEF TabState
    <3> QED
        BY <1>1, <3>1 DEF TabState, SameContent, SameQueue, SameMarks
  <2> HIDE DEF f
  <2>2. AlmostCoalesced(f)
      BY <1>3, <2>1 DEF AlmostCoalesced, SameQueue, Batches
  <2>3. /\ d \in TabState
        /\ SameContent(f, d) /\ SameScopes(f, d) /\ SameMarks(f, d) /\ SameClears(f, d)
        /\ d.epoch = f.epoch /\ d.job = NoJob /\ Coalesced(d)
      BY <1>2, <2>1, <2>2, BatchEndsFields
  <2>4. tab' = [tab EXCEPT ![t] = d]
      BY <1>2, <1>5
  <2> HIDE DEF d
  <2>5. /\ SameContent(b, d) /\ SameClears(b, d) /\ d.epoch = b.epoch /\ d.read = b.read
        /\ d.fetched = b.fetched /\ d.copy = b.copy /\ JobGoesOn(b, d.job)
      BY <2>1, <2>3 DEF SameContent, SameClears, SameQueue, SameScopes, JobGoesOn
  <2>6. \A k \in Conversations : Marked(b, k) => Marked(d, k)
      BY <2>1, <2>3 DEF Marked, SameMarks
  <2> QED
      BY <1>2, <1>3, <2>3, <2>4, <2>5, <2>6, AfterSave
<1>6. CASE b.job.stage # "failed" /\ b.job.committed = Nothing
  <2> DEFINE d == BatchGoesOn(b)
  <2>1. /\ d \in TabState
        /\ SameContent(b, d) /\ SameScopes(b, d) /\ SameMarks(b, d) /\ SameClears(b, d)
        /\ d.epoch = b.epoch /\ JobGoesOn(b, d.job) /\ Coalesced(d)
      BY <1>1, <1>2, <1>3, BatchGoesOnFields
  <2>2. tab' = [tab EXCEPT ![t] = d]
      BY <1>2, <1>6
  <2> HIDE DEF d
  <2>3. \A k \in Conversations : Marked(b, k) => Marked(d, k)
      BY <2>1 DEF Marked, SameMarks
  <2> QED
      BY <1>2, <1>3, <2>1, <2>2, <2>3, AfterSave DEF SameScopes
<1>7. CASE b.job.stage # "failed" /\ b.job.committed # Nothing
  <2> DEFINE d == BatchGoesOn(s)
  <2>1. /\ s \in TabState /\ SameContent(b, s) /\ SameQueue(b, s) /\ SameJob(b, s)
        /\ s.copy = b.job.committed /\ s.fetched = b.fetched /\ s.read = b.read
        /\ \A k : Marked(b, k) => Marked(s, k) \/ (k = c /\ b.job.epoch = b.epoch)
      BY <1>1, <1>4, SaveCommittedFields
  <2> HIDE DEF s
  <2>2. s.job = b.job /\ s.epoch = b.epoch /\ AlmostCoalesced(s)
      BY <1>3, <2>1 DEF SameJob, AlmostCoalesced, SameQueue, Batches
  <2>3. /\ d \in TabState
        /\ SameContent(s, d) /\ SameScopes(s, d) /\ SameMarks(s, d) /\ SameClears(s, d)
        /\ d.epoch = s.epoch /\ JobGoesOn(s, d.job) /\ Coalesced(d)
      BY <1>2, <1>3, <2>1, <2>2, BatchGoesOnFields
  <2>4. tab' = [tab EXCEPT ![t] = d]
      BY <1>2, <1>7
  <2> HIDE DEF d
  <2>5. /\ SameContent(b, d) /\ SameClears(b, d) /\ d.epoch = b.epoch /\ d.read = b.read
        /\ d.fetched = b.fetched /\ d.copy = b.job.committed /\ JobGoesOn(b, d.job)
      BY <2>1, <2>2, <2>3 DEF SameContent, SameClears, SameQueue, SameScopes, JobGoesOn
  <2>6. \A k \in Conversations :
           Marked(b, k) => Marked(d, k) \/ (k = c /\ b.job.epoch = b.epoch)
      BY <2>1, <2>3 DEF Marked, SameMarks
  <2>7. b.job.stage = "applied"
      BY <1>2, <1>7
  <2> QED
      BY <1>2, <1>3, <1>4, <1>7, <2>3, <2>4, <2>5, <2>6, <2>7, AfterSave
<1> QED
    BY <1>5, <1>6, <1>7

-----------------------------------------------------------------------------
(* A clear, and the transactions on the scope of the host.                  *)

\* What clear makes of the fields.
LEMMA ForgottenFields ==
    ASSUME NEW b \in TabState, NEW whom \in Conversations \cup {All}, Len(puts) \in Nat
    PROVE  LET d == Forgotten(b, whom)
               op == [kind |-> "clear", id |-> whom, bar |-> Len(puts)]
               gone == IF whom = All THEN Conversations ELSE {whom}
           IN  /\ d \in TabState /\ d.epoch = b.epoch + 1 /\ d.job = b.job
               /\ SameScopes(b, d) /\ d.saveScheduled = b.saveScheduled
               /\ d.writes = Append(b.writes, op)
               /\ \A x \in Elements(d.memory) : x \in Elements(b.memory) /\ x.id \notin gone
               /\ \A x \in Elements(d.pending) : x \in Elements(b.pending) /\ x.id \notin gone
               /\ \A c \in gone : Marked(d, c)
               /\ \A c : Marked(b, c) => Marked(d, c)
<1> DEFINE d == Forgotten(b, whom)
           e == b.epoch + 1
           op == [kind |-> "clear", id |-> whom, bar |-> Len(puts)]
           gone == IF whom = All THEN Conversations ELSE {whom}
           m == Without(b.memory, gone)
           p == Without(b.pending, gone)
           w == Append(b.writes, op)
           common == [b EXCEPT !.epoch = e, !.memory = m, !.pending = p,
                               !.savedAfterClear = @ \ gone, !.writes = w]
           all == [common EXCEPT !.scopeEpoch = e, !.clearedAll = TRUE,
                                 !.epochs = [c \in Conversations |-> 0]]
           one == [common EXCEPT !.epochs[whom] = e, !.clearedIds = @ \cup {whom}]
<1>1. d = IF whom = All THEN all ELSE one
    BY DEF Forgotten
<1>2. op \in WriteOp
    BY DEF WriteOp
<1>3. /\ b.memory \in Seq(Entry) /\ b.pending \in Seq(Entry) /\ b.writes \in Seq(WriteOp)
      /\ e \in Nat /\ b.savedAfterClear \ gone \in SUBSET Conversations
    BY DEF TabState
<1> HIDE DEF op
<1>4. w \in Seq(WriteOp)
    BY <1>2, <1>3, AppendKeeps
<1>5. /\ m \in Seq(Entry) /\ \A x \in Elements(m) : x \in Elements(b.memory) /\ x.id \notin gone
      /\ p \in Seq(Entry) /\ \A x \in Elements(p) : x \in Elements(b.pending) /\ x.id \notin gone
    BY <1>3, WithoutKeeps
<1> HIDE DEF gone, m, p, w, e
<1>6. /\ common \in TabState /\ common.epoch = e /\ common.job = b.job
      /\ common.saveScheduled = b.saveScheduled /\ common.writes = w
      /\ common.memory = m /\ common.pending = p /\ SameScopes(b, common)
      /\ common.clearedAll = b.clearedAll /\ common.clearedIds = b.clearedIds
      /\ common.savedAfterClear = b.savedAfterClear \ gone
  <2>1. common \in TabState
      BY <1>3, <1>4, <1>5 DEF TabState
  <2>2. /\ common.epoch = e /\ common.job = b.job
        /\ common.saveScheduled = b.saveScheduled /\ common.writes = w
        /\ common.memory = m /\ common.pending = p
      BY DEF TabState
  <2>3. /\ SameScopes(b, common)
        /\ common.clearedAll = b.clearedAll /\ common.clearedIds = b.clearedIds
        /\ common.savedAfterClear = b.savedAfterClear \ gone
      BY DEF TabState, SameScopes
  <2> QED
      BY <2>1, <2>2, <2>3
<1> HIDE DEF common
<1>7. CASE whom = All
  <2>1. d = all /\ gone = Conversations
      BY <1>1, <1>7 DEF gone
  <2>2. [c \in Conversations |-> 0] \in [Conversations -> Nat]
      OBVIOUS
  <2>3. all \in TabState
      BY <1>3, <1>6, <2>2 DEF TabState
  <2>4. /\ all.epoch = e /\ all.job = b.job
        /\ all.saveScheduled = b.saveScheduled /\ all.writes = w
        /\ all.memory = m /\ all.pending = p
      BY <1>6 DEF TabState
  <2>5. /\ SameScopes(b, all)
        /\ all.clearedAll = TRUE /\ all.clearedIds = b.clearedIds
        /\ all.savedAfterClear = b.savedAfterClear \ gone
      BY <1>6 DEF TabState, SameScopes
  <2> HIDE DEF all, d
  <2>6. \A c \in gone : Marked(d, c)
      BY <2>1, <2>5 DEF Marked
  <2>7. \A c : Marked(b, c) => Marked(d, c)
      BY <2>1, <2>5 DEF Marked
  <2> QED
      BY <1>5, <2>1, <2>3, <2>4, <2>5, <2>6, <2>7 DEF w, op, e, gone, d
<1>8. CASE whom # All
  <2>1. d = one /\ gone = {whom} /\ whom \in Conversations
      BY <1>1, <1>8 DEF gone
  <2>2. [b.epochs EXCEPT ![whom] = e] \in [Conversations -> Nat]
        /\ b.clearedIds \cup {whom} \in SUBSET Conversations
        /\ common.epochs \in [Conversations -> Nat]
      BY <1>3, <1>6, <2>1 DEF TabState
  <2>3. one \in TabState
      BY <1>3, <1>6, <2>1, <2>2 DEF TabState
  <2>4. /\ one.epoch = e /\ one.job = b.job
        /\ one.saveScheduled = b.saveScheduled /\ one.writes = w
        /\ one.memory = m /\ one.pending = p
      BY <1>6 DEF TabState
  <2>5. /\ SameScopes(b, one)
        /\ one.clearedAll = b.clearedAll /\ one.clearedIds = b.clearedIds \cup {whom}
        /\ one.savedAfterClear = b.savedAfterClear \ gone
      BY <1>6 DEF TabState, SameScopes
  <2> HIDE DEF one, d
  <2>6. \A c \in gone : Marked(d, c)
      BY <2>1, <2>5 DEF Marked
  <2>7. \A c : Marked(b, c) => Marked(d, c)
      BY <2>1, <2>5 DEF Marked
  <2> QED
      BY <1>5, <2>1, <2>3, <2>4, <2>5, <2>6, <2>7 DEF w, op, e, gone, d
<1> QED
    BY <1>7, <1>8

LEMMA ClearCacheStep ==
    ASSUME CacheInv, setup' = setup, NEW t \in Tabs, NEW whom \in Conversations \cup {All},
           ClearCache(t, whom)
    PROVE  CacheInv'
<1> DEFINE b == tab[t]
           d == Forgotten(b, whom)
           op == [kind |-> "clear", id |-> whom, bar |-> Len(puts)]
           gone == IF whom = All THEN Conversations ELSE {whom}
           behind == {b.job.left[i].version : i \in 2..Len(b.job.left)}
           bars == [c \in Conversations |-> IF whom \in {All, c} THEN Len(puts) ELSE barred[t][c]]
           batch == inBatch[t] \cup behind
<1>1. /\ b \in TabState /\ Coalesced(b) /\ JobInOrder(b)
      /\ TabFresh(t, b, barred[t], inBatch[t], puts, disk)
      /\ TabWrites(b, barred[t], diskBarred[t], inBatch[t], disk.epoch)
      /\ disk \in Scope /\ puts \in Seq(Tabs) /\ Len(puts) \in Nat /\ Len(puts) <= MaxPuts
      /\ restores \subseteq [tab : Tabs, id : Conversations, epoch : Nat]
      /\ barred[t] \in [Conversations -> 0..Len(puts)]
      /\ diskBarred[t] \in [Conversations -> 0..Len(puts)]
    BY OfTab
<1>2. /\ CacheTyped /\ QueueInv
      /\ barred \in [Tabs -> [Conversations -> 0..Len(puts)]]
      /\ inBatch \in [Tabs -> SUBSET Nat]
      /\ diskBarred \in [Tabs -> [Conversations -> 0..Len(puts)]]
    BY DEF CacheInv, CacheTyped, StateTyped, HistoryTyped
<1>3. /\ tab' = [tab EXCEPT ![t] = d]
      /\ inBatch' = [inBatch EXCEPT ![t] = batch]
      /\ UNCHANGED <<disk, restores, now, puts, diskBarred>>
    BY <1>2 DEF ClearCache
<1>4. barred' = [barred EXCEPT ![t] = bars]
    BY <1>2 DEF ClearCache
<1>5. b.job.left \in Seq(Entry) /\ b.epoch \in Nat /\ b.job.epoch \in Nat /\ b.writes \in Seq(WriteOp)
    BY <1>1 DEF TabState, Job
<1>6. behind \subseteq Nat /\ \A i \in DOMAIN b.job.left : i # 1 => b.job.left[i].version \in behind
  <2>1. Len(b.job.left) \in Nat /\ DOMAIN b.job.left = 1..Len(b.job.left)
      BY <1>5, LenProperties
  <2>2. \A i \in 2..Len(b.job.left) : b.job.left[i] \in Entry
      BY <1>5, <2>1, ElementsAt
  <2>3. \A x \in Entry : x.version \in Nat
      BY CacheAssumption DEF Entry
  <2>4. \A i \in DOMAIN b.job.left : i # 1 => i \in 2..Len(b.job.left)
      BY <2>1
  <2> QED
      BY <2>2, <2>3, <2>4
<1>7. /\ bars \in [Conversations -> 0..Len(puts)]
      /\ \A c \in Conversations : barred[t][c] <= bars[c]
      /\ \A c \in gone : bars[c] = Len(puts)
      /\ \A c \in Conversations : c \notin gone => bars[c] = barred[t][c]
      /\ gone \subseteq Conversations /\ whom # All => gone = {whom}
    BY <1>1, CacheAssumption DEF Conversations, CacheTyped, StateTyped
<1>8. /\ d \in TabState /\ d.epoch = b.epoch + 1 /\ d.job = b.job
      /\ SameScopes(b, d) /\ d.saveScheduled = b.saveScheduled
      /\ d.writes = Append(b.writes, op)
      /\ \A x \in Elements(d.memory) : x \in Elements(b.memory) /\ x.id \notin gone
      /\ \A x \in Elements(d.pending) : x \in Elements(b.pending) /\ x.id \notin gone
      /\ \A c \in gone : Marked(d, c)
      /\ \A c : Marked(b, c) => Marked(d, c)
    BY <1>1, ForgottenFields
<1>9. op \in WriteOp /\ op.kind = "clear" /\ op.id = whom /\ op.bar = Len(puts)
    BY <1>1 DEF WriteOp
<1> HIDE DEF bars, behind, d, op
<1>10. /\ DOMAIN b.writes \subseteq DOMAIN d.writes
       /\ \A i \in DOMAIN b.writes : d.writes[i] = b.writes[i]
       /\ \A i \in DOMAIN d.writes : i \in DOMAIN b.writes \/ d.writes[i] = op
    BY <1>5, <1>8, <1>9, AppendKeeps
<1>11. Batches(d) = Batches(b)
    BY <1>9, <1>10 DEF Batches
<1>12. Coalesced(d)
  <2>1. b.pending \in Seq(Entry) /\ d.pending \in Seq(Entry)
      BY <1>1, <1>8 DEF TabState
  <2>2. d.pending # <<>> => b.pending # <<>>
      BY <1>8, <2>1, NoElements
  <2> QED
      BY <1>1, <1>8, <1>11, <2>2 DEF Coalesced
<1>13. JobInOrder(d) /\ b.job.epoch # d.epoch
    BY <1>1, <1>5, <1>8 DEF JobInOrder, SameScopes
<1>14. \A c \in Conversations : \A v : Fresh(barred[t], inBatch[t], c, v) => c \in gone \/ Fresh(bars, batch, c, v)
    BY <1>7 DEF Fresh
<1>15. MemoryFresh(t, d, bars, batch, puts) /\ PendingFresh(t, d, bars, puts)
  <2>1. d.memory \in Seq(Entry) /\ d.pending \in Seq(Entry)
      BY <1>8 DEF TabState
  <2>2. Elements(d.memory) \cup Elements(d.pending) \subseteq Entry
      BY <2>1, ElementsAt
  <2>3. \A x \in Elements(d.memory) \cup Elements(d.pending) : x.id \in Conversations /\ x.id \notin gone
      BY <1>8, <2>2 DEF Entry
  <2>4. MemoryFresh(t, b, barred[t], inBatch[t], puts) /\ PendingFresh(t, b, barred[t], puts)
      BY <1>1 DEF TabFresh
  <2>5. MemoryFresh(t, d, bars, batch, puts)
      BY <1>8, <1>14, <2>3, <2>4 DEF MemoryFresh
  <2>6. PendingFresh(t, d, bars, puts)
      BY <1>7, <1>8, <2>3, <2>4 DEF PendingFresh
  <2> QED
      BY <2>5, <2>6
<1>16. JobFresh(t, d, bars, batch, puts)
  <2>1. JobFresh(t, b, barred[t], inBatch[t], puts)
      BY <1>1 DEF TabFresh
  <2> SUFFICES ASSUME NEW i \in DOMAIN b.job.left
               PROVE  \/ Fresh(bars, batch, b.job.left[i].id, b.job.left[i].version)
                      \/ i = 1 /\ b.job.epoch # d.epoch /\ Marked(d, b.job.left[i].id)
      BY <1>8, <2>1 DEF JobFresh
  <2>2. b.job.left[i] \in Entry
      BY <1>5, ElementsAt
  <2>3. b.job.left[i].id \in Conversations
      BY <2>2 DEF Entry
  <2>4. CASE i # 1
      BY <1>6, <2>4 DEF Fresh
  <2>5. CASE i = 1
      BY <1>8, <1>13, <1>14, <2>1, <2>3, <2>5 DEF JobFresh
  <2> QED
      BY <2>4, <2>5
<1>17. ScopesFresh(t, d, bars, batch, puts, disk)
  <2>1. ScopesOf(d, disk) = ScopesOf(b, disk)
      BY <1>8 DEF ScopesOf, SameScopes
  <2>2. ScopesFresh(t, b, barred[t], inBatch[t], puts, disk)
      BY <1>1 DEF TabFresh
  <2>3. ASSUME NEW s \in ScopesOf(d, disk)
        PROVE  PutVersions(puts, s) /\ Guarded(t, d, bars, batch, puts, s)
    <3>1. PutVersions(puts, s) /\ Guarded(t, b, barred[t], inBatch[t], puts, s)
        BY <2>1, <2>2 DEF ScopesFresh
    <3>2. s \in Scope
        BY <1>1, <2>1 DEF ScopesOf, TabState, Job
    <3>3. DOMAIN s.entries = Conversations
        BY <3>2 DEF Scope
    <3> QED
        BY <1>8, <1>14, <3>1, <3>3 DEF Guarded
  <2>4. SavedIs(t, d, puts, disk) /\ SavedIs(t, d, puts, d.job.committed)
      BY <1>8, <2>2 DEF ScopesFresh, SavedIs
  <2> QED
      BY <2>3, <2>4 DEF ScopesFresh
<1>18. TabFresh(t, d, bars, batch, puts, disk)
    BY <1>15, <1>16, <1>17 DEF TabFresh
<1>19. TabWrites(d, bars, diskBarred[t], batch, disk.epoch)
  <2>1. ClearsBounded(d, bars)
    <3>1. ClearsBounded(b, barred[t])
        BY <1>1 DEF TabWrites
    <3>2. DOMAIN bars = Conversations /\ DOMAIN barred[t] = Conversations
        BY <1>1, <1>7
    <3>3. \A i \in DOMAIN b.writes : b.writes[i].bar \in Nat
      <4>1. \A i \in DOMAIN b.writes : b.writes[i] \in WriteOp
          BY <1>5, ElementsAt
      <4> QED
          BY <4>1 DEF WriteOp
    <3>4. b.job.bar \in Nat
        BY <1>1 DEF TabState, Job
    <3>5. \A c \in Conversations : bars[c] \in Nat /\ barred[t][c] \in Nat
        BY <1>1, <1>7
    <3>6. \A c \in Conversations : whom \in {All, c} => Len(puts) <= bars[c]
        BY <1>1, <1>7
    <3>7. \A i \in DOMAIN d.writes : d.writes[i].kind = "clear" =>
             \A c \in Conversations : d.writes[i].id \in {All, c} => d.writes[i].bar <= bars[c]
      <4> SUFFICES ASSUME NEW i \in DOMAIN d.writes, d.writes[i].kind = "clear",
                          NEW c \in Conversations, d.writes[i].id \in {All, c}
                   PROVE  d.writes[i].bar <= bars[c]
          OBVIOUS
      <4>1. CASE d.writes[i] = op
          BY <1>9, <3>6, <4>1
      <4>2. CASE d.writes[i] # op
        <5>1. i \in DOMAIN b.writes /\ d.writes[i] = b.writes[i]
            BY <1>10, <4>2
        <5>2. d.writes[i].bar <= barred[t][c]
            BY <3>1, <3>2, <5>1 DEF ClearsBounded
        <5> QED
            BY <1>7, <3>3, <3>5, <5>1, <5>2
      <4> QED
          BY <4>1, <4>2
    <3>8. b.job.kind = "clear" =>
             \A c \in Conversations : b.job.id \in {All, c} => b.job.bar <= bars[c]
      <4> SUFFICES ASSUME b.job.kind = "clear", NEW c \in Conversations, b.job.id \in {All, c}
                   PROVE  b.job.bar <= bars[c]
          OBVIOUS
      <4>1. b.job.bar <= barred[t][c]
          BY <3>1, <3>2 DEF ClearsBounded
      <4> QED
          BY <1>7, <3>4, <3>5, <4>1
    <3> QED
        BY <1>8, <3>2, <3>7, <3>8 DEF ClearsBounded
  <2>2. EpochsWithin(d, disk.epoch) /\ (Outdated(b, disk.epoch) => Outdated(d, disk.epoch))
      BY <1>1, <1>8 DEF TabWrites, EpochsWithin, Outdated, SameScopes
  <2>3. MayWrite(b, diskBarred[t], inBatch[t]) => MayWrite(d, diskBarred[t], batch)
      BY <1>8 DEF MayWrite
  <2> QED
      BY <1>1, <1>8, <2>1, <2>2, <2>3 DEF TabWrites, SameScopes
<1>20. NoStaleWrite'
  <2> SUFFICES ASSUME NEW c \in Conversations, disk.entries[c] # Nothing
               PROVE  LET v == disk.entries[c].version
                      IN  v > diskBarred[puts[v]][c] \/ v \in inBatch'[puts[v]]
      BY <1>3, SameTypes DEF NoStaleWrite
  <2>1. PutVersions(puts, disk) /\ c \in DOMAIN disk.entries
      BY <1>1 DEF TabFresh, ScopesFresh, ScopesOf, Scope
  <2>2. puts[disk.entries[c].version] \in Tabs
      BY <1>1, <2>1 DEF PutVersions
  <2>3. \A u \in Tabs : inBatch[u] \subseteq inBatch'[u]
      BY <1>2, <1>3
  <2> QED
      BY <2>2, <2>3 DEF CacheInv, WritesInv, NoStaleWrite
<1>21. batch \in SUBSET Nat
    BY <1>2, <1>6
<1> HIDE DEF batch
<1>22. /\ barred' \in [Tabs -> [Conversations -> 0..Len(puts)]]
       /\ inBatch' \in [Tabs -> SUBSET Nat]
       /\ barred'[t] = bars /\ inBatch'[t] = batch
       /\ \A u \in Tabs : u # t => barred'[u] = barred[u] /\ inBatch'[u] = inBatch[u]
    BY <1>2, <1>3, <1>4, <1>7, <1>21
<1>23. \A u \in Tabs : u # t =>
          /\ TabFresh(u, tab[u], barred'[u], inBatch'[u], puts, disk)
          /\ TabWrites(tab[u], barred'[u], diskBarred[u], inBatch'[u], disk.epoch)
    BY <1>22 DEF CacheInv, FreshInv, WritesInv
<1>24. /\ disk' \in Scope
       /\ restores' \subseteq [tab : Tabs, id : Conversations, epoch : Nat] /\ now' = now
       /\ puts' \in Seq(Tabs) /\ Len(puts') <= MaxPuts
       /\ barred' \in [Tabs -> [Conversations -> 0..Len(puts')]]
       /\ inBatch' \in [Tabs -> SUBSET Nat]
       /\ diskBarred' \in [Tabs -> [Conversations -> 0..Len(puts')]]
    BY <1>1, <1>2, <1>3, <1>22
<1>25. /\ TabFresh(t, d, barred'[t], inBatch'[t], puts', disk')
       /\ TabWrites(d, barred'[t], diskBarred'[t], inBatch'[t], disk'.epoch)
       /\ \A u \in Tabs : u # t =>
             /\ TabFresh(u, tab[u], barred'[u], inBatch'[u], puts', disk')
             /\ TabWrites(tab[u], barred'[u], diskBarred'[u], inBatch'[u], disk'.epoch)
    BY <1>3, <1>18, <1>19, <1>22, <1>23
<1> QED
    BY <1>2, <1>3, <1>8, <1>12, <1>13, <1>20, <1>24, <1>25, TabStep

\* What a save makes of the scope: records are as they were or gone, and what is
\* new is what is saved.
LEMMA SavedFields ==
    ASSUME disk \in Scope, NEW e \in Entry, NEW revision \in Nat
    PROVE  /\ Saved(e, revision) \in Scope /\ Saved(e, revision).epoch = disk.epoch
           /\ \A c \in Conversations :
                 LET r == Saved(e, revision).entries[c] IN
                 r = Nothing \/ (c # e.id /\ r = disk.entries[c])
                             \/ (c = e.id /\ r.version = e.version)
<1> DEFINE r == [version |-> e.version, savedAt |-> e.savedAt, revision |-> revision + 1]
           written == [disk.entries EXCEPT ![e.id] = r]
           trimmed == DiskTrimmed(written, e.id)
<1>1. e.id \in Conversations /\ r \in Record /\ r.version = e.version
    BY DEF Entry, Record
<1> HIDE DEF r
<1>2. /\ written \in [Conversations -> Record \cup {Nothing}]
      /\ \A c \in Conversations : written[c] = IF c = e.id THEN r ELSE disk.entries[c]
    BY <1>1 DEF Scope
<1> HIDE DEF written
<1>3. PICK out : trimmed = [c \in Conversations |-> IF c \in out THEN Nothing ELSE written[c]]
    BY DEF DiskTrimmed
<1> HIDE DEF trimmed
<1>4. /\ trimmed \in [Conversations -> Record \cup {Nothing}]
      /\ \A c \in Conversations : trimmed[c] \in {Nothing, written[c]}
    BY <1>2, <1>3
<1>5. Saved(e, revision) = [disk EXCEPT !.entries = trimmed]
    BY DEF Saved, trimmed, written, r
<1>6. /\ Saved(e, revision) \in Scope /\ Saved(e, revision).epoch = disk.epoch
      /\ Saved(e, revision).entries = trimmed
    BY <1>4, <1>5 DEF Scope
<1> QED
    BY <1>1, <1>2, <1>4, <1>6

\* The revision of a record is a natural number.
LEMMA RevisionTyped ==
    ASSUME NEW s \in Scope \cup {Nothing}, NEW c \in Conversations
    PROVE  Revision(s, c) \in Nat
<1>1. CASE s = Nothing \/ s.entries[c] = Nothing
    BY <1>1 DEF Revision
<1>2. CASE s # Nothing /\ s.entries[c] # Nothing
  <2>1. s.entries[c] \in Record
      BY <1>2 DEF Scope
  <2> QED
      BY <1>2, <2>1 DEF Revision, Record
<1> QED
    BY <1>1, <1>2

\* The steps of SaveApplies: the scope takes the save or not, and the job knows
\* that it did, that it conflicted, or nothing.
LEMMA TransactionStep ==
    ASSUME NEW t \in Tabs, NEW d \in TabState, NEW e \in Entry, CacheInv, setup' = setup,
           tab' = [tab EXCEPT ![t] = d], tab[t].job.kind = "batch", tab[t].read = "done",
           tab[t].job.stage = "waiting", tab[t].job.left # <<>>, e = Head(tab[t].job.left),
           UNCHANGED <<restores, now, puts, barred, inBatch, diskBarred>>,
           disk' \in Scope, disk'.epoch = disk.epoch,
           \A c \in Conversations : disk'.entries[c] # Nothing =>
               \/ c # e.id /\ disk'.entries[c] = disk.entries[c]
               \/ disk' = disk
               \/ c = e.id /\ disk'.entries[c].version = e.version
                  /\ disk.epoch = DiskEpoch(tab[t].copy),
           SameContent(tab[t], d), SameQueue(tab[t], d), SameMarks(tab[t], d),
           SameScopes(tab[t], d), d.epoch = tab[t].epoch,
           d.job.kind = "batch", d.job.left = tab[t].job.left, d.job.epoch = tab[t].job.epoch,
           \/ d.job.stage \in {"applied", "failed"} /\ d.job.committed = Nothing
           \/ /\ d.job.stage = "applied" /\ d.job.committed = disk'
              /\ disk.epoch = DiskEpoch(tab[t].copy)
              /\ disk'.entries[e.id] # Nothing => disk'.entries[e.id].version = e.version
    PROVE  CacheInv'
<1> DEFINE b == tab[t]
           n == disk.epoch
<1>1. /\ b \in TabState /\ Coalesced(b) /\ JobInOrder(b)
      /\ TabFresh(t, b, barred[t], inBatch[t], puts, disk)
      /\ TabWrites(b, barred[t], diskBarred[t], inBatch[t], disk.epoch)
      /\ disk \in Scope /\ puts \in Seq(Tabs) /\ Len(puts) \in Nat /\ Len(puts) <= MaxPuts
      /\ restores \subseteq [tab : Tabs, id : Conversations, epoch : Nat]
    BY OfTab
<1>2. /\ CacheTyped /\ QueueInv
      /\ barred \in [Tabs -> [Conversations -> 0..Len(puts)]]
      /\ inBatch \in [Tabs -> SUBSET Nat]
      /\ diskBarred \in [Tabs -> [Conversations -> 0..Len(puts)]]
    BY DEF CacheInv, CacheTyped, StateTyped, HistoryTyped
<1>3. /\ b.job.left \in Seq(Entry) /\ n \in Nat /\ DiskEpoch(b.copy) \in Nat
      /\ DiskEpoch(Nothing) = 0
  <2>1. b.copy \in Scope \cup {Nothing} /\ n \in Nat /\ b.job.left \in Seq(Entry)
      BY <1>1 DEF TabState, Scope, Job
  <2> QED
      BY <2>1, EpochsTyped DEF DiskEpoch
<1>4. 1 \in DOMAIN b.job.left /\ e = b.job.left[1] /\ e.id \in Conversations
  <2>1. e.id \in Conversations
      BY DEF Entry
  <2> QED
      BY <1>3, <2>1, ElementsAt
<1>5. /\ e.version \in DOMAIN puts /\ puts[e.version] = t
      /\ Fresh(barred[t], inBatch[t], e.id, e.version) \/ Marked(b, e.id)
    BY <1>1, <1>4 DEF TabFresh, JobFresh
<1>6. PutVersions(puts, disk) /\ DOMAIN disk.entries = Conversations
      /\ DOMAIN disk'.entries = Conversations
    BY <1>1 DEF TabFresh, ScopesFresh, ScopesOf, Scope
<1>7. Coalesced(d) /\ SameClears(b, d)
    BY <1>1 DEF Coalesced, Batches, SameQueue, SameContent, SameClears
<1>8. JobInOrder(d)
    BY <1>1 DEF JobInOrder, SameScopes
<1>9. PutVersions(puts, disk')
    BY <1>5, <1>6 DEF PutVersions
<1>10. \A c : Marked(d, c) <=> Marked(b, c)
    BY DEF Marked, SameMarks
<1>11. Guarded(t, d, barred[t], inBatch[t], puts, disk')
  <2>1. Guarded(t, b, barred[t], inBatch[t], puts, disk)
      BY <1>1 DEF TabFresh, ScopesFresh, ScopesOf
  <2> QED
      BY <1>5, <1>6, <1>10, <2>1 DEF Guarded
<1>12. ScopesFresh(t, d, barred[t], inBatch[t], puts, disk')
  <2>1. ASSUME NEW s \in ScopesOf(d, disk')
        PROVE  PutVersions(puts, s) /\ Guarded(t, d, barred[t], inBatch[t], puts, s)
    <3>1. s = disk' \/ s \in ScopesOf(b, disk)
        BY DEF ScopesOf, SameScopes
    <3>2. CASE s \in ScopesOf(b, disk)
        BY <1>1, <1>10, <3>2 DEF TabFresh, ScopesFresh, Guarded
    <3> QED
        BY <1>9, <1>11, <3>1, <3>2
  <2>2. SavedIs(t, d, puts, disk') /\ SavedIs(t, d, puts, d.job.committed)
      BY <1>4 DEF SavedIs
  <2> QED
      BY <2>1, <2>2 DEF ScopesFresh
<1>13. JobFresh(t, d, barred[t], inBatch[t], puts)
    BY <1>1, <1>10 DEF TabFresh, JobFresh
<1>14. MemoryFresh(t, d, barred[t], inBatch[t], puts) /\ PendingFresh(t, d, barred[t], puts)
    BY <1>1 DEF TabFresh, MemoryFresh, PendingFresh, SameContent
<1>15. TabFresh(t, d, barred[t], inBatch[t], puts, disk')
    BY <1>12, <1>13, <1>14 DEF TabFresh
<1>16. disk.epoch = DiskEpoch(b.copy) => MayWrite(b, diskBarred[t], inBatch[t])
    BY <1>1, <1>3 DEF TabWrites, Outdated
<1>17. TabWrites(d, barred[t], diskBarred[t], inBatch[t], n)
  <2>1. ClearsBounded(d, barred[t])
      BY <1>1, <1>7 DEF TabWrites, ClearsBounded, SameClears
  <2>2. DiskEpoch(d.job.committed) <= n
      BY <1>3 DEF DiskEpoch
  <2>3. EpochsWithin(d, n)
      BY <1>1, <2>2 DEF TabWrites, EpochsWithin, SameScopes
  <2>4. MayWrite(b, diskBarred[t], inBatch[t]) => MayWrite(d, diskBarred[t], inBatch[t])
      BY DEF MayWrite, SameContent
  <2>5. CASE disk.epoch = DiskEpoch(b.copy)
      BY <1>1, <1>16, <2>1, <2>3, <2>4, <2>5 DEF TabWrites, SameScopes
  <2>6. CASE disk.epoch # DiskEpoch(b.copy)
    <3>1. d.job.committed = Nothing
        BY <2>6
    <3>2. Outdated(b, n) => Outdated(d, n)
        BY <1>1, <1>3, <3>1 DEF Outdated, SameScopes
    <3> QED
        BY <1>1, <2>1, <2>3, <2>4, <3>2 DEF TabWrites, SameScopes
  <2> QED
      BY <2>5, <2>6
<1>18. NoStaleWrite'
  <2> SUFFICES ASSUME NEW c \in Conversations, disk'.entries[c] # Nothing
               PROVE  LET v == disk'.entries[c].version
                      IN  v > diskBarred[puts[v]][c] \/ v \in inBatch[puts[v]]
      BY SameTypes DEF NoStaleWrite
  <2>1. CASE disk'.entries[c] = disk.entries[c]
      BY <2>1 DEF CacheInv, WritesInv, NoStaleWrite
  <2>2. CASE disk'.entries[c] # disk.entries[c]
    <3>1. /\ c = e.id /\ disk'.entries[c].version = e.version
          /\ disk.epoch = DiskEpoch(b.copy)
        BY <2>2
    <3>2. e \in Elements(b.job.left)
        BY <1>4 DEF Elements
    <3>3. e.version > diskBarred[t][e.id] \/ e.version \in inBatch[t]
        BY <1>16, <3>1, <3>2 DEF MayWrite
    <3> QED
        BY <1>5, <3>1, <3>3
  <2> QED
      BY <2>1, <2>2
<1>19. ASSUME NEW u \in Tabs, u # t
       PROVE  /\ TabFresh(u, tab[u], barred[u], inBatch[u], puts, disk')
              /\ TabWrites(tab[u], barred[u], diskBarred[u], inBatch[u], n)
  <2>1. /\ tab[u] \in TabState /\ JobInOrder(tab[u])
        /\ TabFresh(u, tab[u], barred[u], inBatch[u], puts, disk)
        /\ TabWrites(tab[u], barred[u], diskBarred[u], inBatch[u], n)
      BY OfTab
  <2>2. \A c \in Conversations : disk'.entries[c] # Nothing =>
           \/ disk'.entries[c] = disk.entries[c]
           \/ disk'.entries[c].version \in DOMAIN puts /\ puts[disk'.entries[c].version] # u
      BY <1>5, <1>19
  <2> QED
      BY <1>1, <2>1, <2>2, ScopeChanges
<1>20. /\ restores' \subseteq [tab : Tabs, id : Conversations, epoch : Nat] /\ now' = now
       /\ puts' \in Seq(Tabs) /\ Len(puts') <= MaxPuts
       /\ barred' \in [Tabs -> [Conversations -> 0..Len(puts')]]
       /\ inBatch' \in [Tabs -> SUBSET Nat]
       /\ diskBarred' \in [Tabs -> [Conversations -> 0..Len(puts')]]
    BY <1>1, <1>2
<1>21. /\ TabFresh(t, d, barred'[t], inBatch'[t], puts', disk')
       /\ TabWrites(d, barred'[t], diskBarred'[t], inBatch'[t], disk'.epoch)
       /\ \A u \in Tabs : u # t =>
             /\ TabFresh(u, tab[u], barred'[u], inBatch'[u], puts', disk')
             /\ TabWrites(tab[u], barred'[u], diskBarred'[u], inBatch'[u], disk'.epoch)
    BY <1>15, <1>17, <1>19
<1> QED
    BY <1>2, <1>7, <1>8, <1>18, <1>20, <1>21, TabStep

LEMMA SaveAppliesStep ==
    ASSUME CacheInv, setup' = setup, NEW t \in Tabs, SaveApplies(t)
    PROVE  CacheInv'
<1> DEFINE b == tab[t]
           d == tab'[t]
           e == Head(b.job.left)
           next == Saved(e, Revision(b.copy, e.id))
<1>1. b \in TabState /\ JobInOrder(b) /\ disk \in Scope /\ tab \in [Tabs -> TabState]
    BY OfTab DEF CacheInv, CacheTyped, StateTyped
<1>2. /\ b.job.kind = "batch" /\ b.job.stage = "waiting" /\ b.read = "done"
      /\ UNCHANGED <<restores, now, puts, barred, inBatch, diskBarred>>
    BY DEF SaveApplies
<1>3. b.job.left # <<>> /\ b.job.left \in Seq(Entry) /\ b.job \in Job
      /\ b.copy \in Scope \cup {Nothing} /\ b.job.committed = Nothing
    BY <1>1, <1>2 DEF JobInOrder, TabState, Job
<1>4. e \in Entry /\ e.id \in Conversations
  <2>1. e \in Entry
      BY <1>3, ElementsAt
  <2> QED
      BY <2>1 DEF Entry
<1> HIDE DEF e
<1>5. Revision(b.copy, e.id) \in Nat
    BY <1>3, <1>4, RevisionTyped
<1>6. /\ next \in Scope /\ next.epoch = disk.epoch
      /\ \A c \in Conversations :
            next.entries[c] = Nothing \/ (c # e.id /\ next.entries[c] = disk.entries[c])
                                      \/ (c = e.id /\ next.entries[c].version = e.version)
    BY <1>1, <1>4, <1>5, SavedFields
<1> HIDE DEF next
<1>7. \/ /\ Unchanged(b, e.id) /\ disk' = next
         /\ d = [b EXCEPT !.job = [b.job EXCEPT !.stage = "applied", !.committed = next]]
      \/ /\ disk' = disk
         /\ d = [b EXCEPT !.job = [b.job EXCEPT !.stage = "applied"], !.storageError = TRUE]
      \/ /\ disk' = disk \/ (Unchanged(b, e.id) /\ disk' = next)
         /\ d = [b EXCEPT !.job = [b.job EXCEPT !.stage = "failed"]]
    BY <1>1 DEF SaveApplies, next, e
<1>8. tab' = [tab EXCEPT ![t] = d]
    BY <1>1 DEF SaveApplies
<1> HIDE DEF d
<1>9. ASSUME NEW j \in Job, NEW err \in BOOLEAN,
             d = [b EXCEPT !.job = j, !.storageError = err]
      PROVE  /\ d \in TabState /\ d.job = j /\ d.epoch = b.epoch
             /\ SameContent(b, d) /\ SameQueue(b, d) /\ SameMarks(b, d) /\ SameScopes(b, d)
  <2>1. d \in TabState
      BY <1>1, <1>9 DEF TabState
  <2> QED
      BY <1>1, <1>9, <2>1 DEF TabState, SameContent, SameQueue, SameMarks, SameScopes
<1>10. b.storageError \in BOOLEAN /\ TRUE \in BOOLEAN
    BY <1>1 DEF TabState
<1>11. Unchanged(b, e.id) => disk.epoch = DiskEpoch(b.copy)
    BY DEF Unchanged
<1>12. CASE /\ Unchanged(b, e.id) /\ disk' = next
            /\ d = [b EXCEPT !.job = [b.job EXCEPT !.stage = "applied", !.committed = next]]
  <2> DEFINE j == [b.job EXCEPT !.stage = "applied", !.committed = next]
  <2>1. /\ j \in Job /\ j.kind = b.job.kind /\ j.left = b.job.left /\ j.epoch = b.job.epoch
        /\ j.stage = "applied" /\ j.committed = next
      BY <1>3, <1>6 DEF Job
  <2> HIDE DEF j
  <2>2. d = [b EXCEPT !.job = j, !.storageError = b.storageError]
      BY <1>1, <1>12 DEF j, TabState
  <2>3. /\ d \in TabState /\ d.job = j /\ d.epoch = b.epoch
        /\ SameContent(b, d) /\ SameQueue(b, d) /\ SameMarks(b, d) /\ SameScopes(b, d)
      BY <1>9, <1>10, <2>1, <2>2
  <2> QED
      BY <1>2, <1>3, <1>4, <1>6, <1>8, <1>11, <1>12, <2>1, <2>3, TransactionStep DEF e
<1>13. CASE /\ disk' = disk
            /\ d = [b EXCEPT !.job = [b.job EXCEPT !.stage = "applied"], !.storageError = TRUE]
  <2> DEFINE j == [b.job EXCEPT !.stage = "applied"]
  <2>1. /\ j \in Job /\ j.kind = b.job.kind /\ j.left = b.job.left /\ j.epoch = b.job.epoch
        /\ j.stage = "applied" /\ j.committed = Nothing
      BY <1>3 DEF Job
  <2> HIDE DEF j
  <2>2. d = [b EXCEPT !.job = j, !.storageError = TRUE]
      BY <1>13 DEF j
  <2>3. /\ d \in TabState /\ d.job = j /\ d.epoch = b.epoch
        /\ SameContent(b, d) /\ SameQueue(b, d) /\ SameMarks(b, d) /\ SameScopes(b, d)
      BY <1>9, <1>10, <2>1, <2>2
  <2> QED
      BY <1>1, <1>2, <1>3, <1>4, <1>8, <1>13, <2>1, <2>3, TransactionStep DEF e
<1>14. CASE /\ disk' = disk \/ (Unchanged(b, e.id) /\ disk' = next)
            /\ d = [b EXCEPT !.job = [b.job EXCEPT !.stage = "failed"]]
  <2> DEFINE j == [b.job EXCEPT !.stage = "failed"]
  <2>1. /\ j \in Job /\ j.kind = b.job.kind /\ j.left = b.job.left /\ j.epoch = b.job.epoch
        /\ j.stage = "failed" /\ j.committed = Nothing
      BY <1>3 DEF Job
  <2> HIDE DEF j
  <2>2. d = [b EXCEPT !.job = j, !.storageError = b.storageError]
      BY <1>1, <1>14 DEF j, TabState
  <2>3. /\ d \in TabState /\ d.job = j /\ d.epoch = b.epoch
        /\ SameContent(b, d) /\ SameQueue(b, d) /\ SameMarks(b, d) /\ SameScopes(b, d)
      BY <1>9, <1>10, <2>1, <2>2
  <2>4. /\ disk' \in Scope /\ disk'.epoch = disk.epoch
        /\ \A c \in Conversations : disk'.entries[c] # Nothing =>
               \/ c # e.id /\ disk'.entries[c] = disk.entries[c]
               \/ disk' = disk
               \/ c = e.id /\ disk'.entries[c].version = e.version
                  /\ disk.epoch = DiskEpoch(b.copy)
      BY <1>1, <1>6, <1>11, <1>14
  <2> QED
      BY <1>2, <1>3, <1>4, <1>8, <2>1, <2>3, <2>4, TransactionStep DEF e
<1> QED
    BY <1>7, <1>12, <1>13, <1>14

\* The transaction of a clear: what the tabs may still write is reckoned anew.
LEMMA ClearedStep ==
    ASSUME NEW t \in Tabs, NEW d \in TabState, CacheInv, setup' = setup,
           tab' = [tab EXCEPT ![t] = d], tab[t].job.kind = "clear", tab[t].read = "done",
           UNCHANGED <<restores, now, puts, barred, inBatch>>,
           disk' = Cleared(tab[t].job.id),
           diskBarred' = [u \in Tabs |->
                 [c \in Conversations |->
                    IF tab[t].job.id \notin {All, c} THEN IF u = t THEN 0 ELSE diskBarred[u][c]
                    ELSE IF u = t THEN tab[t].job.bar
                    ELSE IF HasRead(u) THEN Len(puts) ELSE diskBarred[u][c]]],
           SameContent(tab[t], d), SameQueue(tab[t], d), SameMarks(tab[t], d),
           SameScopes(tab[t], d), d.epoch = tab[t].epoch,
           d.job.kind = "clear", d.job.left = tab[t].job.left, d.job.epoch = tab[t].job.epoch,
           d.job.id = tab[t].job.id, d.job.bar = tab[t].job.bar,
           \/ d.job.stage = "failed" /\ d.job.committed = Nothing
           \/ d.job.stage = "applied" /\ d.job.committed = disk'
    PROVE  CacheInv'
<1> DEFINE b == tab[t]
           whom == b.job.id
           n == disk.epoch
<1>1. /\ b \in TabState /\ Coalesced(b) /\ JobInOrder(b)
      /\ TabFresh(t, b, barred[t], inBatch[t], puts, disk)
      /\ TabWrites(b, barred[t], diskBarred[t], inBatch[t], disk.epoch)
      /\ disk \in Scope /\ puts \in Seq(Tabs) /\ Len(puts) \in Nat /\ Len(puts) <= MaxPuts
      /\ restores \subseteq [tab : Tabs, id : Conversations, epoch : Nat]
      /\ barred[t] \in [Conversations -> 0..Len(puts)]
      /\ diskBarred[t] \in [Conversations -> 0..Len(puts)]
    BY OfTab
<1>2. /\ CacheTyped /\ QueueInv
      /\ barred \in [Tabs -> [Conversations -> 0..Len(puts)]]
      /\ inBatch \in [Tabs -> SUBSET Nat]
      /\ diskBarred \in [Tabs -> [Conversations -> 0..Len(puts)]]
    BY DEF CacheInv, CacheTyped, StateTyped, HistoryTyped
<1>3. n \in Nat /\ DOMAIN disk.entries = Conversations /\ disk.entries \in [Conversations -> Record \cup {Nothing}]
    BY <1>1 DEF Scope
<1>4. /\ disk' \in Scope /\ disk'.epoch = n + 1 /\ DOMAIN disk'.entries = Conversations
      /\ \A c \in Conversations :
            disk'.entries[c] = IF whom \in {All, c} THEN Nothing ELSE disk.entries[c]
    BY <1>3 DEF Cleared, Scope
<1>5. \A x \in Entry : x.id \in Conversations /\ x.version \in Nat /\ x.version > 0
    BY CacheAssumption DEF Entry
<1>6. b.job.left = <<>> /\ Elements(d.job.left) = {} /\ DOMAIN d.job.left = {}
  <2>1. b.job.left = <<>>
      BY <1>1 DEF JobInOrder
  <2> QED
      BY <2>1, EmptySeq DEF Elements
<1>7. Coalesced(d) /\ SameClears(b, d)
    BY <1>1 DEF Coalesced, Batches, SameQueue, SameContent, SameClears
<1>8. JobInOrder(d)
    BY <1>1 DEF JobInOrder, SameScopes
<1>9. \A c \in Conversations : disk'.entries[c] # Nothing => disk'.entries[c] = disk.entries[c]
    BY <1>4
<1>10. PutVersions(puts, disk) /\ Guarded(t, b, barred[t], inBatch[t], puts, disk)
    BY <1>1 DEF TabFresh, ScopesFresh, ScopesOf
<1>11. \A c : Marked(d, c) <=> Marked(b, c)
    BY DEF Marked, SameMarks
<1>12. PutVersions(puts, disk') /\ Guarded(t, d, barred[t], inBatch[t], puts, disk')
    BY <1>3, <1>4, <1>9, <1>10, <1>11 DEF PutVersions, Guarded
<1>13. TabFresh(t, d, barred[t], inBatch[t], puts, disk')
  <2>1. ASSUME NEW s \in ScopesOf(d, disk')
        PROVE  PutVersions(puts, s) /\ Guarded(t, d, barred[t], inBatch[t], puts, s)
    <3>1. s = disk' \/ s \in ScopesOf(b, disk)
        BY DEF ScopesOf, SameScopes
    <3>2. CASE s \in ScopesOf(b, disk)
        BY <1>1, <1>11, <3>2 DEF TabFresh, ScopesFresh, Guarded
    <3> QED
        BY <1>12, <3>1, <3>2
  <2>2. SavedIs(t, d, puts, disk') /\ SavedIs(t, d, puts, d.job.committed)
      BY DEF SavedIs
  <2>3. JobFresh(t, d, barred[t], inBatch[t], puts)
      BY <1>6 DEF JobFresh
  <2>4. MemoryFresh(t, d, barred[t], inBatch[t], puts) /\ PendingFresh(t, d, barred[t], puts)
      BY <1>1 DEF TabFresh, MemoryFresh, PendingFresh, SameContent
  <2> QED
      BY <2>1, <2>2, <2>3, <2>4 DEF TabFresh, ScopesFresh
<1>14. ClearsBounded(b, barred[t])
    BY <1>1 DEF TabWrites
<1>15. \A c \in Conversations : whom \in {All, c} => b.job.bar <= barred[t][c]
    BY <1>1, <1>14 DEF ClearsBounded
<1>16. b.job.bar \in Nat /\ d.pending = b.pending /\ b.pending \in Seq(Entry)
    BY <1>1 DEF TabState, Job, SameContent
<1>17. diskBarred' \in [Tabs -> [Conversations -> 0..Len(puts)]]
  <2>1. ASSUME NEW u \in Tabs, NEW c \in Conversations
        PROVE  (IF b.job.id \notin {All, c} THEN IF u = t THEN 0 ELSE diskBarred[u][c]
                ELSE IF u = t THEN b.job.bar
                ELSE IF HasRead(u) THEN Len(puts) ELSE diskBarred[u][c]) \in 0..Len(puts)
    <3>1. diskBarred[u][c] \in 0..Len(puts) /\ 0 \in 0..Len(puts) /\ Len(puts) \in 0..Len(puts)
        BY <1>1, <1>2
    <3>2. b.job.id \in {All, c} => b.job.bar \in 0..Len(puts)
        BY <1>1, <1>15, <1>16
    <3> QED
        BY <3>1, <3>2
  <2> QED
      BY <2>1
<1>18. \A u \in Tabs : \A c \in Conversations :
          diskBarred'[u][c] =
             IF whom \notin {All, c} THEN IF u = t THEN 0 ELSE diskBarred[u][c]
             ELSE IF u = t THEN b.job.bar
             ELSE IF HasRead(u) THEN Len(puts) ELSE diskBarred[u][c]
    OBVIOUS
<1>19. TabWrites(d, barred[t], diskBarred'[t], inBatch[t], n + 1)
  <2>1. ClearsBounded(d, barred[t])
      BY <1>14 DEF ClearsBounded, SameQueue
  <2>2. EpochsWithin(d, n + 1)
    <3>1. /\ DiskEpoch(b.copy) \in Nat /\ DiskEpoch(b.fetched) \in Nat
          /\ DiskEpoch(b.copy) <= n /\ DiskEpoch(b.fetched) <= n
      <4>1. b.copy \in Scope \cup {Nothing} /\ b.fetched \in Scope \cup {Nothing}
          BY <1>1 DEF TabState
      <4> QED
          BY <1>1, <4>1, EpochsTyped DEF TabWrites, EpochsWithin
    <3>2. DiskEpoch(d.job.committed) <= n + 1
        BY <1>3, <1>4 DEF DiskEpoch
    <3> QED
        BY <1>3, <3>1, <3>2 DEF EpochsWithin, SameScopes
  <2>3. MayWrite(d, diskBarred'[t], inBatch[t])
    <3> SUFFICES ASSUME NEW x \in Elements(b.pending)
                 PROVE  x.version > diskBarred'[t][x.id]
        BY <1>6, <1>16 DEF MayWrite
    <3>1. x \in Entry
        BY <1>16, ElementsAt
    <3>2. x.id \in Conversations /\ x.version \in Nat /\ x.version > 0
        BY <1>5, <3>1
    <3>3. x.version > barred[t][x.id]
        BY <1>1 DEF TabFresh, PendingFresh
    <3>4. CASE whom \in {All, x.id}
      <4>1. diskBarred'[t][x.id] = b.job.bar
          BY <1>18, <3>2, <3>4
      <4> QED
          BY <1>1, <1>15, <1>16, <3>2, <3>3, <3>4, <4>1
    <3>5. CASE whom \notin {All, x.id}
      <4>1. diskBarred'[t][x.id] = 0
          BY <1>18, <3>2, <3>5
      <4> QED
          BY <3>2, <4>1
    <3> QED
        BY <3>4, <3>5
  <2>4. d.read = "done"
      BY DEF SameScopes
  <2> QED
      BY <2>1, <2>2, <2>3, <2>4 DEF TabWrites
<1>20. NoStaleWrite'
  <2> SUFFICES ASSUME NEW c \in Conversations, disk'.entries[c] # Nothing
               PROVE  LET v == disk'.entries[c].version
                      IN  v > diskBarred'[puts[v]][c] \/ v \in inBatch[puts[v]]
      BY SameTypes DEF NoStaleWrite
  <2>1. disk'.entries[c] = disk.entries[c] /\ whom \notin {All, c}
      BY <1>4
  <2> DEFINE v == disk.entries[c].version
  <2>2. disk.entries[c] \in Record
      BY <1>3, <2>1
  <2>3. v \in Nat /\ v > 0
      BY <2>2, CacheAssumption DEF Record
  <2>4. v \in DOMAIN puts
      BY <1>3, <1>10, <2>1 DEF PutVersions
  <2>5. puts[v] \in Tabs
      BY <1>1, <2>4
  <2>6. v > diskBarred[puts[v]][c] \/ v \in inBatch[puts[v]]
      BY <2>1 DEF CacheInv, WritesInv, NoStaleWrite
  <2>7. diskBarred'[puts[v]][c] = IF puts[v] = t THEN 0 ELSE diskBarred[puts[v]][c]
      BY <1>18, <2>1, <2>5
  <2> HIDE DEF v
  <2>8. v > diskBarred'[puts[v]][c] \/ v \in inBatch[puts[v]]
      BY <2>3, <2>6, <2>7
  <2> QED
      BY <2>1, <2>8 DEF v
<1>21. ASSUME NEW u \in Tabs, u # t
       PROVE  /\ TabFresh(u, tab[u], barred[u], inBatch[u], puts, disk')
              /\ TabWrites(tab[u], barred[u], diskBarred'[u], inBatch[u], n + 1)
  <2> DEFINE a == tab[u]
  <2>1. /\ a \in TabState /\ JobInOrder(a)
        /\ TabFresh(u, a, barred[u], inBatch[u], puts, disk)
        /\ TabWrites(a, barred[u], diskBarred[u], inBatch[u], n)
        /\ diskBarred[u] \in [Conversations -> 0..Len(puts)]
      BY OfTab
  <2>2. TabFresh(u, a, barred[u], inBatch[u], puts, disk')
      BY <1>1, <1>4, <1>9, <2>1, ScopeChanges
  <2>3. /\ DiskEpoch(a.copy) \in Nat /\ DiskEpoch(a.fetched) \in Nat
        /\ DiskEpoch(a.job.committed) \in Nat
    <3>1. /\ a.copy \in Scope \cup {Nothing} /\ a.fetched \in Scope \cup {Nothing}
          /\ a.job.committed \in Scope \cup {Nothing}
        BY <2>1 DEF TabState, Job
    <3> QED
        BY <3>1, EpochsTyped
  <2>4. /\ DiskEpoch(a.copy) < n + 1 /\ DiskEpoch(a.fetched) < n + 1
        /\ DiskEpoch(a.job.committed) < n + 1
      BY <1>3, <2>1, <2>3 DEF TabWrites, EpochsWithin
  <2>5. EpochsWithin(a, n + 1)
      BY <1>3, <2>3, <2>4 DEF EpochsWithin
  <2>6. CASE HasRead(u)
    <3>1. Outdated(a, n + 1) /\ a.read \notin {"none", "asked"}
        BY <2>4, <2>6 DEF HasRead, Outdated
    <3> QED
        BY <2>1, <2>2, <2>5, <3>1 DEF TabWrites
  <2>7. CASE ~HasRead(u)
    <3>1. a.read \in {"none", "asked"}
        BY <2>1, <2>7 DEF HasRead, TabState
    <3>2. \A c \in Conversations : diskBarred[u][c] = 0
        BY <2>1, <3>1 DEF TabWrites
    <3>3. \A c \in Conversations : diskBarred'[u][c] = 0
        BY <1>18, <1>21, <2>7, <3>2
    <3>4. a.pending \in Seq(Entry) /\ a.job.left \in Seq(Entry)
        BY <2>1 DEF TabState, Job
    <3>5. Elements(a.pending) \cup Elements(a.job.left) \subseteq Entry
        BY <3>4, ElementsAt
    <3>6. MayWrite(a, diskBarred'[u], inBatch[u])
        BY <1>5, <3>3, <3>5 DEF MayWrite
    <3>7. \A c \in DOMAIN diskBarred'[u] : diskBarred'[u][c] = 0
        BY <1>17, <3>3
    <3> QED
        BY <2>1, <2>2, <2>5, <3>6, <3>7 DEF TabWrites
  <2> QED
      BY <2>6, <2>7
<1>22. /\ restores' \subseteq [tab : Tabs, id : Conversations, epoch : Nat] /\ now' = now
       /\ puts' \in Seq(Tabs) /\ Len(puts') <= MaxPuts
       /\ barred' \in [Tabs -> [Conversations -> 0..Len(puts')]]
       /\ inBatch' \in [Tabs -> SUBSET Nat]
       /\ diskBarred' \in [Tabs -> [Conversations -> 0..Len(puts')]]
    BY <1>1, <1>2, <1>17
<1>23. /\ TabFresh(t, d, barred'[t], inBatch'[t], puts', disk')
       /\ TabWrites(d, barred'[t], diskBarred'[t], inBatch'[t], disk'.epoch)
       /\ \A u \in Tabs : u # t =>
             /\ TabFresh(u, tab[u], barred'[u], inBatch'[u], puts', disk')
             /\ TabWrites(tab[u], barred'[u], diskBarred'[u], inBatch'[u], disk'.epoch)
    BY <1>4, <1>13, <1>19, <1>21
<1> QED
    BY <1>2, <1>4, <1>7, <1>8, <1>20, <1>22, <1>23, TabStep

\* The transaction of a clear fails, and nothing was written.
LEMMA ClearFails ==
    ASSUME NEW t \in Tabs, NEW d \in TabState, CacheInv, setup' = setup,
           tab' = [tab EXCEPT ![t] = d], tab[t].job.kind = "clear", tab[t].read = "done",
           UNCHANGED <<disk, restores, now, puts, barred, inBatch, diskBarred>>,
           SameContent(tab[t], d), SameQueue(tab[t], d), SameMarks(tab[t], d),
           SameScopes(tab[t], d), d.epoch = tab[t].epoch,
           d.job.kind = "clear", d.job.left = tab[t].job.left, d.job.epoch = tab[t].job.epoch,
           d.job.id = tab[t].job.id, d.job.bar = tab[t].job.bar,
           d.job.stage = "failed", d.job.committed = Nothing, tab[t].job.committed = Nothing
    PROVE  CacheInv'
<1> DEFINE b == tab[t]
<1>1. /\ b \in TabState /\ Coalesced(b) /\ JobInOrder(b)
      /\ TabFresh(t, b, barred[t], inBatch[t], puts, disk)
      /\ TabWrites(b, barred[t], diskBarred[t], inBatch[t], disk.epoch)
      /\ restores \subseteq [tab : Tabs, id : Conversations, epoch : Nat]
    BY OfTab
<1>2. Coalesced(d)
    BY <1>1 DEF Coalesced, Batches, SameQueue, SameContent
<1>3. JobInOrder(d)
    BY <1>1 DEF JobInOrder, SameScopes
<1>4. \A c : Marked(d, c) <=> Marked(b, c)
    BY DEF Marked, SameMarks
<1>5. TabFresh(t, d, barred[t], inBatch[t], puts, disk)
  <2>1. ScopesOf(d, disk) = ScopesOf(b, disk)
      BY DEF ScopesOf, SameScopes
  <2>2. \A s \in ScopesOf(d, disk) : PutVersions(puts, s)
                                     /\ Guarded(t, d, barred[t], inBatch[t], puts, s)
      BY <1>1, <1>4, <2>1 DEF TabFresh, ScopesFresh, Guarded
  <2>3. SavedIs(t, d, puts, disk) /\ SavedIs(t, d, puts, d.job.committed)
      BY DEF SavedIs
  <2>4. JobFresh(t, d, barred[t], inBatch[t], puts)
      BY <1>1, <1>4 DEF TabFresh, JobFresh
  <2>5. MemoryFresh(t, d, barred[t], inBatch[t], puts) /\ PendingFresh(t, d, barred[t], puts)
      BY <1>1 DEF TabFresh, MemoryFresh, PendingFresh, SameContent
  <2> QED
      BY <2>2, <2>3, <2>4, <2>5 DEF TabFresh, ScopesFresh
<1>6. TabWrites(d, barred[t], diskBarred[t], inBatch[t], disk.epoch)
  <2>1. ClearsBounded(d, barred[t])
      BY <1>1 DEF TabWrites, ClearsBounded, SameQueue
  <2>2. EpochsWithin(d, disk.epoch) /\ (Outdated(b, disk.epoch) => Outdated(d, disk.epoch))
      BY <1>1 DEF TabWrites, EpochsWithin, Outdated, SameScopes
  <2>3. MayWrite(b, diskBarred[t], inBatch[t]) => MayWrite(d, diskBarred[t], inBatch[t])
      BY DEF MayWrite, SameContent
  <2> QED
      BY <1>1, <2>1, <2>2, <2>3 DEF TabWrites, SameScopes
<1>7. restores' \subseteq [tab : Tabs, id : Conversations, epoch : Nat]
    BY <1>1
<1> QED
    BY <1>2, <1>3, <1>5, <1>6, <1>7, LocalStep

LEMMA ClearAppliesStep ==
    ASSUME CacheInv, setup' = setup, NEW t \in Tabs, ClearApplies(t)
    PROVE  CacheInv'
<1> DEFINE b == tab[t]
           d == tab'[t]
           next == Cleared(b.job.id)
           bars == [u \in Tabs |->
                 [c \in Conversations |->
                    IF b.job.id \notin {All, c} THEN IF u = t THEN 0 ELSE diskBarred[u][c]
                    ELSE IF u = t THEN b.job.bar
                    ELSE IF HasRead(u) THEN Len(puts) ELSE diskBarred[u][c]]]
<1>1. b \in TabState /\ JobInOrder(b) /\ disk \in Scope /\ tab \in [Tabs -> TabState]
    BY OfTab DEF CacheInv, CacheTyped, StateTyped
<1>2. /\ b.job.kind = "clear" /\ b.job.stage = "waiting" /\ b.read = "done"
      /\ UNCHANGED <<restores, now, puts, barred, inBatch>>
    BY DEF ClearApplies
<1>3. b.job \in Job /\ b.job.committed = Nothing
    BY <1>1, <1>2 DEF JobInOrder, TabState
<1>4. \/ /\ disk' = next /\ diskBarred' = bars
         /\ d = [b EXCEPT !.job = [b.job EXCEPT !.stage = "applied", !.committed = next]]
      \/ /\ (disk' = next /\ diskBarred' = bars) \/ UNCHANGED <<disk, diskBarred>>
         /\ d = [b EXCEPT !.job = [b.job EXCEPT !.stage = "failed"]]
    BY <1>1 DEF ClearApplies
<1>5. tab' = [tab EXCEPT ![t] = d]
    BY <1>1 DEF ClearApplies
<1>6. next \in Scope
    BY <1>1 DEF Cleared, Scope
<1> HIDE DEF d, next
<1>7. ASSUME NEW j \in Job, d = [b EXCEPT !.job = j]
      PROVE  /\ d \in TabState /\ d.job = j /\ d.epoch = b.epoch
             /\ SameContent(b, d) /\ SameQueue(b, d) /\ SameMarks(b, d) /\ SameScopes(b, d)
  <2>1. d \in TabState
      BY <1>1, <1>7 DEF TabState
  <2> QED
      BY <1>1, <1>7, <2>1 DEF TabState, SameContent, SameQueue, SameMarks, SameScopes
<1>8. CASE /\ disk' = next /\ diskBarred' = bars
           /\ d = [b EXCEPT !.job = [b.job EXCEPT !.stage = "applied", !.committed = next]]
  <2> DEFINE j == [b.job EXCEPT !.stage = "applied", !.committed = next]
  <2>1. /\ j \in Job /\ j.kind = b.job.kind /\ j.left = b.job.left /\ j.epoch = b.job.epoch
        /\ j.id = b.job.id /\ j.bar = b.job.bar
        /\ j.stage = "applied" /\ j.committed = next
      BY <1>3, <1>6 DEF Job
  <2>2. d = [b EXCEPT !.job = j]
      BY <1>8
  <2> HIDE DEF j
  <2>3. /\ d \in TabState /\ d.job = j /\ d.epoch = b.epoch
        /\ SameContent(b, d) /\ SameQueue(b, d) /\ SameMarks(b, d) /\ SameScopes(b, d)
      BY <1>7, <2>1, <2>2
  <2> QED
      BY <1>2, <1>5, <1>8, <2>1, <2>3, ClearedStep DEF next
<1>9. CASE /\ (disk' = next /\ diskBarred' = bars) \/ UNCHANGED <<disk, diskBarred>>
           /\ d = [b EXCEPT !.job = [b.job EXCEPT !.stage = "failed"]]
  <2> DEFINE j == [b.job EXCEPT !.stage = "failed"]
  <2>1. /\ j \in Job /\ j.kind = b.job.kind /\ j.left = b.job.left /\ j.epoch = b.job.epoch
        /\ j.id = b.job.id /\ j.bar = b.job.bar
        /\ j.stage = "failed" /\ j.committed = Nothing
      BY <1>3 DEF Job
  <2>2. d = [b EXCEPT !.job = j]
      BY <1>9
  <2> HIDE DEF j
  <2>3. /\ d \in TabState /\ d.job = j /\ d.epoch = b.epoch
        /\ SameContent(b, d) /\ SameQueue(b, d) /\ SameMarks(b, d) /\ SameScopes(b, d)
      BY <1>7, <2>1, <2>2
  <2>4. CASE disk' = next /\ diskBarred' = bars
      BY <1>2, <1>5, <2>1, <2>3, <2>4, ClearedStep DEF next
  <2>5. CASE UNCHANGED <<disk, diskBarred>>
      BY <1>2, <1>3, <1>5, <2>1, <2>3, <2>5, ClearFails
  <2> QED
      BY <1>9, <2>4, <2>5
<1> QED
    BY <1>4, <1>8, <1>9

-----------------------------------------------------------------------------
(* The invariant holds throughout.                                          *)

\* Nothing but the clock moves.
LEMMA ClockStep ==
    ASSUME CacheInv, now' \in 0..MaxTime,
           UNCHANGED <<setup, disk, tab, restores, puts, barred, inBatch, diskBarred>>
    PROVE  CacheInv'
<1>1. /\ Tabs' = Tabs /\ Conversations' = Conversations /\ MaxTime' = MaxTime
      /\ Scope' = Scope /\ TabState' = TabState
    BY SameTypes
<1>2. StateTyped'
    BY <1>1 DEF CacheInv, CacheTyped, StateTyped
<1>3. HistoryTyped'
    BY <1>1 DEF CacheInv, CacheTyped, HistoryTyped
<1>4. QueueInv'
    BY <1>1 DEF CacheInv, QueueInv
<1>5. FreshInv'
    BY <1>1 DEF CacheInv, FreshInv
<1>6. WritesInv'
    BY <1>1 DEF CacheInv, WritesInv, NoStaleWrite
<1> QED
    BY <1>2, <1>3, <1>4, <1>5, <1>6 DEF CacheInv, CacheTyped

LEMMA TickStep ==
    ASSUME CacheInv, setup' = setup, Tick
    PROVE  CacheInv'
<1>1. now \in 0..MaxTime /\ now < MaxTime /\ now' = now + 1 /\ MaxTime \in Nat
    BY CacheAssumption DEF CacheInv, CacheTyped, StateTyped, Tick, MaxTime
<1>2. now' \in 0..MaxTime
    BY <1>1
<1> QED
    BY <1>2, ClockStep DEF Tick

LEMMA EveryStep ==
    ASSUME CacheInv, CacheNext
    PROVE  CacheInv'
<1>1. setup' = setup /\ Steps
    BY DEF CacheNext
<1>2. ASSUME NEW t \in Tabs, NEW c \in Conversations,
             Put(t, c) \/ UpdateDraft(t, c) \/ SetUnavailableAttachments(t, c)
                \/ Peek(t, c) \/ RestoreEntry(t, c)
      PROVE  CacheInv'
    BY <1>1, <1>2, PutStep, UpdateDraftStep, UnavailableStep, PeekStep, RestoreEntryStep
<1>3. ASSUME NEW t \in Tabs, Progress(t) PROVE CacheInv'
    BY <1>1, <1>3, ReadHappensStep, ReadSettlesStep, BeginWriteStep, SaveAppliesStep,
       SaveSettlesStep, ClearAppliesStep, ClearSettlesStep DEF Progress
<1>4. ASSUME NEW t \in Tabs, NEW whom \in Conversations \cup {All}, ClearCache(t, whom)
      PROVE  CacheInv'
    BY <1>1, <1>4, ClearCacheStep
<1>5. ASSUME NEW t \in Tabs, CloseCache(t) PROVE CacheInv'
    BY <1>1, <1>5, CloseCacheStep
<1>6. ASSUME NEW r \in restores, RestoreSettles(r) PROVE CacheInv'
    BY <1>1, <1>6, RestoreSettlesStep
<1>7. CASE Tick
    BY <1>1, <1>7, TickStep
<1> QED
    BY <1>1, <1>2, <1>3, <1>4, <1>5, <1>6, <1>7 DEF Steps

LEMMA NoStep ==
    ASSUME CacheInv, UNCHANGED cacheVars
    PROVE  CacheInv'
<1>1. now' \in 0..MaxTime
    BY DEF CacheInv, CacheTyped, StateTyped, cacheVars
<1> QED
    BY <1>1, ClockStep DEF cacheVars

LEMMA InitHolds == CacheInit => CacheInv
<1> SUFFICES ASSUME CacheInit PROVE CacheInv
    OBVIOUS
<1>1. setup \in Setups /\ MaxTime \in Nat
    BY CacheAssumption DEF CacheInit, MaxTime
<1>2. disk \in Scope /\ disk.epoch = 0 /\ \A c \in Conversations : disk.entries[c] = Nothing
    BY DEF CacheInit, EmptyDisk, Scope
<1>3. <<>> \in Seq(Entry) /\ <<>> \in Seq(WriteOp) /\ <<>> \in Seq(Tabs)
      /\ DOMAIN <<>> = {} /\ Len(<<>>) = 0 /\ Elements(<<>>) = {}
    BY EmptySeq DEF Elements
<1>4. [c \in Conversations |-> 0] \in [Conversations -> Nat]
    OBVIOUS
<1>5. /\ NoJob \in Job /\ NoJob.kind = "none" /\ NoJob.left = <<>>
      /\ NoJob.committed = Nothing /\ NoJob.stage = "idle" /\ NoJob.epoch = 0
    BY NoJobTyped
<1>6. ASSUME NEW t \in Tabs
      PROVE  /\ tab[t] \in TabState
             /\ tab[t].memory = <<>> /\ tab[t].pending = <<>> /\ tab[t].saveScheduled = FALSE
             /\ tab[t].epoch = 0 /\ tab[t].copy = Nothing /\ tab[t].fetched = Nothing
             /\ tab[t].writes = <<>> /\ tab[t].job = NoJob /\ tab[t].read = "none"
    BY <1>3, <1>4, <1>5 DEF CacheInit, TabState
<1>14. ASSUME NEW t \in Tabs
      PROVE  /\ tab[t].job.epoch = 0 /\ tab[t].job.committed = Nothing /\ tab[t].job.left = <<>>
             /\ tab[t].job.kind = "none" /\ tab[t].job.stage = "idle"
    BY <1>5, <1>6
<1>7. tab \in [Tabs -> TabState]
  <2>1. tab = [t \in Tabs |-> tab[t]]
      BY DEF CacheInit
  <2> QED
      BY <1>6, <2>1
<1>8. StateTyped
  <2>1. restores = {} /\ now = 0
      BY DEF CacheInit
  <2> QED
      BY <1>1, <1>2, <1>7, <2>1 DEF StateTyped
<1>9. HistoryTyped
    BY <1>3, CacheAssumption DEF CacheInit, HistoryTyped
<1>10. QueueInv
  <2> SUFFICES ASSUME NEW t \in Tabs PROVE Coalesced(tab[t]) /\ JobInOrder(tab[t])
      BY DEF QueueInv
  <2>1. Batches(tab[t]) = {}
      BY <1>3, <1>6 DEF Batches
  <2>2. Coalesced(tab[t])
      BY <1>5, <1>6, <2>1 DEF Coalesced
  <2>3. tab[t].job.epoch <= tab[t].epoch
    <3>1. tab[t].job.epoch = 0 /\ tab[t].epoch = 0
        BY <1>6, <1>14
    <3> QED
        BY <3>1
  <2>4. JobInOrder(tab[t])
      BY <1>6, <1>14, <2>3 DEF JobInOrder
  <2> QED
      BY <2>2, <2>4
<1>11. ASSUME NEW t \in Tabs
       PROVE  TabFresh(t, tab[t], barred[t], inBatch[t], puts, disk)
  <2>1. /\ MemoryFresh(t, tab[t], barred[t], inBatch[t], puts)
        /\ PendingFresh(t, tab[t], barred[t], puts)
      BY <1>3, <1>6 DEF MemoryFresh, PendingFresh
  <2>2. JobFresh(t, tab[t], barred[t], inBatch[t], puts)
      BY <1>3, <1>5, <1>6 DEF JobFresh
  <2>3. ScopesOf(tab[t], disk) = {disk} /\ DOMAIN disk.entries = Conversations
      BY <1>2, <1>5, <1>6 DEF ScopesOf, Scope
  <2>4. ScopesFresh(t, tab[t], barred[t], inBatch[t], puts, disk)
      BY <1>2, <1>5, <1>6, <2>3 DEF ScopesFresh, PutVersions, Guarded, SavedIs
  <2> QED
      BY <2>1, <2>2, <2>4 DEF TabFresh
<1>12. ASSUME NEW t \in Tabs
       PROVE  TabWrites(tab[t], barred[t], diskBarred[t], inBatch[t], disk.epoch)
  <2>1. ClearsBounded(tab[t], barred[t])
      BY <1>3, <1>5, <1>6 DEF ClearsBounded
  <2>2. EpochsWithin(tab[t], disk.epoch)
    <3>1. DiskEpoch(Nothing) = 0
        BY DEF DiskEpoch
    <3> QED
      <4>1. /\ tab[t].copy = Nothing /\ tab[t].fetched = Nothing
            /\ tab[t].job.committed = Nothing
          BY <1>6, <1>14
      <4> QED
          BY <1>2, <3>1, <4>1 DEF EpochsWithin
  <2>3. \A c \in DOMAIN diskBarred[t] : diskBarred[t][c] = 0
      BY DEF CacheInit
  <2>4. MayWrite(tab[t], diskBarred[t], inBatch[t])
      BY <1>3, <1>5, <1>6 DEF MayWrite
  <2> QED
      BY <2>1, <2>2, <2>3, <2>4 DEF TabWrites
<1>13. WritesInv
    BY <1>2, <1>12 DEF WritesInv, NoStaleWrite
<1> QED
    BY <1>8, <1>9, <1>10, <1>11, <1>13 DEF CacheInv, CacheTyped, FreshInv

LEMMA Inductive == CacheSpec => []CacheInv
<1>1. CacheInv /\ [CacheNext]_cacheVars => CacheInv'
    BY EveryStep, NoStep
<1> QED
    BY <1>1, InitHolds, PTL DEF CacheSpec

-----------------------------------------------------------------------------

\* The coalescing of saves forgets none: while something waits to be saved, a
\* batch that will take it is queued or its predecessor runs (put, #scheduleSaves
\* and its `finally`).
THEOREM SavesAreNotForgotten == CacheSpec => []NoSaveForgotten
<1>1. CacheInv => NoSaveForgotten
    BY DEF CacheInv, QueueInv, NoSaveForgotten, Coalesced, Batches
<1> QED
    BY <1>1, Inductive, PTL

\* What was cleared stays cleared: a put of the tab from before the clear neither
\* comes back into its memory nor is written to the disk again, whatever saves,
\* reads and failures were under way (#clearedIds and #savedAfterClear in restore
\* and #save, the epochs and revisions of the transactions).
THEOREM ClearsStay == CacheSpec => []ClearedStaysCleared
<1>1. CacheInv => ClearIsFinalOutsideBatches
    BY DEF CacheInv, FreshInv, TabFresh, MemoryFresh, Fresh, ClearIsFinalOutsideBatches,
           OwnEntries, Elements
<1>2. CacheInv => NoStaleWrite
    BY DEF CacheInv, WritesInv
<1>3. CacheInv => ClearedStaysCleared
    BY <1>1, <1>2 DEF ClearedStaysCleared
<1> QED
    BY <1>3, Inductive, PTL
=============================================================================
