------------------------- MODULE ConversationCache -------------------------
(***************************************************************************)
(* The conversation cache of chat clients that share one scope of the      *)
(* host's storage (chat-runtime/src/conversation-cache.ts): two tabs, or a *)
(* page and its successor after a restart.                                 *)
(*                                                                         *)
(* A tab keeps a bounded memory of conversations and writes them behind:   *)
(* puts are coalesced into `pending`, a batch of them is one operation of  *)
(* the tab's write queue, and every save is a transaction on the scope     *)
(* that commits only against the epoch and the revision the tab knows.     *)
(* Clearing forgets at once and queues a transaction of its own.  Storage  *)
(* answers when it likes, and may fail before or after it has applied a    *)
(* transaction.                                                            *)
(*                                                                         *)
(* The content of a conversation is the number of the put that made it.    *)
(* #versions and #diskEpoch are always the revisions and the epoch of      *)
(* #disk, so only `copy` (#disk) is kept.  Of the three limits (items,     *)
(* bytes, conversations) the number of conversations stands for all.       *)
(***************************************************************************)
EXTENDS Integers, Sequences, FiniteSets

CONSTANTS
    Nothing,
    All,                \* a clear of the whole scope
    Setups,             \* the settings in which the cache is used: the tabs, the
                        \* conversations, whether storage may fail, whether tabs
                        \* are closed, #maxConversations, the bound on the clock
    ExpireAfter,        \* #expireAfterMs, in ticks
    MaxPuts,            \* bound on the puts of all tabs
    MaxClears           \* bound on the clears of all tabs

ASSUME CacheAssumption ==
    /\ \A s \in Setups :
         /\ {Nothing, All} \cap s.conversations = {}
         /\ {s.failures, s.closes} \subseteq BOOLEAN
         /\ s.maxConversations \in Nat \ {0}
         /\ s.maxTime \in Nat
    /\ ExpireAfter \in Nat \ {0}
    /\ {MaxPuts, MaxClears} \subseteq Nat

VARIABLES
    setup,      \* the setting of this behaviour, which never changes
    disk,       \* the scope in host storage
    tab,        \* the fields of each tab's cache
    restores,   \* calls of restore that wait for the disk to be read
    now,
    \* history
    puts,       \* the tabs that made the puts, in order: put v is puts[v]'s
    clears,     \* the number of clears so far
    barred,     \* per tab and conversation: the puts before its last clear
    inBatch,    \* per tab: puts that waited in a running batch when cleared
    diskBarred  \* per tab and conversation: the puts it may not write any more,
                \* because it, or another tab after it had read the scope, cleared

cacheVars == <<setup, disk, tab, restores, now, puts, clears, barred, inBatch, diskBarred>>

Tabs == setup.tabs
Conversations == setup.conversations
Failures == setup.failures
MaxConversations == setup.maxConversations
MaxTime == setup.maxTime

-----------------------------------------------------------------------------
(* Values.                                                                 *)

Entry == [id : Conversations, version : 1..MaxPuts, savedAt : 0..MaxTime]

Record == [version : 1..MaxPuts, savedAt : 0..MaxTime, revision : Nat \ {0}]

Scope == [epoch : Nat, entries : [Conversations -> Record \cup {Nothing}]]

EmptyDisk == [epoch |-> 0, entries |-> [c \in Conversations |-> Nothing]]

Ids(s) == {s[i].id : i \in DOMAIN s}

Lookup(s, c) == CHOOSE e \in {s[i] : i \in DOMAIN s} : e.id = c

\* The k-th of the indices K.
Nth(K, k) == CHOOSE i \in K : Cardinality({j \in K : j <= i}) = k

\* Map.delete of the keys C: the others keep their order.
Without(s, C) ==
    LET kept == {i \in DOMAIN s : s[i].id \notin C}
    IN  [k \in 1..Cardinality(kept) |-> s[Nth(kept, k)]]

\* Map.set: an existing key keeps its place.
SetIn(s, e) ==
    IF e.id \in Ids(s)
    THEN [i \in DOMAIN s |-> IF s[i].id = e.id THEN e ELSE s[i]]
    ELSE Append(s, e)

Expired(savedAt) == now - savedAt >= ExpireAfter

Revision(scope, c) ==
    IF scope = Nothing \/ scope.entries[c] = Nothing THEN 0 ELSE scope.entries[c].revision

DiskEpoch(scope) == IF scope = Nothing THEN 0 ELSE scope.epoch

EpochFor(b, c) == IF b.scopeEpoch > b.epochs[c] THEN b.scopeEpoch ELSE b.epochs[c]

\* The conversations that make room, the least recently used first.
Evicted(memory, active) ==
    LET others == Without(memory, {active})
    IN  {others[i].id : i \in 1..(Len(memory) - MaxConversations)}

-----------------------------------------------------------------------------
(* What an operation makes of a tab's fields.                              *)

NoJob == [kind |-> "none", left |-> <<>>, id |-> All, epoch |-> 0,
          stage |-> "idle", committed |-> Nothing, bar |-> 0]

Scheduled(b) ==
    IF b.saveScheduled \/ b.pending = <<>> THEN b
    ELSE [b EXCEPT !.saveScheduled = TRUE,
                   !.writes = Append(@, [kind |-> "batch", id |-> All, bar |-> 0])]

Trimmed(b, active) ==
    LET out == Evicted(b.memory, active)
    IN  [b EXCEPT !.memory = Without(@, out), !.pending = Without(@, out)]

Asking(b) == [b EXCEPT !.read = IF @ = "none" THEN "asked" ELSE @]

\* Faulty: without the `finally`.
BatchEndsSilently(b) == [b EXCEPT !.job = NoJob, !.saveScheduled = FALSE]

\* The end of a batch: what was put meanwhile becomes the next one.
BatchEnds(b) == Scheduled([b EXCEPT !.job = NoJob, !.saveScheduled = FALSE])

BatchGoesOn(b) ==
    IF Len(b.job.left) = 1 THEN BatchEnds(b)
    ELSE [b EXCEPT !.job = [@ EXCEPT !.left = Tail(b.job.left), !.epoch = b.epoch,
                                     !.stage = "waiting", !.committed = Nothing]]

-----------------------------------------------------------------------------
(* Calls of the client.                                                    *)

PutEntry(t, e) ==
    LET b == tab[t]
    IN  tab' = [tab EXCEPT ![t] =
            LET stored == [b EXCEPT !.memory = Append(Without(@, {e.id}), e),
                                    !.expired = @ \ {e.id}]
                kept == Trimmed(stored, e.id)
            IN  Scheduled([kept EXCEPT !.pending = SetIn(@, e)])]

\* A snapshot over the limits is dropped from memory; a save of an earlier one
\* that is still pending stays.
PutTooLarge(t, c) ==
    tab' = [tab EXCEPT ![t].memory = Without(@, {c})]

Put(t, c) ==
    /\ Len(puts) < MaxPuts
    /\ ~tab[t].closed
    /\ puts' = Append(puts, t)
    /\ \/ PutEntry(t, [id |-> c, version |-> Len(puts) + 1, savedAt |-> now])
       \/ c \in Ids(tab[t].memory) /\ PutTooLarge(t, c)
    /\ UNCHANGED <<disk, restores, now, clears, barred, inBatch, diskBarred>>

\* A draft changes the entry and keeps the time at which it was saved.
UpdateDraft(t, c) ==
    /\ Len(puts) < MaxPuts
    /\ c \in Ids(tab[t].memory)
    /\ ~tab[t].closed
    /\ puts' = Append(puts, t)
    /\ PutEntry(t, [Lookup(tab[t].memory, c) EXCEPT !.version = Len(puts) + 1])
    /\ UNCHANGED <<disk, restores, now, clears, barred, inBatch, diskBarred>>

SetUnavailableAttachments(t, c) ==
    /\ Len(puts) < MaxPuts
    /\ c \in Ids(tab[t].memory)
    /\ puts' = Append(puts, t)
    /\ LET b == tab[t]
           e == [Lookup(b.memory, c) EXCEPT !.version = Len(puts) + 1]
       IN  tab' = [tab EXCEPT ![t] = Scheduled([b EXCEPT !.memory = SetIn(@, e),
                                                         !.pending = SetIn(@, e)])]
    /\ UNCHANGED <<disk, restores, now, clears, barred, inBatch, diskBarred>>

Peek(t, c) ==
    /\ c \in Ids(tab[t].memory)
    /\ LET b == tab[t]
           e == Lookup(b.memory, c)
           rest == Without(b.memory, {c})
       IN  tab' = [tab EXCEPT ![t] =
               IF Expired(e.savedAt)
               THEN [b EXCEPT !.memory = rest, !.expired = @ \cup {c}]
               ELSE [b EXCEPT !.memory = Append(rest, e)]]
    /\ UNCHANGED <<disk, restores, now, puts, clears, barred, inBatch, diskBarred>>

\* The client asks for a restoration of what it does not find in memory.
RestoreEntry(t, c) ==
    /\ c \notin Ids(tab[t].memory)
    /\ ~tab[t].closed
    /\ \A r \in restores : r.tab # t
    /\ restores' = restores \cup
                     {[tab |-> t, id |-> c, epoch |-> EpochFor(tab[t], c)]}
    /\ tab' = [tab EXCEPT ![t] = Asking(@)]
    /\ UNCHANGED <<disk, now, puts, clears, barred, inBatch, diskBarred>>

\* restore, after its await.
Restorable(r) ==
    LET b == tab[r.tab]
    IN  /\ ~b.closed
        /\ r.epoch = EpochFor(b, r.id)
        /\ ~(b.clearedAll /\ r.id \notin b.savedAfterClear)
        /\ r.id \notin b.clearedIds
        /\ b.copy # Nothing
        /\ b.copy.entries[r.id] # Nothing

RestoreSettles(r) ==
    /\ tab[r.tab].read = "done"
    /\ restores' = restores \ {r}
    /\ LET b == tab[r.tab]
           record == b.copy.entries[r.id]
           e == [id |-> r.id, version |-> record.version, savedAt |-> record.savedAt]
       IN  tab' = [tab EXCEPT ![r.tab] =
               IF ~Restorable(r) THEN b
               ELSE IF Expired(record.savedAt) THEN [b EXCEPT !.expired = @ \cup {r.id}]
               ELSE Trimmed([b EXCEPT !.memory = SetIn(@, e)], r.id)]
    /\ UNCHANGED <<disk, now, puts, clears, barred, inBatch, diskBarred>>

\* clear, up to its await: whom = All or one conversation.
Forgotten(b, whom) ==
    LET e == b.epoch + 1
        gone == IF whom = All THEN Conversations ELSE {whom}
        common == [b EXCEPT !.epoch = e,
                            !.memory = Without(@, gone),
                            !.pending = Without(@, gone),
                            !.savedAfterClear = @ \ gone,
                            !.writes = Append(@, [kind |-> "clear", id |-> whom,
                                                   bar |-> Len(puts)])]
    IN  IF whom = All
        THEN [common EXCEPT !.scopeEpoch = e, !.clearedAll = TRUE,
                            !.epochs = [c \in Conversations |-> 0]]
        ELSE [common EXCEPT !.epochs[whom] = e, !.clearedIds = @ \cup {whom}]

ClearCache(t, whom) ==
    /\ clears < MaxClears
    /\ clears' = clears + 1
    /\ tab' = [tab EXCEPT ![t] = Forgotten(@, whom)]
    /\ barred' = [barred EXCEPT ![t] =
                    [c \in Conversations |-> IF whom \in {All, c} THEN Len(puts) ELSE @[c]]]
    /\ inBatch' = [inBatch EXCEPT ![t] = @ \cup
                     {tab[t].job.left[i].version : i \in 2..Len(tab[t].job.left)}]
    /\ UNCHANGED <<disk, restores, now, puts, diskBarred>>

CloseCache(t) ==
    /\ setup.closes /\ ~tab[t].closed
    /\ tab' = [tab EXCEPT ![t].closed = TRUE, ![t].epoch = @ + 1, ![t].memory = <<>>]
    /\ UNCHANGED <<disk, restores, now, puts, clears, barred, inBatch, diskBarred>>

-----------------------------------------------------------------------------
(* Reading the scope, once in the life of a tab.                           *)

ReadHappens(t) ==
    /\ tab[t].read = "asked"
    /\ tab' = [tab EXCEPT ![t].read = "fetched", ![t].fetched = disk]
    /\ UNCHANGED <<disk, restores, now, puts, clears, barred, inBatch, diskBarred>>

ReadSettles(t) ==
    /\ tab[t].read = "fetched"
    /\ \/ tab' = [tab EXCEPT ![t].read = "done", ![t].copy = tab[t].fetched,
                             ![t].fetched = Nothing]
       \/ /\ Failures
          /\ tab' = [tab EXCEPT ![t].read = "done", ![t].fetched = Nothing,
                                ![t].storageError = TRUE]
    /\ UNCHANGED <<disk, restores, now, puts, clears, barred, inBatch, diskBarred>>

-----------------------------------------------------------------------------
(* The write queue.                                                        *)

BeginWrite(t) ==
    LET b == tab[t]
        op == Head(b.writes)
        begun == [b EXCEPT !.writes = Tail(@),
                           !.job = [NoJob EXCEPT !.kind = op.kind, !.id = op.id,
                                                 !.bar = op.bar, !.epoch = b.epoch, !.stage = "waiting"]]
    IN  /\ b.writes # <<>>
        /\ b.job.kind = "none"
        /\ tab' = [tab EXCEPT ![t] =
             IF op.kind = "clear" THEN Asking(begun)
             ELSE IF b.pending = <<>> THEN BatchEnds(begun)
             ELSE Asking([begun EXCEPT !.job = [@ EXCEPT !.left = b.pending],
                                       !.pending = <<>>])]
        /\ UNCHANGED <<disk, restores, now, puts, clears, barred, inBatch, diskBarred>>

\* #trimDisk: the oldest records make room for the active one.
DiskTrimmed(entries, active) ==
    LET others == {c \in Conversations \ {active} : entries[c] # Nothing}
        out == CHOOSE O \in SUBSET others :
                 /\ Cardinality(O) = IF Cardinality(others) < MaxConversations THEN 0
                                     ELSE Cardinality(others) + 1 - MaxConversations
                 /\ \A c \in O, k \in others \ O : entries[c].savedAt <= entries[k].savedAt
    IN  [c \in Conversations |-> IF c \in out THEN Nothing ELSE entries[c]]

\* What the transaction of a save makes of the scope.
Saved(e, revision) ==
    [disk EXCEPT !.entries =
       DiskTrimmed([@ EXCEPT ![e.id] = [version |-> e.version, savedAt |-> e.savedAt,
                                         revision |-> revision + 1]], e.id)]

\* The scope is as the tab knows it.
Unchanged(b, c) ==
    /\ disk.epoch = DiskEpoch(b.copy)
    /\ Revision(disk, c) = Revision(b.copy, c)

SaveApplies(t) ==
    LET b == tab[t]
        e == Head(b.job.left)
        next == Saved(e, Revision(b.copy, e.id))
    IN  /\ b.job.kind = "batch"
        /\ b.job.stage = "waiting"
        /\ b.read = "done"
        /\ \/ /\ Unchanged(b, e.id)
              /\ disk' = next
              /\ tab' = [tab EXCEPT ![t].job =
                           [@ EXCEPT !.stage = "applied", !.committed = next]]
           \/ /\ ~Unchanged(b, e.id)
              /\ disk' = disk
              /\ tab' = [tab EXCEPT ![t].job = [@ EXCEPT !.stage = "applied"],
                                    ![t].storageError = TRUE]
           \/ /\ Failures
              /\ \E applied \in {disk} \cup (IF Unchanged(b, e.id) THEN {next} ELSE {}) :
                     disk' = applied
              /\ tab' = [tab EXCEPT ![t].job = [@ EXCEPT !.stage = "failed"]]
        /\ UNCHANGED <<restores, now, puts, clears, barred, inBatch, diskBarred>>

\* Faulty: a clear during the save is forgotten.
SaveCommittedAnyway(b, c) ==
    [b EXCEPT !.clearedIds = @ \ {c}, !.savedAfterClear = @ \cup {c},
              !.copy = b.job.committed]

\* A commit lifts the mark of a clear, unless a clear came during the save.
SaveCommitted(b, c) ==
    [b EXCEPT !.clearedIds = IF b.job.epoch = b.epoch THEN @ \ {c} ELSE @,
              !.savedAfterClear = IF b.job.epoch = b.epoch THEN @ \cup {c} ELSE @,
              !.copy = b.job.committed]

\* A failure ends the batch: the saves after it are given up.
SaveSettles(t) ==
    LET b == tab[t]
        c == Head(b.job.left).id
    IN  /\ b.job.kind = "batch"
        /\ b.job.stage \in {"applied", "failed"}
        /\ tab' = [tab EXCEPT ![t] =
             IF b.job.stage = "failed" THEN BatchEnds([b EXCEPT !.storageError = TRUE])
             ELSE IF b.job.committed = Nothing THEN BatchGoesOn(b)
             ELSE BatchGoesOn(SaveCommitted(b, c))]
        /\ UNCHANGED <<disk, restores, now, puts, clears, barred, inBatch, diskBarred>>

Cleared(whom) ==
    [epoch |-> disk.epoch + 1,
     entries |-> [c \in Conversations |->
                    IF whom \in {All, c} THEN Nothing ELSE disk.entries[c]]]

HasRead(t) == tab[t].read \in {"fetched", "done"}

ClearApplies(t) ==
    LET b == tab[t]
        next == Cleared(b.job.id)
        Applied ==
            /\ disk' = next
            /\ diskBarred' = [u \in Tabs |->
                 [c \in Conversations |->
                    IF b.job.id \notin {All, c} THEN IF u = t THEN 0 ELSE diskBarred[u][c]
                    ELSE IF u = t THEN b.job.bar
                    ELSE IF HasRead(u) THEN Len(puts) ELSE diskBarred[u][c]]]
    IN  /\ b.job.kind = "clear"
        /\ b.job.stage = "waiting"
        /\ b.read = "done"
        /\ \/ /\ Applied
              /\ tab' = [tab EXCEPT ![t].job =
                           [@ EXCEPT !.stage = "applied", !.committed = next]]
           \/ /\ Failures
              /\ Applied \/ UNCHANGED <<disk, diskBarred>>
              /\ tab' = [tab EXCEPT ![t].job = [@ EXCEPT !.stage = "failed"]]
        /\ UNCHANGED <<restores, now, puts, clears, barred, inBatch>>

ClearSettles(t) ==
    LET b == tab[t]
    IN  /\ b.job.kind = "clear"
        /\ b.job.stage \in {"applied", "failed"}
        /\ tab' = [tab EXCEPT ![t] =
             IF b.job.stage = "failed"
             THEN [b EXCEPT !.job = NoJob, !.storageError = TRUE]
             ELSE [b EXCEPT !.job = NoJob, !.copy = b.job.committed]]
        /\ UNCHANGED <<disk, restores, now, puts, clears, barred, inBatch, diskBarred>>

Tick ==
    /\ now < MaxTime
    /\ now' = now + 1
    /\ UNCHANGED <<disk, tab, restores, puts, clears, barred, inBatch, diskBarred>>

-----------------------------------------------------------------------------

CacheInit ==
    /\ setup \in Setups
    /\ disk = EmptyDisk
    /\ tab = [t \in Tabs |->
                [memory |-> <<>>, expired |-> {}, pending |-> <<>>,
                 saveScheduled |-> FALSE, epoch |-> 0, scopeEpoch |-> 0,
                 epochs |-> [c \in Conversations |-> 0], copy |-> Nothing,
                 read |-> "none", fetched |-> Nothing, writes |-> <<>>, job |-> NoJob,
                 closed |-> FALSE, storageError |-> FALSE, clearedIds |-> {},
                 clearedAll |-> FALSE, savedAfterClear |-> {}]]
    /\ restores = {}
    /\ now = 0
    /\ puts = <<>>
    /\ clears = 0
    /\ barred = [t \in Tabs |-> [c \in Conversations |-> 0]]
    /\ inBatch = [t \in Tabs |-> {}]
    /\ diskBarred = [t \in Tabs |-> [c \in Conversations |-> 0]]

\* What the storage owes, and what the tab does by itself.
Progress(t) ==
    \/ ReadHappens(t)
    \/ ReadSettles(t)
    \/ BeginWrite(t)
    \/ SaveApplies(t)
    \/ SaveSettles(t)
    \/ ClearApplies(t)
    \/ ClearSettles(t)

Steps ==
    \/ \E t \in Tabs :
         \/ \E c \in Conversations :
              \/ Put(t, c)
              \/ UpdateDraft(t, c)
              \/ SetUnavailableAttachments(t, c)
              \/ Peek(t, c)
              \/ RestoreEntry(t, c)
         \/ \E whom \in Conversations \cup {All} : ClearCache(t, whom)
         \/ CloseCache(t)
         \/ Progress(t)
    \/ \E r \in restores : RestoreSettles(r)
    \/ Tick

CacheNext == Steps /\ UNCHANGED setup

CacheSpec == CacheInit /\ [][CacheNext]_cacheVars

-----------------------------------------------------------------------------
(* Properties.                                                             *)

\* The fields have their types, a conversation is kept once, and memory stays
\* within its limit (#trim).
CacheTypeOK ==
    /\ disk \in Scope
    /\ \A t \in Tabs :
         LET b == tab[t]
         IN  /\ \A e \in {b.memory[i] : i \in DOMAIN b.memory} : e \in Entry
             /\ Cardinality(Ids(b.memory)) = Len(b.memory)
             /\ Len(b.memory) <= MaxConversations
             /\ Cardinality(Ids(b.pending)) = Len(b.pending)
             /\ b.copy \in Scope \cup {Nothing}

\* What of a tab's memory the tab put itself.
OwnEntries(t) ==
    {e \in {tab[t].memory[i] : i \in DOMAIN tab[t].memory} : puts[e.version] = t}

\* What a tab put and has cleared since does not come back into its memory,
\* whatever saves, reads and failures of the storage were under way, and whatever
\* other tabs do (#clearedIds and #savedAfterClear in restore and #save).
ClearIsFinal ==
    \A t \in Tabs : \A e \in OwnEntries(t) : e.version > barred[t][e.id]

\* The same, but for what waited behind another save of a running batch.
ClearIsFinalOutsideBatches ==
    \A t \in Tabs : \A e \in OwnEntries(t) :
        e.version > barred[t][e.id] \/ e.version \in inBatch[t]

\* A cleared record stays off the disk: neither the tab that cleared it nor a
\* tab that had read the scope before writes it back with a save that was
\* pending or comes later, unless that tab clears something itself.
NoStaleWrite ==
    \A c \in Conversations :
      disk.entries[c] # Nothing =>
        LET v == disk.entries[c].version
        IN  v > diskBarred[puts[v]][c] \/ v \in inBatch[puts[v]]

\* What was cleared stays cleared, in memory and on the disk.
ClearedStaysCleared == ClearIsFinalOutsideBatches /\ NoStaleWrite

\* The coalescing of saves forgets none: while something waits to be saved, a
\* batch that will take it is queued, or one is running whose end queues the
\* next, and #saveScheduled says so (put, #scheduleSaves and its `finally`).
NoSaveForgotten ==
    \A t \in Tabs :
      /\ tab[t].pending # <<>> => tab[t].saveScheduled
      /\ tab[t].saveScheduled <=>
           \/ tab[t].job.kind = "batch"
           \/ \E i \in DOMAIN tab[t].writes : tab[t].writes[i].kind = "batch"
=============================================================================
