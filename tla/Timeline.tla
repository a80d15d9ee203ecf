------------------------------ MODULE Timeline ------------------------------
(***************************************************************************)
(* The timeline of a conversation (chat-runtime/src/timeline.ts): a set of *)
(* messages and an index of the keys they are known by.  A message has a   *)
(* display id, and may have the identity the server gave it and the id of  *)
(* its row in the database; any of them may bring two projections of one   *)
(* message together.                                                       *)
(*                                                                         *)
(* Operators on values, without state.  A projection (an item) is          *)
(*   id      the display id          server  serverMessageId, or Absent    *)
(*   db      provenance.id when persisted, Absent when provisional         *)
(*   src     provenance.source       author  what is shown of the author   *)
(* and three histories: of, the messages delivered as this item; sure,     *)
(* those of them delivered with an identity; clash, that the code throws.  *)
(* An author is a name and, as a history, the number of the history read   *)
(* that confirmed it (rev, 0 if none did).                                 *)
(*                                                                         *)
(* Items are taken in the order of their creation time; time stands for    *)
(* createdAt.  Left out: content, events, and the marks of items to be     *)
(* reviewed.                                                               *)
(***************************************************************************)
EXTENDS Integers, Sequences, FiniteSets, SequencesExt

CONSTANTS
    Absent,         \* undefined
    MaxOverlay      \* MAX_INDEX_OVERLAY_SIZE

\* identityKeys: in the order in which they are tried.
Keys(i) ==
    (IF i.server = Absent THEN <<>> ELSE <<<<"server", i.server>>>>)
    \o (IF i.db = Absent THEN <<>> ELSE <<<<"db", i.db>>>>)
    \o <<<<"id", i.id>>>>

KeySet(i) == ToSet(Keys(i))

\* What the code can tell two items apart by (deepEqual).
Plain(i) ==
    [id |-> i.id, server |-> i.server, db |-> i.db, src |-> i.src, name |-> i.author.name,
     time |-> i.time]

Same(i, j) == Plain(i) = Plain(j)

SameItems(S, T) == {Plain(i) : i \in S} = {Plain(i) : i \in T}

\* checkMessageIdentity throws.
Clashes(i, j) ==
    \/ i.server # Absent /\ j.server # Absent /\ i.server # j.server
    \/ /\ i.server # Absent \/ j.server # Absent
       /\ i.db # Absent /\ j.db # Absent /\ i.db # j.db

FromHistory(i) == i.db # Absent /\ i.src = "history"

\* i, after it was checked against j.
Checked(i, j) == [i EXCEPT !.clash = @ \/ Clashes(i, j)]

\* i, standing for the messages of j as well.
Joined(i, j) == [i EXCEPT !.of = @ \cup j.of, !.sure = @ \cup j.sure, !.clash = @ \/ j.clash]

\* An item m of an index, which may be older than the item of S with its id,
\* with the histories of the latter.
Recalled(S, m) ==
    LET here == {j \in S : j.id = m.id}
    IN  IF here = {} THEN m
        ELSE LET j == CHOOSE j \in here : TRUE IN IF Same(j, m) THEN j ELSE Joined(m, j)

RecalledIn(S, matches) == [n \in DOMAIN matches |-> Recalled(S, matches[n])]

\* The items found in an index under any key of i, without repetition.
Matches(index, i) ==
    FoldLeft(LAMBDA found, k:
                IF k \in DOMAIN index /\ ~Contains(found, index[k])
                THEN Append(found, index[k]) ELSE found,
             <<>>, Keys(i))

\* The same, with the histories of the items of S.
Found(S, index, i) == RecalledIn(S, Matches(index, i))

\* withConfirmedAuthor.
Confirmed(preferred, other, preferOther) ==
    LET wins == FromHistory(other) /\ (preferOther \/ ~FromHistory(preferred))
    IN  [Joined(Checked(preferred, other), other) EXCEPT
            !.server = IF @ = Absent THEN other.server ELSE @,
            !.author = IF wins THEN other.author ELSE @,
            !.db = IF wins THEN other.db ELSE @,
            !.src = IF wins THEN other.src ELSE @]

\* i, with the author its matches confirmed.
WithMatches(i, matches) == FoldLeft(LAMBDA j, m: Confirmed(j, m, FALSE), i, matches)

\* i, under the display id of the first of its matches.
NamedAs(i, matches) == IF matches = <<>> THEN i ELSE [i EXCEPT !.id = matches[1].id]

\* alignDurableDisplayIds.
AlignedWith(i, matches) ==
    IF matches = <<>> THEN i ELSE Checked(NamedAs(i, matches), matches[1])

Aligned(s, index) == [n \in DOMAIN s |-> AlignedWith(s[n], Matches(index, s[n]))]

\* compareTimelineItems; those of the same time in some fixed order.
InOrder(S) == SetToSortSeq(S, LAMBDA i, j: i.time < j.time)

\* A Map from display ids: the last item of an id, in the place of the first.
ByKey(s) ==
    FoldLeft(LAMBDA m, i: IF \E n \in DOMAIN m : m[n].id = i.id
                          THEN [n \in DOMAIN m |-> IF m[n].id = i.id THEN i ELSE m[n]]
                          ELSE Append(m, i),
             <<>>, s)

----------------------------- (* the index *) ------------------------------

NoKeys == [k \in {} |-> Absent]

Extended(index, keys, i) == [k \in keys |-> i] @@ index

\* buildIndex.
IndexOf(S) == FoldLeft(LAMBDA index, i: Extended(index, KeySet(i), i), NoKeys, InOrder(S))

TimelineOf(S) == [items |-> S, base |-> IndexOf(S), overlay |-> NoKeys]

EmptyTimeline == TimelineOf({})

LookupIn(t) == t.overlay @@ t.base

\* advanceIndex: keys that are no longer those of an item go on finding it
\* until the index is built anew.
Indexed(t, S, i) ==
    LET overlay == Extended(t.overlay, KeySet(i), i)
    IN  IF Cardinality(DOMAIN overlay) < MaxOverlay
        THEN [items |-> S, base |-> t.base, overlay |-> overlay]
        ELSE TimelineOf(S)

----------------------------- (* operations *) -----------------------------

Ids(s) == {s[n].id : n \in DOMAIN s}

Without(S, ids) == {i \in S : i.id \notin ids}

\* One turn of the loop of createFromImmutableItems: a candidate takes the
\* place and the keys of its matches.
Taken(acc, matches, candidate) ==
    [items |-> Without(acc.items, Ids(matches) \cup {candidate.id}) \cup {candidate},
     aliases |-> Extended(acc.aliases,
                          UNION {KeySet(matches[n]) : n \in DOMAIN matches} \cup KeySet(candidate),
                          candidate)]

AbsorbMatching(acc, i, matches) ==
    Taken(acc, matches, WithMatches(NamedAs(FoldLeft(Checked, i, matches), matches), matches))

Absorb(acc, i) == AbsorbMatching(acc, i, Found(acc.items, acc.aliases, i))

\* createFromImmutableItems, createTimelineState.
Create(candidates) ==
    TimelineOf(FoldLeft(Absorb, [items |-> {}, aliases |-> NoKeys], candidates).items)

\* upsertTimelineItem, for one that is not yet there.
Inserted(t, i) == Indexed(t, t.items \cup {i}, i)

\* upsertTimelineItem, for one that is.  When the index finds an item that is
\* not on the timeline, the code throws.
Replaced(t, current, i) ==
    LET there == \E j \in t.items : j.id = current.id /\ j.time = current.time
        items == Without(t.items, {current.id}) \cup {[i EXCEPT !.clash = @ \/ ~there]}
    IN  IF ~Same(current, i) THEN Indexed(t, items, i)
        ELSE IF \E j \in t.items : Same(j, i) THEN [t EXCEPT !.items = items] ELSE t

\* upsertTimelineItem: what becomes of the candidate once it met its matches;
\* if only its author is to be taken, the first of them with that.
OnlyAuthor(current, i) ==
    [current EXCEPT !.server = i.server, !.author = i.author, !.db = i.db, !.src = i.src]

JoinedAll(i, matches) ==
    IF FromHistory(i) THEN FoldLeft(Joined, i, matches)
    ELSE WithMatches(FoldLeft(Joined, i, matches), matches)

ProjectedAs(i, matches, authorOnly) ==
    JoinedAll(IF authorOnly THEN Joined(OnlyAuthor(matches[1], i), i) ELSE i, matches)

Projected(candidate, matches, authorOnly) ==
    ProjectedAs([NamedAs(FoldLeft(Checked, candidate, matches), matches) EXCEPT
                    !.server = IF @ = Absent THEN matches[1].server ELSE @], matches, authorOnly)

UpsertMatching(t, candidate, matches, authorOnly) ==
    IF matches = <<>> THEN IF authorOnly THEN t ELSE Inserted(t, candidate)
    ELSE IF Len(matches) = 1
    THEN Replaced(t, matches[1], Projected(candidate, matches, authorOnly))
    ELSE Create(Append(InOrder(Without(t.items, Ids(matches))),
                       Projected(candidate, matches, authorOnly)))

\* upsertTimelineItem.
Upsert(t, candidate, authorOnly) ==
    UpsertMatching(t, candidate, Found(t.items, LookupIn(t), candidate), authorOnly)

\* result, unless nothing has changed: then the index stays.
Kept(t, result) ==
    IF SameItems(result.items, t.items) THEN [t EXCEPT !.items = result.items] ELSE result

\* mergeHistoryTimeline, its second part: the author history confirmed wins
\* over the whole group of keys.
HistoryConfirmed(i, matches) == IF matches = <<>> THEN i ELSE Confirmed(i, matches[1], TRUE)

Authors(history) ==
    FoldLeft(LAMBDA index, i: Extended(index, KeySet(i), i), NoKeys, SelectSeq(history, FromHistory))

ConfirmedBy(s, authors) ==
    Create([n \in DOMAIN s |-> HistoryConfirmed(s[n], Matches(authors, s[n]))])

\* mergeHistoryTimeline, its first part.
MergeAligned(S, aligned, preferHistory) ==
    Create([n \in DOMAIN aligned |->
               LET here == {i \in S : i.id = aligned[n].id}
               IN  IF here = {} THEN aligned[n]
                   ELSE Confirmed(CHOOSE i \in here : TRUE, aligned[n], preferHistory)]
           \o InOrder(Without(S, Ids(aligned))))

Merge(S, history, preferHistory) ==
    MergeAligned(S, ByKey(Aligned(history, IndexOf(S))), preferHistory)

\* mergeHistoryTimeline.
MergeTimeline(t, history, preferHistory) ==
    Kept(t, IF preferHistory
            THEN ConfirmedBy(InOrder(Merge(t.items, history, TRUE).items), Authors(history))
            ELSE Merge(t.items, history, FALSE))

\* rebaseTimelineState: what is kept of what the three timelines have under
\* one key; each argument has one item, or none.
Rebased(baseline, loaded, current) ==
    LET selected == IF SameItems(current, baseline) THEN loaded ELSE current
        newAuthor == \E c \in current :
                        /\ FromHistory(c)
                        /\ ~\E b \in baseline : /\ b.author.name = c.author.name
                                               /\ b.db = c.db
                                               /\ b.src = c.src
    IN  {IF loaded = {} THEN s
         ELSE Confirmed(s, CHOOSE l \in loaded : TRUE, ~newAuthor) : s \in selected}

\* The keys in the order of the three timelines.
RebaseInOrder(was, fresh, now) ==
    LET Named(s, id) == {i \in ToSet(s) : i.id = id}
        Selected(id) == SetToSeq(Rebased(Named(was, id), Named(fresh, id), Named(now, id)))
    IN  Create(FoldLeft(LAMBDA s, i: s \o Selected(i.id), <<>>, ByKey(was \o fresh \o now)))

\* Faulty: the index of the timeline before the reload is kept.
RebaseWithOldIndex(baseline, loaded, current) ==
    [current EXCEPT !.items =
        RebaseInOrder(InOrder(baseline.items),
                      ByKey(Aligned(InOrder(loaded.items), IndexOf(current.items))),
                      InOrder(current.items)).items]

\* rebaseTimelineState.
RebaseTimeline(baseline, loaded, current) ==
    Kept(current, RebaseInOrder(InOrder(baseline.items),
                                ByKey(Aligned(InOrder(loaded.items), IndexOf(current.items))),
                                InOrder(current.items)))

\* retainProvisionalTimeline.
WithUnmatched(latest, unmatched) ==
    IF unmatched = {} THEN latest
    ELSE MergeTimeline(Create(InOrder(latest)), InOrder(unmatched), FALSE).items

WithProvisional(latest, previous) ==
    LET keys == UNION {KeySet(i) : i \in latest}
    IN  WithUnmatched(latest, {i \in previous : i.db = Absent /\ KeySet(i) \cap keys = {}})

\* mergeCachedHistory: what is cached of older pages is kept.  On a conflict
\* the cache gives way.
WithDurable(latest, cached, hasPrevious) ==
    IF ~hasPrevious THEN latest
    ELSE MergeTimeline(Create(InOrder(latest)), InOrder({i \in cached : i.db # Absent}), FALSE).items

Unclashed(merged, latest) == IF \E i \in merged : i.clash THEN latest ELSE merged

WithCached(latest, cached, hasPrevious) ==
    Unclashed(WithDurable(WithProvisional(latest, cached), cached, hasPrevious), latest)

=============================================================================
