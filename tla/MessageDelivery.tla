-------------------------- MODULE MessageDelivery --------------------------
(***************************************************************************)
(* The ways of a user's message to the timeline of a ChatClient: live,     *)
(* before and after the server wrote it to its database; in a page of      *)
(* older history; in what a recovering subscription reads again; in a      *)
(* reload of the conversation; from the cache after a restart.  Each goes  *)
(* through the gateway's MessageIdentities and then, by its own operation, *)
(* to the Timeline.                                                        *)
(*                                                                         *)
(* The server is the environment: it has every message from the start,     *)
(* writes each to its database at some time, renames the author (a name is *)
(* a number), and may begin to tell its own identity of messages, which    *)
(* older servers do not.                                                   *)
(***************************************************************************)
EXTENDS MessageIdentities

CONSTANTS
    MessageSetups,      \* initial choices: records of alike, telling, restarts, kinds, last, names
    MaxLive,            \* bound on the live deliveries
    MaxReads            \* bound on the reads

VARIABLES
    msgSetup,           \* alike: the messages say the same; telling: "never",
                        \* "always" or "later", when the server tells identities;
                        \* restarts: how often the page is opened again; kinds: the
                        \* kinds of reads; last: how many messages there are; names:
                        \* how many names the author goes through
    server,             \* persisted: what is in the database; name; telling
    gw,                 \* the gateway's ConversationIdentities
    timeline,
    shown,              \* "live", or "cached" while #cacheReadOnly
    reads,              \* what is being read, by kind
    lives,              \* live deliveries so far
    asked,              \* reads so far: #historyReadRevision, over all lives
    linked              \* history: messages whose two identities have been shown together

\* Messages are numbered by the time they were created.
Messages == 1 .. msgSetup.last

msgVars == <<msgSetup, server, gw, timeline, shown, reads, lives, asked, linked>>

Kinds == {"page", "recover", "reload"}

Idle == [rev |-> 0]

Reading(kind) == reads[kind].rev > 0

\* A read: base, the timeline it began with; had, the server then; lately,
\* what was delivered since; handed, what a reload is to apply when it is
\* committed; loaded, what it brought, and rest, that there is more; current,
\* that the client has not superseded it.
NewRead ==
    [rev |-> asked + 1, base |-> timeline, had |-> server, lately |-> {}, handed |-> <<>>,
     answered |-> FALSE, rest |-> FALSE, handoff |-> shown = "live", loaded |-> {},
     current |-> TRUE]

MsgInit ==
    /\ msgSetup \in MessageSetups
    /\ server = [persisted |-> {}, name |-> 1, telling |-> msgSetup.telling = "always"]
    /\ gw = NewIdentities(0)
    /\ timeline = EmptyTimeline
    /\ shown = "live"
    /\ reads = [kind \in Kinds |-> Idle]
    /\ lives = 0
    /\ asked = 0
    /\ linked = {}

Delivery(m, inDatabase, name) ==
    [message |-> m, server |-> IF server.telling THEN m ELSE Absent,
     db |-> IF inDatabase THEN m ELSE Absent, name |-> name,
     look |-> IF msgSetup.alike THEN 0 ELSE m, time |-> IF msgSetup.alike THEN 0 ELSE m]

\* History: the messages that have both identities on the timeline.
LinkedBy(t) ==
    linked \cup UNION {i.sure : i \in {j \in t.items : j.server # Absent /\ j.db # Absent}}

Shows(t) == timeline' = t /\ linked' = LinkedBy(t)

---------------------------- (* the server *) ------------------------------

Persist(m) ==
    /\ m \notin server.persisted /\ 1 .. m - 1 \subseteq server.persisted
    /\ server' = [server EXCEPT !.persisted = @ \cup {m}]
    /\ UNCHANGED <<msgSetup, gw, timeline, shown, reads, lives, asked, linked>>

Rename ==
    /\ server.name < msgSetup.names
    /\ server' = [server EXCEPT !.name = @ + 1]
    /\ UNCHANGED <<msgSetup, gw, timeline, shown, reads, lives, asked, linked>>

Tell ==
    /\ msgSetup.telling = "later" /\ ~server.telling
    /\ server' = [server EXCEPT !.telling = TRUE]
    /\ UNCHANGED <<msgSetup, gw, timeline, shown, reads, lives, asked, linked>>

------------------------- (* live deliveries *) ----------------------------

\* The reads, when item i was delivered by the subscription that is shown: a
\* recovery will take only the author of what it reads again, a reload applies
\* i again after it is committed (#captureHandoff).
Noted(i) ==
    [reads EXCEPT
        !["recover"] = IF Reading("recover") THEN [@ EXCEPT !.lately = @ \cup {i.id}] ELSE @,
        !["reload"] = IF Reading("reload") /\ @.handoff
                      THEN [@ EXCEPT !.handed = Append(@, [item |-> i, authorOnly |-> FALSE])]
                      ELSE @]

\* A live delivery, possibly late: it may carry no database identity although
\* the message is in the database by now.
DeliverLive(m, inDatabase) ==
    /\ shown = "live" /\ lives < MaxLive
    /\ inDatabase => m \in server.persisted
    /\ \E mapped \in {MapMessage(gw, Delivery(m, inDatabase, server.name), "live", 0)} :
           /\ gw' = mapped.gateway
           /\ Shows(Upsert(timeline, mapped.item, FALSE))
           /\ reads' = Noted(mapped.item)
    /\ lives' = lives + 1
    /\ UNCHANGED <<msgSetup, server, shown, asked>>

\* The same, by the subscription that a reload has opened: its queue holds
\* the delivery until the reload is committed.
DeliverToReload(m, inDatabase) ==
    /\ Reading("reload") /\ lives < MaxLive
    /\ inDatabase => m \in server.persisted
    /\ LET mapped == MapMessage(gw, Delivery(m, inDatabase, server.name), "live", 0)
       IN  /\ gw' = mapped.gateway
           /\ reads' = [reads EXCEPT !["reload"].handed =
                           Append(@, [item |-> mapped.item, authorOnly |-> FALSE])]
    /\ lives' = lives + 1
    /\ UNCHANGED <<msgSetup, server, timeline, shown, asked, linked>>

------------------------------ (* reads *) ---------------------------------

\* loadConversation, for a page or a reload, or #loadCurrentServerRestSnapshot:
\* the revision is taken before the request is sent.
Begin(kind) ==
    /\ kind \in msgSetup.kinds /\ ~Reading(kind) /\ asked < MaxReads
    /\ kind # "reload" => shown = "live"
    /\ asked' = asked + 1
    /\ reads' = [reads EXCEPT ![kind] = NewRead]
    /\ UNCHANGED <<msgSetup, server, gw, timeline, shown, lives, linked>>

\* The items of the messages ms, mapped in that order with the gateway.
WithRow(items, mapped) == [gateway |-> mapped.gateway, items |-> Append(items, mapped.item)]

MapRows(ms, name, rev) ==
    FoldLeft(LAMBDA acc, m:
                WithRow(acc.items,
                        MapMessage(acc.gateway, Delivery(m, TRUE, name), "history", rev)),
             [gateway |-> gw, items |-> <<>>], ms)

\* What a request that began with read r may be answered: rows of the database
\* and a name, of some time since.
Answers(r) ==
    {rows \in SUBSET server.persisted : rows # {}} \X (r.had.name .. server.name)

Ascending(ms) == SetToSortSeq(ms, <)

Newest(rows) == \A m \in server.persisted, n \in rows : m >= n => m \in rows

\* #loadHistory, once the page is there; the gateway has learned from it even
\* if the client discards it.
PageAnswered(rows, name) ==
    /\ Reading("page")
    /\ \E mapped \in {MapRows(Ascending(rows), name, reads["page"].rev)} :
           /\ gw' = mapped.gateway
           /\ Shows(IF reads["page"].current THEN MergeTimeline(timeline, mapped.items, TRUE)
                    ELSE timeline)
    /\ reads' = [reads EXCEPT !["page"] = Idle]
    /\ UNCHANGED <<msgSetup, server, shown, lives, asked>>

\* What the client does with its timeline when a recovery ends: a provisional
\* message that has not changed and was not read again is kept only if none
\* of its keys is known otherwise.
Again(S, ids) ==
    Create(InOrder(WithProvisional(Without(S, ids), {i \in S : i.id \in ids})))

\* Faulty: it is dropped although nothing else stands for it.
DropUnconfirmed(t, base, seen) ==
    Create(InOrder(Without(t.items, {i.id : i \in {i \in base.items : /\ i.db = Absent
                                                                     /\ i.id \notin seen}})))

AfterRecovery(t, base, seen) ==
    Again(t.items, {i.id : i \in {i \in base.items : /\ i.db = Absent
                                                   /\ i.id \notin seen
                                                   /\ \E j \in t.items : Same(i, j)}})

UpsertAll(t, updates) == FoldLeft(LAMBDA u, x: Upsert(u, x.item, x.authorOnly), t, updates)

\* The updates of a recovery, the newest first: only the author is taken of a
\* message that was delivered while it was read.
Updates(items) ==
    [n \in DOMAIN items |->
        [item |-> items[n], authorOnly |-> items[n].id \in reads["recover"].lately]]

RecoverAnsweredWith(mapped, updates) ==
    /\ gw' = mapped.gateway
    /\ Shows(AfterRecovery(UpsertAll(timeline, updates), reads["recover"].base,
                           Ids(mapped.items)))
    /\ reads' = [reads EXCEPT !["recover"] = Idle,
                              !["reload"] = IF Reading("reload") /\ @.handoff
                                            THEN [@ EXCEPT !.handed = @ \o updates] ELSE @]

RecoverAnswered(rows, name) ==
    /\ Reading("recover")
    /\ \E mapped \in {MapRows(Ascending(rows), name, reads["recover"].rev)} :
       \E updates \in {Updates(Reverse(mapped.items))} : RecoverAnsweredWith(mapped, updates)
    /\ UNCHANGED <<msgSetup, server, shown, lives, asked>>

\* The newest rows: loadConversation maps them before the client is told.
ReloadAnswered(rows, name) ==
    /\ Reading("reload") /\ ~reads["reload"].answered /\ Newest(rows)
    /\ \E mapped \in {MapRows(Ascending(rows), name, reads["reload"].rev)} :
           /\ gw' = mapped.gateway
           /\ reads' = [reads EXCEPT !["reload"] =
                           [@ EXCEPT !.answered = TRUE, !.rest = rows # server.persisted,
                                     !.loaded = Create(mapped.items).items]]
    /\ UNCHANGED <<msgSetup, server, timeline, shown, lives, asked, linked>>

\* loadConversation of the client: what was loaded meets the cache, what was
\* provisional when the load began, and, unless the cache is all that is
\* shown, what has changed since; then the queue is drained.
Committed(r, loaded) ==
    UpsertAll(IF r.handoff THEN RebaseTimeline(r.base, loaded, timeline) ELSE loaded, r.handed)

Cached == IF msgSetup.restarts > 0 THEN timeline.items ELSE {}

Retained(r) == WithProvisional(WithCached(r.loaded, Cached, r.rest), r.base.items)

ReloadCommits ==
    /\ Reading("reload") /\ reads["reload"].answered
    /\ Shows(Committed(reads["reload"], Create(InOrder(Retained(reads["reload"])))))
    /\ shown' = "live"
    /\ reads' = [reads EXCEPT !["reload"] = Idle, !["recover"] = Idle,
                              !["page"] = IF Reading("page") THEN [@ EXCEPT !.current = FALSE]
                                          ELSE @]
    /\ UNCHANGED <<msgSetup, server, gw, lives, asked>>

\* The page is opened again: another gateway, and the timeline that was cached.
Restart ==
    /\ msgSetup.restarts > gw.life
    /\ gw' = NewIdentities(gw.life + 1)
    /\ timeline' = Create(InOrder({[i EXCEPT !.src = "cache", !.author.rev = 0] :
                                     i \in timeline.items}))
    /\ linked' = UNION {i.sure : i \in {j \in timeline.items : j.server # Absent /\ j.db # Absent}}
    /\ shown' = "cached"
    /\ reads' = [kind \in Kinds |-> Idle]
    /\ UNCHANGED <<msgSetup, server, lives, asked>>

MsgNext ==
    \/ \E m \in Messages : Persist(m)
    \/ Rename \/ Tell
    \/ \E m \in Messages, inDatabase \in BOOLEAN :
          DeliverLive(m, inDatabase) \/ DeliverToReload(m, inDatabase)
    \/ \E kind \in Kinds : Begin(kind)
    \/ Reading("page") /\ \E a \in Answers(reads["page"]) : PageAnswered(a[1], a[2])
    \/ Reading("recover") /\ \E a \in Answers(reads["recover"]) : RecoverAnswered(a[1], a[2])
    \/ Reading("reload") /\ \E a \in Answers(reads["reload"]) : ReloadAnswered(a[1], a[2])
    \/ ReloadCommits
    \/ Restart

MsgSpec == MsgInit /\ [][MsgNext]_msgVars

----------------------------- (* properties *) -----------------------------

Anonymous(i) == i.server = Absent /\ i.db = Absent

\* When the gateway can know a message at every delivery: by the identity the
\* server tells, or, as long as the page is not opened again, by its looks.
Recognisable ==
    \/ msgSetup.telling = "always"
    \/ msgSetup.telling = "never" /\ ~msgSetup.alike /\ gw.life = 0

\* Whatever is delivered, and in whatever order, no message is on the timeline
\* twice if the gateway can know it at every delivery.  If it cannot, at most
\* a projection without any identity stands beside the message; and two that
\* have one identity each, as long as no delivery said that they are the same.
NeverTwice ==
    \A i, j \in timeline.items : i # j =>
        /\ Recognisable => i.of \cap j.of = {}
        /\ \/ i.sure \cap j.sure = {}
           \/ Anonymous(i) \/ Anonymous(j)
           \/ msgSetup.telling = "later" /\ i.sure \cap j.sure \cap linked = {}

\* Two messages are never shown as one: not those that were delivered with an
\* identity, and none at all if they do not say the same.
NeverConfused ==
    \A i \in timeline.items : /\ Cardinality(i.sure) <= 1
                              /\ ~msgSetup.alike => Cardinality(i.of) <= 1

\* An item is one message, and a message one item.
OneItemPerMessage == NeverTwice /\ NeverConfused

\* No order of deliveries of what the server says of its messages is taken
\* for a conflict of identities, and the index always finds items of the
\* timeline: nothing on the way to the timeline throws.
NothingThrows == \A i \in timeline.items : ~i.clash

Facts(t) == UNION {i.of : i \in t.items}

\* A message that is shown goes on being shown, whatever is delivered; a
\* reload keeps at least what it loaded and what was delivered meanwhile.
NothingDropped ==
    [][IF timeline' # timeline /\ Reading("reload") /\ reads'["reload"] = Idle /\ gw' = gw
       THEN UNION {i.of : i \in reads["reload"].loaded}
            \cup UNION {u.item.of : u \in ToSet(reads["reload"].handed)} \subseteq Facts(timeline')
       ELSE Facts(timeline) \subseteq Facts(timeline')]_msgVars

\* An author that a history read confirmed is not replaced by what an older
\* read or a live delivery says, as long as the message is known by one of its
\* keys and has an identity, until the page is opened again.
AuthorNeverReverts ==
    [][gw'.life = gw.life =>
          \A i \in timeline.items, j \in timeline'.items :
             KeySet(i) \cap KeySet(j) # {} /\ ~Anonymous(j) => j.author.rev >= i.author.rev]_msgVars

=============================================================================
