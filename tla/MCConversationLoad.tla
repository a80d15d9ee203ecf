------------------------ MODULE MCConversationLoad ------------------------
(* Small instances of ConversationLoad for model checking.                 *)
EXTENDS ConversationLoad, TLC

CONSTANTS c1, c2, c3, c4, A, B

HostOf(kinds, cacheEnabled, known, kept, eventsEach, pagesEach) ==
    [kinds |-> kinds, cacheEnabled |-> cacheEnabled, known |-> known, stored |-> kept,
     maxEvents |-> eventsEach, maxPages |-> pagesEach]

\* Calls for two conversations compete; the client may be disposed.
Races == HostOf({"load", "delete", "dispose"}, FALSE, {A, B}, {}, 1, 1)

\* The conversation on display is reloaded and paged while events arrive.
Reload(c) == HostOf({"load", "history", "cancel"}, FALSE, {c}, {}, 2, 2)

\* Conversations are restored from memory, paged, and cleared.
Cached == HostOf({"load", "history", "clear"}, TRUE, {A, B}, {}, 0, 2)

\* A conversation that host storage still has, and one it has not.
Storage == HostOf({"load", "delete", "cancel", "clear", "dispose"}, TRUE, {A, B}, {A}, 1, 1)

\* More calls and pages, for one conversation.
History(c) == HostOf({"load", "history"}, FALSE, {c}, {}, 0, 3)

\* A host that only loads, and loads again from a listener.
Loads == HostOf({"load"}, TRUE, {A, B}, {}, 0, 1)

LoadSetups == {Loads}
RaceSetups == {Races, Cached} \cup {Reload(c) : c \in {A, B}}
StorageSetups == {Storage}
HistorySetups == {History(c) : c \in {A, B}}

\* Calls are interchangeable, each may become any operation; so are the two
\* conversations, because every set of setups but StorageSetups is symmetric.
Symmetry == Permutations(Calls) \cup Permutations(Conversations)

=============================================================================
