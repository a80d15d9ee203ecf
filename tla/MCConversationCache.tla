------------------------ MODULE MCConversationCache ------------------------
(* Small instances of ConversationCache for model checking.                *)
EXTENDS ConversationCache

CONSTANTS tab1, tab2, A, B

\* One tab that switches between more conversations than it may keep.
Switching == [tabs |-> {tab1}, conversations |-> {A, B}, failures |-> FALSE,
              closes |-> TRUE, maxConversations |-> 1, maxTime |-> 1]

\* One tab on storage that fails.
Unreliable == [Switching EXCEPT !.failures = TRUE, !.maxConversations = 2, !.maxTime = 0]

\* Two tabs over one storage.
Sharing == [tabs |-> {tab1, tab2}, conversations |-> {A}, failures |-> FALSE,
            closes |-> FALSE, maxConversations |-> 1, maxTime |-> 0]

CacheSetups == {Switching, Unreliable, Sharing}

=============================================================================
