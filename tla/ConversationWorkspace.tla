------------------------ MODULE ConversationWorkspace ------------------------
(***************************************************************************)
(* The ConversationWorkspaceController (chat-runtime/src/conversation-     *)
(* workspace.ts): the list of conversations, the selection, and the calls  *)
(* of a host that page, create, rename, delete and select, above a         *)
(* ChatClient without a cache.                                             *)
(*                                                                         *)
(* The controller draws a revision for each list request and for each      *)
(* selection, and drops an answer whose revision is not current.  Only     *)
(* the equality of revisions counts, so the model keeps the call that drew *)
(* the current one, or Nil.  A conversation is its identity and a number  *)
(* that counts its titles.  A cursor is what its pages still contain.      *)
(* The order of the list and the wording of errors are left out; the first *)
(* conversation is any of the list.                                        *)
(***************************************************************************)
EXTENDS Integers, FiniteSets

CONSTANTS
    Tasks,          \* the calls of a host, each given once
    Chats,          \* identities of conversations
    Nil,            \* `undefined` and `null`
    PageSize,       \* how many conversations a page holds
    WorkspaceOps    \* the operations that the host uses

\* `undefined` is not a call, a conversation, a title, a cursor, a view, or an answer.
ASSUME WorkspaceAssumption ==
    /\ Nil \notin Tasks \cup Chats
    /\ Nil \notin Nat
    /\ \A C \in SUBSET Chats : C # Nil
    /\ Nil \notin [id : Chats, title : Nat]
    /\ Nil \notin [ok : BOOLEAN]
    /\ Nil \notin [ok : {TRUE}, chat : Chats]
    /\ Nil \notin [ok : {TRUE}, title : Nat]

VARIABLES
    firstSelected,      \* initialSelection is "first"
    \* the server
    existing,           \* its conversations
    unborn,             \* identities it did not give yet
    title,
    \* fields of the ChatClient
    viewed,             \* getSnapshot()
    viewLoad,           \* the call that drew pendingLoadRequestId
    override,           \* pendingLoadConversationOverride
    \* fields of the controller
    controllerDisposed,
    listOwner,          \* who drew listRevision
    selectionOwner,     \* who drew selectionRevision
    automatic,          \* who drew automaticSelectionRevision
    latestCreate,       \* who drew createRevision
    unswayed,           \* calls that read the current selectionIntentRevision
    deleting,
    renaming,
    workspace,          \* getSnapshot() of the controller
    \* local variables of the calls
    task,
    \* history
    choice,             \* the last selection of the user
    erased,             \* what calls deleted
    retitled,           \* the last title that a call gave
    paged               \* a first page was applied

wsVars == <<firstSelected, existing, unborn, title, viewed, viewLoad, override,
            controllerDisposed, listOwner, selectionOwner, automatic, latestCreate,
            unswayed, deleting, renaming, workspace, task, choice, erased, retitled, paged>>

serverVars == <<existing, unborn, title>>
clientVars == <<viewed, viewLoad, override>>
selectionVars == <<selectionOwner, automatic, unswayed, choice>>
mutationVars == <<deleting, renaming, erased, retitled>>
fixedVars == <<firstSelected, controllerDisposed, paged>>

-----------------------------------------------------------------------------
NoTask == [op |-> Nil, phase |-> "idle", chat |-> Nil, input |-> Nil,
           reply |-> Nil, saw |-> Nil]

\* A call that has returned; what it saw of the user is kept for the properties.
Finished(call) == [NoTask EXCEPT !.op = call.op, !.phase = "done", !.saw = call.saw]

Titled(c, n) == [id |-> c, title |-> n]

WsTypeOK ==
    /\ firstSelected \in BOOLEAN /\ controllerDisposed \in BOOLEAN
    /\ existing \subseteq Chats /\ unborn \subseteq Chats \ existing
    /\ title \in [Chats -> Nat]
    /\ viewed \in [id : Chats, title : Nat] \cup {Nil}
    /\ override \in Nat \cup {Nil}
    /\ {viewLoad, listOwner, selectionOwner, automatic, latestCreate, choice}
           \subseteq Tasks \cup {Nil}
    /\ unswayed \subseteq Tasks
    /\ deleting \subseteq Chats /\ renaming \subseteq Chats \ deleting
    /\ workspace \in [listed : [Chats -> Nat \cup {Nil}],
                      status : {"idle", "loading", "loading-more", "ready", "error"},
                      cursor : {Nil} \cup SUBSET Chats,
                      pending : Chats \cup {Nil}, selected : Chats \cup {Nil},
                      selection : {"idle", "loading", "ready", "error", "empty"}]
    /\ \A t \in Tasks :
        /\ task[t].op \in WorkspaceOps \cup {Nil}
        /\ task[t].phase \in {"idle", "requested", "refreshed", "loading", "returning", "done"}
        /\ task[t].chat \in Chats \cup {Nil}
    /\ erased \subseteq Chats /\ paged \in BOOLEAN
    /\ retitled \in [Chats -> Nat]

WsInit ==
    /\ firstSelected \in BOOLEAN
    /\ existing \in SUBSET Chats
    /\ unborn = Chats \ existing
    /\ title = [c \in Chats |-> 0]
    /\ viewed = Nil /\ viewLoad = Nil /\ override = Nil
    /\ controllerDisposed = FALSE
    /\ listOwner = Nil /\ selectionOwner = Nil /\ automatic = Nil
    /\ latestCreate = Nil /\ unswayed = {}
    /\ deleting = {} /\ renaming = {}
    /\ workspace = [listed |-> [c \in Chats |-> Nil], status |-> "idle", cursor |-> Nil,
                    pending |-> Nil, selected |-> Nil, selection |-> "idle"]
    /\ task = [t \in Tasks |-> NoTask]
    /\ choice = Nil /\ erased = {} /\ retitled = [c \in Chats |-> 0] /\ paged = FALSE

-----------------------------------------------------------------------------
(* Helpers.                                                                *)

Listed(w) == {c \in Chats : w.listed[c] # Nil}

\* Faulty: an answer is applied whatever happened meanwhile.
CurrentListAlways(t) == ~controllerDisposed

CurrentList(t) == ~controllerDisposed /\ listOwner = t

CurrentSelection(t) == ~controllerDisposed /\ selectionOwner = t

\* Nothing is selected and nothing is being selected.
Unselected(w) == w.selected = Nil /\ w.pending = Nil

EmptyOrIdle(w) == IF Listed(w) = {} THEN "empty" ELSE "idle"

\* upsertConversation
Upserted(w, v) == [w EXCEPT !.listed[v.id] = v.title]

Without(w, c) == [w EXCEPT !.listed[c] = Nil]

\* A list request failed.
ListFailed(w) == [w EXCEPT !.status = "error"]

\* A selection succeeded.
Selected(w, v) ==
    [Upserted(w, v) EXCEPT !.pending = Nil, !.selected = v.id, !.selection = "ready"]

\* A selection failed: without a cache the source of the view is "none".
SelectionFailed(w) == [w EXCEPT !.pending = Nil, !.selection = "error"]

\* Faulty: a commit of the client only updates the list.
ObservedByListOnly(w, v) ==
    IF ~controllerDisposed /\ v.id \in {w.pending, w.selected} THEN Upserted(w, v) ELSE w

\* handleClientSnapshot
Observed(w, v) ==
    IF controllerDisposed THEN w
    ELSE IF v.id = w.pending THEN Selected(w, v)
    ELSE IF v.id = w.selected THEN Upserted(w, v)
    ELSE w

\* handleClientSnapshotCleared: the client has dropped its conversation.
Dropped(w) == IF w.selected # Nil THEN w.selected ELSE w.pending

Forgets == ~controllerDisposed /\ Dropped(workspace) # Nil

ObservedCleared ==
    LET w == Without(workspace, Dropped(workspace)) IN
    IF Forgets
    THEN /\ workspace' = [w EXCEPT !.status = "ready", !.pending = Nil, !.selected = Nil,
                                   !.selection = EmptyOrIdle(w)]
         /\ listOwner' = Nil /\ selectionOwner' = Nil /\ automatic' = Nil
         /\ unswayed' = {}
    ELSE UNCHANGED <<workspace, listOwner, selectionOwner, automatic, unswayed>>

\* A call of the host begins; it reads the intent of the user.
CanBegin(t, op) == /\ op \in WorkspaceOps /\ ~controllerDisposed
                   /\ task[t].phase = "idle"

Begun(op, c) == [NoTask EXCEPT !.op = op, !.phase = "requested", !.chat = c, !.saw = choice]

\* The deadline provider of the host throws: the call fails at once.
FailsAtOnce(t, op) == task' = [task EXCEPT ![t] = Finished(Begun(op, Nil))]

\* selectConversation of the call t, from the snapshot w on: the load that is
\* pending in the client is cancelled, and the deadline provider may throw.
Select(t, call, c, w) ==
    /\ selectionOwner' = t
    /\ \/ /\ workspace' = SelectionFailed(w)
          /\ task' = [task EXCEPT ![t] = Finished(call)]
          /\ viewLoad' = Nil
       \/ /\ workspace' = [w EXCEPT !.pending = c, !.selection = "loading"]
          /\ task' = [task EXCEPT ![t] = [call EXCEPT !.phase = "loading", !.chat = c,
                                                      !.reply = Nil]]
          /\ viewLoad' = t
    /\ override' = Nil

Finish(t) == task' = [task EXCEPT ![t] = Finished(@)]

Replies(t, reply) == task' = [task EXCEPT ![t].reply = reply]

Failure == [ok |-> FALSE]

-----------------------------------------------------------------------------
(* The gateway.  An answer is read on the server some time after the       *)
(* request and is applied some time after that.                            *)

Waiting(t, op, phase) == task[t].op = op /\ task[t].phase = phase /\ task[t].reply = Nil

\* A page of `rest`, and the cursor behind it.
Pages(rest) ==
    {[ok |-> TRUE, chats |-> p, titles |-> title,
      cursor |-> IF p = rest THEN Nil ELSE rest \ p] :
        p \in {q \in SUBSET rest : Cardinality(q) = PageSize
                                   \/ (q = rest /\ Cardinality(q) < PageSize)}}

ServerLists(t) ==
    /\ \/ Waiting(t, "refresh", "requested")
          /\ \E page \in Pages(existing) \cup {Failure} : Replies(t, page)
       \/ Waiting(t, "more", "requested")
          /\ \E page \in Pages(task[t].input \cap existing) \cup {Failure} : Replies(t, page)
    /\ UNCHANGED <<serverVars, clientVars, fixedVars, listOwner, selectionVars,
                   latestCreate, mutationVars, workspace>>

ServerCreates(t) ==
    /\ Waiting(t, "create", "requested")
    /\ \/ \E c \in unborn :
            /\ existing' = existing \cup {c} /\ unborn' = unborn \ {c}
            /\ Replies(t, [ok |-> TRUE, chat |-> c])
       \/ Replies(t, Failure) /\ UNCHANGED <<existing, unborn>>
    /\ UNCHANGED <<title, clientVars, fixedVars, listOwner, selectionVars,
                   latestCreate, mutationVars, workspace>>

ServerRenames(t) ==
    /\ Waiting(t, "rename", "requested")
    /\ \/ /\ task[t].chat \in existing
          /\ title' = [title EXCEPT ![task[t].chat] = @ + 1]
          /\ Replies(t, [ok |-> TRUE, title |-> title[task[t].chat] + 1])
       \/ Replies(t, Failure) /\ UNCHANGED title
    /\ UNCHANGED <<existing, unborn, clientVars, fixedVars, listOwner, selectionVars,
                   latestCreate, mutationVars, workspace>>

ServerDeletes(t) ==
    /\ Waiting(t, "delete", "requested")
    /\ \/ /\ task[t].chat \in existing
          /\ existing' = existing \ {task[t].chat}
          /\ Replies(t, [ok |-> TRUE])
       \/ Replies(t, Failure) /\ UNCHANGED existing
    /\ UNCHANGED <<unborn, title, clientVars, fixedVars, listOwner, selectionVars,
                   latestCreate, mutationVars, workspace>>

ServerLoads(t) ==
    /\ task[t].phase = "loading" /\ task[t].reply = Nil
    /\ \/ /\ task[t].chat \in existing
          /\ Replies(t, [ok |-> TRUE, title |-> title[task[t].chat]])
       \/ Replies(t, Failure)
    /\ UNCHANGED <<serverVars, clientVars, fixedVars, listOwner, selectionVars,
                   latestCreate, mutationVars, workspace>>

-----------------------------------------------------------------------------
(* The list.                                                               *)

\* refreshPage, up to its request: it cancels a selection that an earlier
\* refresh has begun by itself.
Refresh(t) ==
    LET cancels == automatic # Nil /\ automatic = selectionOwner
        stops == cancels /\ workspace.pending # Nil
        w == IF stops
             THEN [workspace EXCEPT !.pending = Nil, !.status = "loading",
                       !.selection = IF workspace.selected = Nil THEN "idle" ELSE "ready"]
             ELSE [workspace EXCEPT !.status = "loading"]
    IN
    /\ CanBegin(t, "refresh")
    /\ listOwner' = t
    /\ unswayed' = unswayed \cup {t}
    /\ automatic' = IF cancels THEN Nil ELSE automatic
    /\ selectionOwner' = IF stops THEN Nil ELSE selectionOwner
    /\ viewLoad' = IF stops THEN Nil ELSE viewLoad
    /\ override' = IF stops THEN Nil ELSE override
    /\ \/ /\ workspace' = w
          /\ task' = [task EXCEPT ![t] = Begun("refresh", Nil)]
       \/ workspace' = ListFailed(w) /\ FailsAtOnce(t, "refresh")
    /\ UNCHANGED <<serverVars, viewed, fixedVars, choice, latestCreate, mutationVars>>

\* The page of a refresh replaces the list; the first page of the host goes on
\* to the selection after an await.
RefreshSettles(t) ==
    LET reply == task[t].reply
        w == [workspace EXCEPT
                !.listed = [c \in Chats |-> IF c \in reply.chats THEN reply.titles[c] ELSE Nil],
                !.status = "ready", !.cursor = reply.cursor]
    IN
    /\ task[t].op = "refresh" /\ task[t].phase = "requested" /\ reply # Nil
    /\ \/ /\ ~CurrentList(t) /\ Finish(t) /\ UNCHANGED <<workspace, paged>>
       \/ /\ CurrentList(t) /\ ~reply.ok
          /\ Finish(t) /\ workspace' = ListFailed(workspace) /\ UNCHANGED paged
       \/ /\ CurrentList(t) /\ reply.ok
          /\ task' = [task EXCEPT ![t] = [@ EXCEPT !.phase = "refreshed", !.reply = Nil]]
          /\ paged' = TRUE
          /\ workspace' = IF Listed(w) = {} /\ Unselected(w)
                          THEN [w EXCEPT !.selection = "empty"] ELSE w
    /\ UNCHANGED <<serverVars, clientVars, firstSelected, controllerDisposed, listOwner, selectionVars,
                   latestCreate, mutationVars>>

\* Whether a refresh may still select: nobody changed the list or chose.
MaySelectFirst(t) == CurrentList(t) /\ t \in unswayed

RefreshContinues(t) ==
    LET selects == MaySelectFirst(t) /\ Unselected(workspace)
        first == firstSelected /\ Listed(workspace) # {}
    IN
    /\ task[t].phase = "refreshed"
    /\ \/ /\ selects /\ first
          /\ \E c \in Listed(workspace) : Select(t, task[t], c, workspace)
          /\ automatic' = IF task'[t].phase = "loading" THEN t ELSE Nil
       \/ /\ selects /\ ~first
          /\ workspace' = [workspace EXCEPT !.selection = "empty"]
          /\ Finish(t) /\ UNCHANGED <<selectionOwner, automatic, viewLoad, override>>
       \/ /\ ~selects
          /\ Finish(t) /\ UNCHANGED <<selectionOwner, automatic, viewLoad, override, workspace>>
    /\ UNCHANGED <<serverVars, viewed, fixedVars, listOwner, unswayed, choice,
                   latestCreate, mutationVars>>

LoadMore(t) ==
    /\ CanBegin(t, "more")
    /\ workspace.cursor # Nil
    /\ listOwner' = t
    /\ \/ /\ workspace' = [workspace EXCEPT !.status = "loading-more"]
          /\ task' = [task EXCEPT ![t] = [Begun("more", Nil) EXCEPT !.input = workspace.cursor]]
       \/ workspace' = ListFailed(workspace) /\ FailsAtOnce(t, "more")
    /\ UNCHANGED <<serverVars, clientVars, fixedVars, selectionVars, latestCreate, mutationVars>>

\* A further page is appended: what is listed already keeps its place and title.
MoreSettles(t) ==
    LET reply == task[t].reply IN
    /\ task[t].op = "more" /\ task[t].phase = "requested" /\ reply # Nil
    /\ Finish(t)
    /\ workspace' =
           IF ~CurrentList(t) THEN workspace
           ELSE IF ~reply.ok THEN ListFailed(workspace)
           ELSE [workspace EXCEPT
                   !.listed = [c \in Chats |-> IF @[c] = Nil /\ c \in reply.chats
                                               THEN reply.titles[c] ELSE @[c]],
                   !.status = "ready", !.cursor = reply.cursor]
    /\ UNCHANGED <<serverVars, clientVars, fixedVars, listOwner, selectionVars,
                   latestCreate, mutationVars>>

-----------------------------------------------------------------------------
(* The mutations.  Each that succeeds makes the list requests in flight    *)
(* stale.                                                                  *)

Create(t, select) ==
    /\ CanBegin(t, "create")
    /\ latestCreate' = t
    /\ unswayed' = unswayed \cup {t}
    /\ \/ task' = [task EXCEPT ![t] = [Begun("create", Nil) EXCEPT !.input = select]]
       \/ FailsAtOnce(t, "create")
    /\ UNCHANGED <<serverVars, clientVars, fixedVars, listOwner, selectionOwner, automatic,
                   choice, mutationVars, workspace>>

\* Faulty: the intent of the user is not compared.
MaySelectCreatedAnyway(t) == task[t].input /\ latestCreate = t

MaySelectCreated(t) == task[t].input /\ latestCreate = t /\ t \in unswayed

CreateSettles(t) ==
    LET reply == task[t].reply
        w == [Upserted(workspace, Titled(reply.chat, 0)) EXCEPT !.status = "ready"]
        applies == ~controllerDisposed /\ reply.ok
    IN
    /\ task[t].op = "create" /\ task[t].phase = "requested" /\ reply # Nil
    /\ listOwner' = IF applies THEN Nil ELSE listOwner
    /\ \/ /\ applies /\ MaySelectCreated(t)
          /\ automatic' = Nil
          /\ Select(t, task[t], reply.chat, w)
       \/ /\ ~(applies /\ MaySelectCreated(t))
          /\ workspace' = IF applies THEN w ELSE workspace
          /\ Finish(t)
          /\ UNCHANGED <<selectionOwner, automatic, viewLoad, override>>
    /\ UNCHANGED <<serverVars, viewed, fixedVars, unswayed, choice, latestCreate, mutationVars>>

Mutable(c) == c \notin renaming \cup deleting

Rename(t, c) ==
    /\ CanBegin(t, "rename") /\ c \notin unborn /\ Mutable(c)
    /\ \/ /\ renaming' = renaming \cup {c}
          /\ task' = [task EXCEPT ![t] = Begun("rename", c)]
       \/ UNCHANGED renaming /\ FailsAtOnce(t, "rename")
    /\ UNCHANGED <<serverVars, clientVars, fixedVars, listOwner, selectionVars,
                   latestCreate, deleting, erased, retitled, workspace>>

\* renameConversation of the client: the view, and the load that is pending.
ClientRenamed(t) ==
    LET c == task[t].chat
        reply == task[t].reply
        v == Titled(c, reply.title)
        shows == reply.ok /\ viewed # Nil /\ viewed.id = c
    IN
    /\ task[t].op = "rename" /\ task[t].phase = "requested" /\ reply # Nil
    /\ override' = IF reply.ok /\ viewLoad # Nil /\ task[viewLoad].chat = c
                   THEN reply.title ELSE override
    /\ viewed' = IF shows THEN v ELSE viewed
    /\ workspace' = IF shows THEN Observed(workspace, v) ELSE workspace
    /\ task' = [task EXCEPT ![t].phase = "returning"]
    /\ UNCHANGED <<serverVars, viewLoad, fixedVars, listOwner, selectionVars,
                   latestCreate, mutationVars>>

\* An answer that holds c as it was is still to be applied: a creation that the
\* server has answered, or a load that has committed its view and waits for the
\* cleanup of the old subscription.
OlderAnswer(c) ==
    \E s \in Tasks : /\ task[s].op \in {"create", "refresh", "select"}
                    /\ task[s].reply # Nil /\ task[s].reply.ok
                    /\ \/ task[s].phase = "returning" /\ task[s].chat = c
                       \/ task[s].op = "create" /\ task[s].phase = "requested"
                          /\ task[s].reply.chat = c

RenameSettles(t) ==
    LET c == task[t].chat
        reply == task[t].reply
        applies == ~controllerDisposed /\ reply.ok
    IN
    /\ task[t].op = "rename" /\ task[t].phase = "returning"
    /\ renaming' = renaming \ {c}
    /\ listOwner' = IF applies THEN Nil ELSE listOwner
    /\ workspace' = IF applies
                    THEN [Upserted(workspace, Titled(c, reply.title)) EXCEPT !.status = "ready"]
                    ELSE workspace
    /\ retitled' = IF applies /\ ~OlderAnswer(c)
                   THEN [retitled EXCEPT ![c] = reply.title] ELSE retitled
    /\ Finish(t)
    /\ UNCHANGED <<serverVars, clientVars, fixedVars, selectionVars, latestCreate,
                   deleting, erased>>

Delete(t, c) ==
    /\ CanBegin(t, "delete") /\ c \notin unborn /\ Mutable(c)
    /\ \/ /\ deleting' = deleting \cup {c}
          /\ task' = [task EXCEPT ![t] = Begun("delete", c)]
       \/ UNCHANGED deleting /\ FailsAtOnce(t, "delete")
    /\ UNCHANGED <<serverVars, clientVars, fixedVars, listOwner, selectionVars,
                   latestCreate, renaming, erased, retitled, workspace>>

\* deleteConversation of the client: it gives up the view and every load that is
\* pending, or only the load, and waits for the cleanup.
ClientDeleted(t) ==
    LET c == task[t].chat
        shows == task[t].reply.ok /\ viewed # Nil /\ viewed.id = c
        loads == task[t].reply.ok /\ viewLoad # Nil /\ task[viewLoad].chat = c
    IN
    /\ task[t].op = "delete" /\ task[t].phase = "requested" /\ task[t].reply # Nil
    /\ viewLoad' = IF shows \/ loads THEN Nil ELSE viewLoad
    /\ override' = IF shows \/ loads THEN Nil ELSE override
    /\ viewed' = IF shows THEN Nil ELSE viewed
    /\ IF shows THEN ObservedCleared
       ELSE UNCHANGED <<workspace, listOwner, selectionOwner, automatic, unswayed>>
    /\ task' = [task EXCEPT ![t].phase = "returning"]
    /\ UNCHANGED <<serverVars, fixedVars, choice, latestCreate, mutationVars>>

\* What a deletion leaves of the selection.
Deselected(w, c) ==
    IF w.selected = c
    THEN [w EXCEPT !.pending = Nil, !.selected = Nil, !.selection = EmptyOrIdle(w)]
    ELSE IF w.pending = c
    THEN [w EXCEPT !.pending = Nil,
                   !.selection = IF w.selected = Nil THEN EmptyOrIdle(w) ELSE "ready"]
    ELSE w

DeleteSettles(t) ==
    LET c == task[t].chat
        applies == ~controllerDisposed /\ task[t].reply.ok
        deselects == applies /\ c \in {workspace.selected, workspace.pending}
    IN
    /\ task[t].op = "delete" /\ task[t].phase = "returning"
    /\ deleting' = deleting \ {c}
    /\ listOwner' = IF applies THEN Nil ELSE listOwner
    /\ workspace' = IF applies
                    THEN [Deselected(Without(workspace, c), c) EXCEPT !.status = "ready"]
                    ELSE workspace
    /\ unswayed' = IF deselects THEN {} ELSE unswayed
    /\ selectionOwner' = IF deselects THEN Nil ELSE selectionOwner
    /\ automatic' = IF deselects THEN Nil ELSE automatic
    /\ viewLoad' = IF deselects THEN Nil ELSE viewLoad
    /\ override' = IF deselects THEN Nil ELSE override
    /\ erased' = IF applies /\ ~OlderAnswer(c) THEN erased \cup {c} ELSE erased
    /\ Finish(t)
    /\ UNCHANGED <<serverVars, viewed, fixedVars, choice, latestCreate, renaming, retitled>>

-----------------------------------------------------------------------------
(* The selection.                                                          *)

\* selectConversation: a user's choice overrules what other calls would select.
Choose(t, c) ==
    /\ CanBegin(t, "select") /\ c \notin unborn
    /\ automatic' = Nil /\ unswayed' = {}
    /\ choice' = t
    /\ Select(t, Begun("select", c), c, workspace)
    /\ UNCHANGED <<serverVars, viewed, fixedVars, listOwner, latestCreate, mutationVars>>

\* loadConversation of the client: it commits what it read, under a title that a
\* rename gave meanwhile, and waits for the cleanup of the old subscription.
ClientLoads(t) ==
    LET reply == task[t].reply
        loaded == [ok |-> TRUE, title |-> IF override # Nil THEN override ELSE reply.title]
        commits == viewLoad = t /\ reply.ok
    IN
    /\ task[t].phase = "loading" /\ reply # Nil
    /\ task' = [task EXCEPT ![t] = [@ EXCEPT !.phase = "returning",
                                             !.reply = IF commits THEN loaded ELSE Failure]]
    /\ viewed' = IF commits THEN Titled(task[t].chat, loaded.title) ELSE viewed
    /\ workspace' = IF commits THEN Observed(workspace, Titled(task[t].chat, loaded.title))
                    ELSE workspace
    /\ viewLoad' = IF viewLoad = t THEN Nil ELSE viewLoad
    /\ override' = IF viewLoad = t THEN Nil ELSE override
    /\ UNCHANGED <<serverVars, fixedVars, listOwner, selectionVars, latestCreate, mutationVars>>

SelectionSettles(t) ==
    LET reply == task[t].reply IN
    /\ task[t].op \in {"select", "refresh", "create"} /\ task[t].phase = "returning"
    /\ workspace' = IF ~CurrentSelection(t) THEN workspace
                    ELSE IF ~reply.ok THEN SelectionFailed(workspace)
                    ELSE Selected(workspace, Titled(task[t].chat, reply.title))
    /\ automatic' = IF automatic = t THEN Nil ELSE automatic
    /\ Finish(t)
    /\ UNCHANGED <<serverVars, clientVars, fixedVars, listOwner, selectionOwner, unswayed,
                   choice, latestCreate, mutationVars>>

-----------------------------------------------------------------------------
(* The client commits something else, a message say, and the end.          *)

ClientCommits ==
    /\ viewed # Nil
    /\ workspace' = Observed(workspace, viewed)
    /\ UNCHANGED <<serverVars, clientVars, fixedVars, listOwner, selectionVars,
                   latestCreate, mutationVars, task>>

WorkspaceDisposes ==
    /\ "dispose" \in WorkspaceOps /\ ~controllerDisposed
    /\ controllerDisposed' = TRUE
    /\ listOwner' = Nil /\ selectionOwner' = Nil /\ latestCreate' = Nil /\ unswayed' = {}
    /\ viewLoad' = IF workspace.pending # Nil THEN Nil ELSE viewLoad
    /\ override' = IF workspace.pending # Nil THEN Nil ELSE override
    /\ UNCHANGED <<firstSelected, paged, serverVars, viewed, automatic, choice, mutationVars,
                   workspace, task>>

TaskNext(t) ==
    \/ Refresh(t) \/ LoadMore(t)
    \/ \E select \in BOOLEAN : Create(t, select)
    \/ \E c \in Chats : Rename(t, c) \/ Delete(t, c) \/ Choose(t, c)
    \/ ServerLists(t) \/ ServerCreates(t) \/ ServerRenames(t) \/ ServerDeletes(t) \/ ServerLoads(t)
    \/ RefreshSettles(t) \/ RefreshContinues(t) \/ MoreSettles(t) \/ CreateSettles(t)
    \/ ClientRenamed(t) \/ RenameSettles(t) \/ ClientDeleted(t) \/ DeleteSettles(t)
    \/ ClientLoads(t) \/ SelectionSettles(t)

WsNext == (\E t \in Tasks : TaskNext(t)) \/ ClientCommits \/ WorkspaceDisposes

WsSpec == WsInit /\ [][WsNext]_wsVars

-----------------------------------------------------------------------------
(* Properties.                                                             *)

\* What a call deleted is not listed again and what it renamed does not get its
\* old title back, whichever pages, loads and commits arrive later.  Excepted is
\* the mutation of a conversation of which an older answer was still to be
\* applied when it settled (OlderAnswer): that answer is not tied to a revision
\* of the list and puts what it holds back.
MutationsHold == \A c \in Listed(workspace) :
                    c \notin erased /\ workspace.listed[c] >= retitled[c]

\* A list that is ready and has no further page holds every conversation, except
\* one whose creation is not answered yet.  A mutation also makes the very first
\* page stale, and then the list is ready without it; `paged` excepts this.
ReadyListIsComplete ==
    (~controllerDisposed /\ paged /\ workspace.status = "ready" /\ workspace.cursor = Nil) =>
        \A c \in existing \ Listed(workspace) :
            \E t \in Tasks : task[t].op = "create" /\ task[t].phase = "requested"

\* The list agrees with the server, in whatever order pages, refreshes and
\* mutations settle.
ListAgrees == MutationsHold /\ ReadyListIsComplete

\* The controller shows as selected what the client displays, in every state in
\* which no code runs.
SelectionIsDisplayed ==
    ~controllerDisposed => workspace.selected = IF viewed = Nil THEN Nil ELSE viewed.id

\* A call may select by itself only when the user has not chosen since it began.
UserChoiceWins ==
    selectionOwner # Nil =>
        (IF task[selectionOwner].op = "select" THEN selectionOwner
                                               ELSE task[selectionOwner].saw) = choice

\* What is selected is displayed, and is what the user chose last.
SelectionHolds == SelectionIsDisplayed /\ UserChoiceWins

=============================================================================
