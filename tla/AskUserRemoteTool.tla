-------------------------- MODULE AskUserRemoteTool --------------------------
(***************************************************************************)
(* The built-in tool by which a server asks the user a question            *)
(* (chat-runtime/src/ask-user-remote-tool.ts), and of the remote tool      *)
(* client (remote-tool-client.ts) what one of its calls sees.              *)
(*                                                                         *)
(* A call of the tool puts a card on display and waits for the user.  It   *)
(* returns to the client when the card is settled: by an answer, by the    *)
(* abortion of the call, or by the disposal of the tool.  The client goes  *)
(* on in a later microtask ("returned"): until then only listeners of the  *)
(* card, which are host code, run; timers and new calls have to wait.      *)
(* A question is abstracted to its requestId, an answer to the fact that   *)
(* there is one.                                                           *)
(***************************************************************************)
EXTENDS Integers, Sequences, SequencesExt

CONSTANTS
    Requests,       \* requestIds, each invoked once
    MaxEntries      \* the number of cards that are kept (100)

ASSUME MaxEntriesAssumption == MaxEntries \in Nat

VARIABLES
    toolDisposed,   \* #disposed of the tool
    cards,          \* #snapshot: the requestIds of its entries, oldest first
    card,           \* the state of an entry: its result, if there is one
    asked,          \* how far a call is
    value,          \* what the handler returned
    late,           \* the calls whose deadline is over
    told,           \* what the client answered the server
    overtaken       \* calls that were aborted or became late while returning

askVars == <<toolDisposed, cards, card, asked, value, late, told, overtaken>>

Reasons == {"timeout", "cancelled", "disposed", "capacity", "conversation-unavailable"}

AskTypeOK ==
    /\ toolDisposed \in BOOLEAN
    /\ cards \in Seq(Requests) /\ IsInjective(cards) /\ Len(cards) <= MaxEntries
    /\ card \in [Requests -> {"none", "open", "drafted", "answered", "timeout", "cancelled"}]
    /\ asked \in [Requests -> {"idle", "resolving", "waiting", "returned", "over"}]
    /\ value \in [Requests -> {"none", "ok"} \cup Reasons]
    /\ late \subseteq Requests /\ overtaken \subseteq Requests
    /\ told \in [Requests -> {"none", "ok"} \cup Reasons]

AskInit ==
    /\ toolDisposed = FALSE
    /\ cards = <<>>
    /\ card = [r \in Requests |-> "none"]
    /\ asked = [r \in Requests |-> "idle"]
    /\ value = [r \in Requests |-> "none"]
    /\ late = {} /\ overtaken = {}
    /\ told = [r \in Requests |-> "none"]

-----------------------------------------------------------------------------
Open(r) == card[r] \in {"open", "drafted"}

\* The client has not settled the call: cancellationReason is undefined.
Pending(r) == told[r] = "none"

\* No handler has returned that the client has not heard of.
NoneReturned == \A r \in Requests : asked[r] # "returned"

Returns(r, v) ==
    /\ asked' = [asked EXCEPT ![r] = "returned"]
    /\ value' = [value EXCEPT ![r] = v]

\* The status a card shows for a result.
Terminal(v) == CASE v = "ok" -> "answered"
                 [] v = "timeout" -> "timeout"
                 [] v \in {"cancelled", "disposed"} -> "cancelled"

\* finish of one call: the card is settled, then the handler returns.
Settle(r, v) ==
    /\ card' = [card EXCEPT ![r] = Terminal(v)]
    /\ Returns(r, v)

\* execute begins to resolve the conversation.
Execute(r) ==
    /\ asked[r] = "idle" /\ NoneReturned
    /\ IF toolDisposed THEN Returns(r, "disposed")
       ELSE asked' = [asked EXCEPT ![r] = "resolving"] /\ UNCHANGED value
    /\ UNCHANGED <<toolDisposed, cards, card, late, told, overtaken>>

\* The cards that may make room for a new one.
Replaceable == {r \in Range(cards) : ~Open(r)}

\* The first card that may make room, if there is any.
Removed ==
    LET i == SelectInSeq(cards, LAMBDA r : r \in Replaceable)
    IN RemoveAt(cards, i)

\* The conversation of a call is resolved, or there is none.
Resolve(r, found) ==
    /\ asked[r] = "resolving" /\ NoneReturned
    /\ LET full == Len(cards) >= MaxEntries
           refusal == CASE toolDisposed -> "disposed"
                        [] ~toolDisposed /\ ~Pending(r) -> told[r]
                        [] ~toolDisposed /\ Pending(r) /\ ~found -> "conversation-unavailable"
                        [] ~toolDisposed /\ Pending(r) /\ found ->
                              IF full /\ Replaceable = {} THEN "capacity" ELSE "none"
       IN IF refusal # "none"
          THEN Returns(r, refusal) /\ UNCHANGED <<cards, card>>
          ELSE /\ cards' = Append(IF full THEN Removed ELSE cards, r)
               /\ card' = [card EXCEPT ![r] = "open"]
               /\ asked' = [asked EXCEPT ![r] = "waiting"]
               /\ UNCHANGED value
    /\ UNCHANGED <<toolDisposed, late, told, overtaken>>

\* setDraft and answer are refused unless the card is open and its call waits.
Answerable(r) ==
    /\ ~toolDisposed /\ r \in Range(cards) /\ Open(r)
    /\ asked[r] = "waiting" /\ Pending(r)

SetAnswerDraft(r) ==
    /\ Answerable(r)
    /\ card' = [card EXCEPT ![r] = "drafted"]
    /\ UNCHANGED <<toolDisposed, cards, asked, value, late, told, overtaken>>

\* Faulty: an answer that comes after the deadline is taken.
VerdictAtLeisure(r, action) == IF action = "submit" THEN "ok" ELSE "cancelled"

\* What the user's decision means for the call, if there is time.
Verdict(r, action) ==
    CASE r \in late -> "timeout"
      [] r \notin late /\ action = "submit" -> "ok"
      [] r \notin late /\ action = "cancel" -> "cancelled"

\* answer
AnswerCard(r, action) ==
    /\ Answerable(r)
    /\ Settle(r, Verdict(r, action))
    /\ UNCHANGED <<toolDisposed, cards, late, told, overtaken>>

\* The client settles a call for a reason of its own: cancellation by the host,
\* loss of the connection, disposal, or its timer.  The tool hears of it.
Abort(r, reason) ==
    /\ asked[r] \notin {"idle", "over"} /\ Pending(r)
    /\ reason = "timeout" => r \in late /\ NoneReturned
    /\ told' = [told EXCEPT ![r] = reason]
    /\ IF asked[r] = "waiting" THEN Settle(r, reason) ELSE UNCHANGED <<card, asked, value>>
    /\ overtaken' = IF asked[r] = "returned" THEN overtaken \cup {r} ELSE overtaken
    /\ UNCHANGED <<toolDisposed, cards, late>>

\* The result the client sends for what a handler returned.
Outcome(r) == IF r \in late THEN "timeout" ELSE value[r]

\* The client goes on with a handler that returned.
Collect(r) ==
    /\ asked[r] = "returned"
    /\ asked' = [asked EXCEPT ![r] = "over"]
    /\ told' = IF Pending(r) THEN [told EXCEPT ![r] = Outcome(r)] ELSE told
    /\ value' = [value EXCEPT ![r] = "none"]
    /\ UNCHANGED <<toolDisposed, cards, card, late, overtaken>>

BecomesLate(r) ==
    /\ asked[r] \notin {"idle", "over"} /\ r \notin late
    /\ late' = late \cup {r}
    /\ overtaken' = IF asked[r] = "returned" THEN overtaken \cup {r} ELSE overtaken
    /\ UNCHANGED <<toolDisposed, cards, card, asked, value, told>>

\* Every call that waits is settled, then the display is emptied.
DisposeTool ==
    /\ ~toolDisposed
    /\ toolDisposed' = TRUE
    /\ cards' = <<>>
    /\ card' = [r \in Requests |-> IF asked[r] = "waiting" THEN "cancelled" ELSE card[r]]
    /\ asked' = [r \in Requests |-> IF asked[r] = "waiting" THEN "returned" ELSE asked[r]]
    /\ value' = [r \in Requests |-> IF asked[r] = "waiting" THEN "disposed" ELSE value[r]]
    /\ UNCHANGED <<late, told, overtaken>>

AskNext ==
    \/ \E r \in Requests :
        \/ Execute(r) \/ SetAnswerDraft(r) \/ Collect(r) \/ BecomesLate(r)
        \/ \E found \in BOOLEAN : Resolve(r, found)
        \/ \E action \in {"submit", "cancel"} : AnswerCard(r, action)
        \/ \E reason \in {"timeout", "cancelled"} : Abort(r, reason)
    \/ DisposeTool

AskSpec == AskInit /\ [][AskNext]_askVars

-----------------------------------------------------------------------------
\* While a call waits for the user its card is on display and open, however many
\* cards came after it (execute, capacity).
WaitingIsShown ==
    \A r \in Requests : asked[r] = "waiting" => r \in Range(cards) /\ Open(r)

\* The card and the server agree: the server has an answer only if the card
\* shows one, and a card that shows an answer was answered to the server,
\* unless the call was aborted or became late while the answer was on its way.
CardAgrees ==
    \A r \in Requests : told[r] # "none" =>
        /\ told[r] = "ok" => card[r] = "answered"
        /\ card[r] = "answered" /\ r \notin overtaken => told[r] = "ok"

\* What the user sees of a call is what becomes of it.
CardsTellTheTruth == WaitingIsShown /\ CardAgrees

=============================================================================
